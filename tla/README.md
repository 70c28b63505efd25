# Verification project of the handheld panel

The repository is the firmware of a handheld control panel (GD32F303, bare
metal C, no operating system): a keypad, an LCD menu and an RS485 line to the
controller of a bar feeder. The panel is the Modbus RTU master. This directory
holds TLA+ models of its core, the TLC configurations that check them, and
TLAPS proofs.

## 1. Inventory of the system

One main loop (`src/User/main.c`) and three interrupts run the panel:

- SysTick, every millisecond: the clock, the scan of the keys, every 10 ms the
  power saver.
- USART1 receive (higher priority): one byte from the RS485 line.
- TIMER4, every 10 ms while it runs (lower priority): end of a frame, timeout.

The main loop calls `key_menu_loop` (every 1 ms), `menu_rs485_runtime_process`
(10 ms; in it `add_menu_polltask` every 100 ms and the change check every
50 ms), `menu_handle_timer` (100 ms; redraw), and in every pass
`MBController_Process` and `pm_handler`.

| Component | State | Operations | What makes it correct |
|---|---|---|---|
| Register cache, `device_storage.c` | `g_hash_cache`, 257 nodes, open addressing | `HashCache_Init/Register*/Get*/Set*/Has*`, `DeviceStorage_*` | it is a bounded map: no entry lost, doubled or mixed up, "full" only when full |
| Request scheduler, `user_mb_controller.c` | two rings of 8, `mb_state`, `current_req`, `timeoutcnt`, `rs_err` | `MBController_Request`, `MBController_Process` | accepted requests are served once, in order, writes first; retries end; the error shown is the last one |
| RTU master, `bsp_gd32f303xx_modbus.c` | the handle: `exe`, `ErrLatch`, `RxCnt`, `CRCRx`, `TimeoutCnt`, buffers; TIMER4 | `bsp_MBMasterTransmitCommand`, the two interrupt handlers, `vResetMasterState` | a command always ends; an answer is accepted only if it is whole, undamaged and the answer to that command |
| Poll requests, `user_poll.c` | the round in progress | `generate_requests`, `add_menu_polltask`, `WriteValue` | every address is read once per round, no request too long |
| Poll manager, `poll_manager.c` | addresses of the page, the alarm address, values reported last | register, list, check for changes | every change is reported; what is shown follows the device |
| Alarm log, `menu_system.c` 753-959, 1241-1382 | ring of 10 entries, read marks, page and row | append, mark read, open, close, move, select | an alarm is logged once; the newest entry is the alarm that stands; the cursor stays on an entry |
| Menu navigation, `menu_system.c` | current page and item, history of 8, paging | enter, back, move, select, relative page | back returns to where the user came from; the page shown is the one with the cursor; its registers are polled |
| Editing, momentary keys, `menu_system.c` | edit session, pending value, item held | begin, change, apply, cancel; press, release | what is written belongs to the item under the cursor and its range; a momentary coil is switched off again |
| IO monitor, `menu_system.c` 961-1239 | view, page, selected point | open, move, page, select, close | only existing outputs are inverted |
| Key control, `key_control.c` | state and times per key, queue of 16 events | scan, take an event | one key at a time; PRESS, or LONG_PRESS and REPEATs; no event lost; a bounce is not a key |
| Keyboard driver, `drv_hid.c` | scanner of the function keys with its filter; matrix, knob | scans, from the interrupt | the key it follows is the one that is down |
| Power management, `drv_pm.c`, chord in `bsp.c` | `pm_req`, `dont_sleep`, two timers | sleep scan, chord, suspend, wake, shutdown | it stops only for a reason, stops when nobody uses it, and a key wakes it |
| FIFO, `bsp_fifo.c` | ring shared with an interrupt | put, get | no byte lost or doubled |
| Modbus TCP, WiFi, `bsp_modbus_tcp.c`, `bsp_wifi*.c` | windows of four requests | | built only with `WIFI_H02W` |
| Display, fonts, languages, USB, board drivers | | | output and register access |

How they interact: the menu registers the addresses of a page with the poll
manager; `add_menu_polltask` makes reads of them and puts them into the
scheduler; key presses put writes into it; the scheduler hands one request at a
time to the RTU master and stores what comes back in the cache; the change check
compares the cache with what was reported last, logs alarms and asks for a
redraw; the redraw reads the cache again.

What is hard here: interrupts that hit the main loop between two assignments;
answers that are lost, damaged or late; one failure counter for all requests; a
read queue that is often full, because a round of polling fills it; a request to
sleep that one actor makes and withdraws and another carries out; three copies
of each register (cache, reported, shown) that are updated at different times, and
a panel that writes the first of them itself, before the slave has the value; a
hash table in which an entry depends on its neighbours; an alarm that opens its
page over whatever the user is doing. `PROJECT.json` lists
these hazards with their lines.

## 2. Modules

| Module | Models | Composes |
|---|---|---|
| `AddressTable` | what the cache promises: a bounded map | |
| `HashCache` | `device_storage.c` | implements `AddressTable` |
| `HashCache_proofs` | theorems on `HashCache` | |
| `MBController` | `user_mb_controller.c`, over any master | |
| `ModbusMaster` | the RTU master and its two interrupts | |
| `MBController_proofs`, `ModbusMaster_proofs` | theorems on these modules | |
| `Rs485Link` | main loop, interrupts, line and slave | `MBController`, `ModbusMaster`; implements `MBController!Spec` |
| `Rs485Link_proofs` | theorems on `Rs485Link`, with those of its two parts carried over | |
| `PollBlocks` | `generate_requests` and its helpers, pure | |
| `PollBlocks_proofs` | theorems on `PollBlocks`, over the lists of `MCPollBlocks` | |
| `Polling` | `add_menu_polltask`, poll manager, alarm decision, the writes of the panel and the line they meet | `PollBlocks` |
| `Polling_proofs` | theorems on `Polling`; uses `PollBlocks_proofs` | |
| `Menu` | navigation, paging, editing, momentary keys, IO monitor, alarm log | `KeyStream` (its scans) |
| `Menu_proofs` | theorems on `Menu` | |
| `MomentaryKey` | a momentary key over the scheduler, the line and the coil | `MBController` |
| `KeyStream` | what the keypad promises the menu: its keys and events | |
| `KeyDriver` | the function keys of `drv_hid.c` | |
| `KeyControl` | `key_control.c` | `KeyDriver` |
| `PowerManager` | `drv_pm.c` and the chord of `bsp.c` | `KeyDriver` |
| `Panel` | SysTick against the main loop, for keys and power | `KeyControl`, `PowerManager`; implements `KeyStream` |
| `Panel_proofs` | theorems on `Panel` | |

The `MC*` modules give the constants small values; every `.cfg` belongs to the
`MC` module whose name it starts with.

### How state and actions correspond to the code

**HashCache.** `cache` is `g_hash_cache`, a function from slots to nodes; `ret`
and `out` are the return value and the out-parameter of the last call. Each
exported function is an action; `Find` is the loop of `hash_cache_find`, written
as the first probe position at which the loop stops. All callers are in the main
loop, so a call is one step.

**MBController.** A ring of n slots is a sequence that is full with n-1
elements. `Take`, `Continue` and `Answered` are the states of
`MBController_Process`; what the master returns is a parameter, so the module can
be checked with a master that returns anything and then composed with the real
one. Left out: the slave address (one constant in the code), `req_full_cnt` and
`req_err_cnt` (never read), and `default` branches that a queued request cannot
reach. `calls`, `ended` and `attempts` are history.

**ModbusMaster.** `tx_state` is the static state of
`bsp_MBMasterTransmitCommand`, with the points inside `vResetMasterState` where
an interrupt makes a difference as states of their own; `tim_isr` is the point
inside `vMBMasterTimISR` where the receive interrupt, which has the higher
priority, may come. A frame is three chunks: address, function code, rest. What
was received is abstracted to the number of chunks and the frame they begin, or
"junk"; the checksum is right exactly for one whole undamaged frame. `rx` and
`crc` are separate because `vResetMasterState` clears `CRCRx` before `RxCnt`.
The evaluation of an answer is one step. That the echo check of a write compares
bytes, while the check of a read looks at the declared length only, is kept
(`Fits`).

**Rs485Link.** The main loop runs the scheduler, which calls the master; while
the loop is inside `vResetMasterState` nothing else of it happens. The slave may
lose a request, carry it out, refuse it, and lose, damage or delay its answer.
A frame carries, besides what is on the line, the command it answers (`by`), and
`late` remembers whether any chunk came after the outcome of its command: both
are history.

**PollBlocks, Polling.** Each `for` loop of `generate_requests` and its helpers is
its body (`AddBits`, `Insert`, `Join`, `AddSplit`) under `Loop`, a function of the
elements done so far; the limit on the requests is the `if` in `AddSplit`. `add_menu_polltask` is the two actions `StartRound` and
`CreateRequests`; `CreateRequests` queues as many reads as the ring takes.
`CheckAndUpdateValues` is the whole 50 ms task, with
`menu_handle_data_updates`; drawing is left to `Menu`. The clock is left out: the
periodic tasks happen in any order, which includes the order the periods allow.
The cache has two writers: the scheduler, which stores what a read brought or what a
write that succeeded has written (`Answered`), and the panel itself, which on an edit,
or a momentary key pressed or released, asks for the write and stores the value at
once (`SetItem`: `apply_pending_edit_value`, `menu_item_set_momentary_state` and the
`menu_item_update_shadow_value` in both). The IO monitor asks for a write and stores
nothing (`SwitchOutput`). A write that finds its ring full is dropped and stored all
the same. The line appears as two queues, of writes and of reads; `Take` begins with
the oldest write, or else the oldest read, and the request in progress is answered or
given up, after the slave carried it out or without that. Carrying out and answering is
one step: nothing on the panel looks at the slave in between, and what the slave
changes on its own (`DeviceChanges`) comes before or after. Retries, refusals and
answers that are late are in `MBController` and `Rs485Link`; here an answer is the one
to the request in progress.

**Menu.** A pass of the key loop is two actions. `Scan` is the scan of
`key_control` with the press and release of the momentary item, which the code
does first; `HandleEvent` then handles the event of the scan. What a scan may
report is `KeyStream!Scan`; `Panel` shows that the keypad reports nothing else,
and that at most one event waits. Between passes the device reports (`DataUpdates`) and the screen is
drawn (`Timer`). `InMenu`, `Editing`, `InMonitor` and `InAlarmLog` say, for each
thing that may be on the screen, what each key does there; they join the
`switch` statements of `handle_short_press`, `handle_long_press` and
`handle_repeat_event` with the checks of `special_view` and `is_editing` inside
the handlers. Pages come from heights (`StartOf`), for items and for log entries
alike. The fields that go together are one record: `paging`, `edit`, `io`,
`logpage`. The ring of log entries is a sequence with the newest entry first.
A read of the register cache gives any value the register may hold. Left out:
drawing, the flashing of an edited value, the time of an alarm, the language
(nothing in the program changes it), `alarm_log_has_last_value` (set, without
effect) and the item types the shipped menu does not use.

**MomentaryKey.** `momentary_enter_active` is the key, `coil` the coil in the
slave. The scheduler is an instance of `MBController`, whose ring also takes
other writes; a request without an answer may have been carried out or not.

**Panel.** `SysTick` is `bsp_RunPer1ms` and, every `PmPeriod` ticks,
`bsp_RunPer10ms`. Each tick closes any set of contacts, bounces included, and may
use the knob or the matrix keyboard, which only the power manager notices; whether
USB power is there is chosen anew every 10 ms. The main loop is split where the
interrupt makes a difference (`pc`): the tick it works with, the scan, the
events, and `pm_handler` with its two looks at `pm_req`. The first look and the
second have a call into another module between them, so both read memory.
`pm_suspend` is a state, `asleep`, that looks at the keys in every step. Elsewhere
the main loop may take any number of ticks over a step (a line that times out, a
redraw), and `lag` counts them; between two steps that follow at once there is at
most one tick (`Prompt`, `stepped`). `pm_suspend_request` sets `pm_req` to 1;
nothing calls `pm_shutdown_request`, so 2 does not occur. Times are ages instead of ticks, capped where no comparison sees a
difference, so the wrap of the tick after 49.7 days is not in the model. A
suspend or a shutdown that the code decides in the interrupt happens there: after
a shutdown nothing runs (`powered`), and as nothing is kept in memory that
survives it, switching the panel on again begins a new behaviour.
The mutex of the WiFi module that `pm_handler` tries is always free in the wired
build. `__WFI` at the end of a pass only waits for an interrupt: leaving it out
allows more. `found`, `quiet` and `due` are history: `quiet` counts the ticks since the
panel was operated, `due` those since it was last due to sleep and not used again. A
resume ends what was due, so a chord pressed before one sleep is no reason for the
next.

## 3. Runs

| Run | Question |
|---|---|
| `hash_cache` | Is the table well formed and every entry reachable, and does it implement the map? Six keys for three nodes: full table, wrap-around of probes and addresses, collisions. |
| `mb_controller` | Are requests served once and in order, with writes overtaking reads only, reads never lost, retries bounded, nothing given up without a run of failures, the error shown that of the last request, and do the queues drain? Rings of two, two retries, three requests, a failure counter that wraps at 5. |
| `modbus_master` | Under any bytes at any time, in any interrupt order, does every command end? |
| `modbus_master_reset` (violation) | Is an answer accepted only with a right checksum? No: a frame end that falls into `vResetMasterState` leaves `exe` and `ErrLatch` set for the next command. |
| `link` | With two writes of different values: was a write reported as done carried out, and is an accepted answer the undamaged one to its command while none is late? |
| `link_answers` | With reads: does the link keep what the scheduler relies on (refinement, with liveness)? |
| `link_late` (violation) | Is an accepted answer always that of its command? No: a late answer to a read passes as the answer to the next. |
| `poll_blocks` | Does a round read every address once, in requests that fit and read over no gap longer than the limit? Every list of up to three coils, words and dwords on nine addresses; requests of up to four addresses, gaps of up to two, and at most two requests of a kind, which some lists exceed. |
| `polling` | Is each round completed, each alarm logged once, and does what is reported and logged agree with the slave once slave and user rest? Each round needs one read more than the ring takes; three alarm values; a coil that the user sets as an item of a page and inverts on a page of the IO monitor, and that its process switches off; writes and reads are dropped, given up and overtake each other. |
| `menu` | Do history, cursor, page, edit session, momentary item, IO monitor, log and polled screen stay together under every sequence of keys and alarms? |
| `momentary` (violation) | Is a released momentary coil off once nothing is left to send? No: its write of 0 is dropped by a full ring, or given up on a bad line. |
| `panel` | With the interrupt anywhere in the main loop: does one bounce give an event, does the menu get the stream of `KeyStream`, does the panel fall asleep without a fresh reason, does a key wake it, and does an idle panel stop? |

The bounds are the constants of each `.cfg`. They are enough for the case each
run is about: more keys than nodes, more requests than slots, a counter that
wraps, a round longer than the ring, two commands that can be confused. The menu
of `menu` has three levels, a menu of two pages, an item of each type and one two
lines high; its log holds three entries on up to three pages, so that entries
fall out of it and pages change under the cursor. A history of eight places is
never full there, as in the shipped menu; `DepthAssumption` says so for the proofs.
`MBController` and `PollBlocks` stop after a bounded number of requests or
entries, so these runs and those of `Rs485Link` and `MomentaryKey` have
`CHECK_DEADLOCK FALSE`, and so has `panel`, where a panel that is off stays off;
in `menu` deadlock is checked.

In `panel` the keys are F2, F5 and F6, those of the chord. The times are cut down
and keep their order: the filter (1 tick) and the debounce time (4) are as close
as `NoEventFromOneBounce` allows (`Filter + 2 < Debounce`; 10 and 20 in the
code), a suspend comes before a shutdown (1 and 2 periods), and a period has two
ticks, so that the interrupt that withdraws a request and the one that makes it
are different.

`SleepsForAReason` says what a fresh reason to fall asleep is: nobody operated the
panel for as long as a suspend takes, or F5 was pressed with F2 held, and since then it
has neither slept nor been in use again for a whole period of 10 ms. That period is
what the interrupt needs to withdraw the request. Nothing is said of
when the panel goes off, because there the code does two things that are not what the
documents say. The model has both, and neither passes for a reason to sleep:

- `pm_handler` reads `pm_req` twice (`drv_pm.c:400` and `:408`). When a key is pressed
  just before the panel would fall asleep, the interrupt sets it back to 0 in between,
  and the `default` of the switch turns the panel off instead of keeping it awake.
- Without USB power the interrupt switches a sleeping panel off after 15 minutes in the
  wired build too (`drv_pm.c:243`). The design documents list this for the WiFi version
  only (`应用层开发设计文档.md:137-147`, `手持屏控制器综合逻辑架构文档.md:8-9`), and of the
  wired one that it sleeps and wakes up. `KeyWakes` and `IdleEnds` therefore speak of a
  panel that is asleep or off.

That the failure counter is not reset when a request is given up shows in two
places: `AttemptsBounded` allows one attempt more than the limit suggests, because
the counter goes on to its wrap, and `GivenUpAfterFailures` counts the failures of
several requests together: after one request was given up, the next is given up at
its first failure.

The check compares the cache with what it reported last (`poll_manager.c:195`), not with
what is drawn: a value that comes and goes between two checks, with a redraw in
between, stays on the screen. The slave may make such values, and so does the panel: the
value the user sets is in the cache at once, and a read that was asked for before the
write, or comes in place of a write that was dropped or given up, brings the old value
back. Where that happens before the next check, nothing asks for a redraw, and the
screen keeps the value the user set although the slave has the old one. `Polling` has
both writers of the cache, and what `ReportsFollowDevice` says of the values reported
holds with any writes; what is drawn is not in it, and no property claims that the
screen shows the cache.

Two more comments do not say what the code does, and have no run: the resident
addresses are not freed of duplicates (`poll_manager.c:163`), which costs one
repeated register on the page of the log; and an even `MAX_READ_LENGTH`
(`user_poll.h:16`) does not keep a dword in one request when it starts at an odd
offset of a long block.

### Fairness

`MBController`: the main loop runs for ever and the master does not stay busy
for ever with one command (weak fairness of the three steps); `Rs485Link` shows
this of the real master. `ModbusMaster`, `Rs485Link`: the timer fires while it
runs (weak), and the main loop gets its turns between interrupts, which are
short (strong fairness in `ModbusMaster`, where bytes may come without end; weak
in `Rs485Link`, where the slave sends a bounded number of them). Nothing is assumed
of the slave. `Polling`: the periodic tasks run for ever, and a read made again
and again is answered at some time (strong); without it nothing could follow the
slave. The scheduler takes the next request and ends it, one way or the other (weak);
writes may all be given up. `Panel`: the tick comes, and the main loop runs (weak fairness of each);
nothing is assumed of who uses the panel. `Menu` and `MomentaryKey` state safety
only.

## 4. Proofs

`HashCache_proofs` proves, for every table size, address space and set of
values:

- `TypeCorrect`: the type invariant.
- `EntriesReachable`: on the probe path of every entry there is no free node and
  no other node with its key.
- `Refinement`: `HashCache` implements `AddressTable`.

The argument: `Reachable` is inductive together with the type invariant, because
a node is only ever filled at the first free place of a probe path. From it
follows that a key has at most one node and that `Find` returns it (lemmas on
`Find`), so writing one key changes the observed map at that key only; and if a
probe ends without a free node, all nodes are taken by different keys, so the map
has `Capacity` entries (an injection from slots to keys).

`MBController_proofs` proves, for every queue size, retry limit, counter width,
address space, set of requests and behaviour of the master:

- `TypeCorrect`: the type invariant; no queue ever fills its ring.
- `InOrder`, `ReadsKept`: `ServedInOrder` (a request is overtaken by a younger one only
  if it is a read and the younger one a write, so no read is begun before an older
  write), and that no accepted read is lost.
- `BoundedAttempts`: `AttemptsBounded`, also across the wrap of `timeoutcnt`.
- `GivenUpForAReason`: `GivenUpAfterFailures`.
- `ErrorIsLast`: `ErrorShown`.

The argument: the inductive invariant `IInv` adds to the types that each queue
holds requests of its kind only (`RightQueue`; without it a read taken from the
wrong queue would break the order), and how `timeoutcnt` bounds the attempts of
the request in progress (`FailuresCounted`: `attempts <= timeoutcnt + 1`, so the
bound is one higher than the limit when the counter wraps first). Under it,
`ServedInOrder` and `AcceptedReadsKept` are inductive themselves: a request joins
its queue as the youngest of all, leaves it at the front, and ends as the last of
those that are over; lemmas on appending and leaving carry this over sequences.
`GivenUpAfterFailures` needs that `timeoutcnt` never exceeds the failed answers of
some run of requests without a success that ends now (`FailuresOfRun`; a give-up
adds its attempts to the run, a refusal one less, a success begins a new run, and
a wrap only makes the counter smaller). The property adds up with the library's
`SumFunctionOnSet`, a recursion that takes the elements in no fixed order. Lemmas
say what is needed of it: a measure that grows by f[x] with each x exists
(`MeasureExists`) and is what the recursion computes (`SumIsMeasure`, by a smallest
set on which the two would differ), so one more position adds its number and
nothing else (`SumGrows`, `SumSame`).

`ModbusMaster_proofs` proves, for every timeout, set of commands and set of frames,
and for bytes that come at any time:

- `TypeCorrect`: the type invariant; `timeoutCnt` goes at most one beyond the
  timeout.
- `WaysToEnd`: `NeverStuck`.

The argument: `NeverStuck` needs that the timer runs while its interrupt counts a
tick (`InterruptOK`), or a tick could leave it stopped with `exe` clear. The bound
of `timeoutCnt` needs more (`TicksBounded`): a timeout may come after
`vResetMasterState` and before the next command, so one more tick is counted
after that command; then the timer can only run because of a byte, and ends a
frame instead of counting.

`Rs485Link_proofs` proves, for every queue, timeout and set of commands, any number
of answers on their way, and whatever the line and the slave do:

- `DoneSinglesWereExecuted`, `AcceptsOnlyMatches`: `DoneSinglesExecuted` and
  `MatchesUnlessLate`.
- `ControllerRefined`: every step of the link is a step of the scheduler or leaves
  its variables alone, which is `ImplementsController` without its liveness.
- `MasterRefined`: every step of the link is a step of the master or a stutter; the
  link never hands it a command in the middle of a reset, or one it is not specified
  for.
- `LinkServesInOrder`, `LinkGivesUp`, `LinkNeverStuck`: what was proved of the
  scheduler over any master, and of the master under any bytes, holds of the two
  together.

The argument: the inductive invariant `LInv` has, beside the types, that every
request in the scheduler was asked for (`Asked`); that the master is busy only with
the command of the request in progress (`Coupled`); that an answer on the line, being
received or latched which looks like an echo belongs to a command that was carried
out (`EchoesShow`, `ReportedSingles`: two equal single writes show each other, which is
why the property speaks of what was written and not of which request wrote it); and
that the answers that are not overdue are those of the command sent last (`Overdue`),
so an answer accepted in time is its own. The refinement needs only that what the
master reports is among the `Answers` of the scheduler (`ReportOK`). The three
assumptions of the module are those of its parts (`PartsAssumption`), that a single
write has one word (`SingleAssumption`, true of every caller of `WriteValue`), and that
`Answers` holds whatever the master may report (`ReportAssumption`).

`PollBlocks_proofs` proves, for every address space, gap, length and limit and every
list of addresses:

- `RequestsAlwaysFit`: `RequestsFit`.
- `AddressesReadOnce`: `EachAddressOnce`. No address is read twice, for any list; every
  wanted address is read if the list is `WithinLimit`: its blocks need no more requests
  than a round may have.

The argument follows the five loops. A loop has a result (`LoopExists`), and what
its body keeps holds of the result; this induction is stated over sets of positions
(`UpTo`), which needs no operator as a parameter. Inserting keeps a list sorted and
adds one element (`SortRight`); merging gives disjoint blocks in order that hold all
addresses, and of every address inside them there is a wanted one on either side, a
gap apart at most (`Merged`); splitting a block gives pieces that are disjoint, fit and
cover it (`PiecesFit`, `Split`), all of them kept as long as what the blocks need
(`NeededRight`, `CountStates`) is within the limit (`SplitCountRight`, `Complete`). The
blocks being disjoint, at most one request reads an address (`AtMostOneReads`), and
within the limit one does (`OneReads`).

`WithinLimit` is about the blocks after merging, not about the number of entries: the
largest page of the shipped menu has 29 entries, a page of the IO monitor 31 coils, and
each, with the alarm register, needs at most six of the 30 requests. Beyond the limit
the code keeps what there is room for and one request more per block, as the model does.
The C arrays end at 30 requests and 20 blocks; what a page with more would overwrite is
undefined and not in the model, and no shipped page comes near.

`Panel_proofs` proves, for every set of function keys and every choice of filter,
debounce, long press, repeat, suspend, shutdown and chord times:

- `TypeCorrect`: the type invariant.
- `StreamImplemented`: `Panel` implements `KeyStream`.
- `SleepsOnlyForAReason`: `SleepsForAReason`.
- `OneBounceIsSilent`: `NoEventFromOneBounce`.

Three inductive invariants carry them. `Typing` adds to the types that at most one
key is active (`OneActive`) and that the queue is empty outside the step that
takes the events (`EventsTaken`): with both, a scan pushes at most one event into
an empty queue, which is the only reason why no event is refused, and gives the
steps of `KeyStream`. `Power` says what the power manager remembers of the time the panel
was last operated: `dont_sleep` of the current period (`Remembered`), `idle` of
whole periods, as a bound on the quiet ticks (`IdleSince`), and that a request
stands for a quiet time or the chord, at most until the end of the period in which
the panel is used again (`RequestMeant`). `Bounce` bounds the age of a key that was
found down only once by the time the driver may report it without looking again
(`Unconfirmed`, with `Bound`), and that bound is below the debounce time; it is
here that `Filter + 2 < Debounce` is needed.

`Menu_proofs` proves all that the run `menu` checks, for every tree of menus whose
levels fit into the history, all heights of items and log entries, every set of
registers, and any number of inputs, outputs, log entries and edit steps:

- `TypeCorrect`: the type invariant; the history never overflows.
- `WayBack`, `CursorOnItsPage`, `PolledIsShown`: `HistoryIsPath`, `CursorShown`,
  `ScreenPolled`.
- `LogIsOfAlarm`, `CursorOnEntry`: `LogMatchesAlarm`, `AlarmRowShown`.
- `EditedIsOnScreen`, `SoundlyWritten`: `EditedIsShown`, `WritesAreSound`.
- `MomentaryReleased`, `ChangesAreDrawn`: `MomentaryPaired`, `RedrawAfterChange`.

The argument: every step is one of nine kinds of move through the menus (`Move`),
and each keeps `Nav`, which adds to the three properties of the way that the k-th
menu of the history is on level k or deeper (`NotTooDeep`; the levels are a witness
of `DepthAssumption`). Without it `push_history_snapshot` could overwrite its last
place, and the history would not be a path. `EditOK` says that the pending
value stays in the range of the item if the edit began in it (`EditInRange`),
`MonitorOK` that the selected point exists, which needs that no page of the
monitor is empty (`Ceiling`, on the rounded-up division that counts pages). The
pages of the log are counted by the rows they start at; `NoPageSkipped` shows that
every page counted has a row, by the least row that reaches a number. For
`MomentaryPaired` the invariant `Held` says which key an event is of
(`EventOfKey`): while a momentary item is held, the only events are of ENTER held
for long, and they say nothing to any view (`HeldIsQuiet`).

`Polling_proofs` proves, for all pages, queues and limits:

- `OnceInTheLog`: `LoggedOnce`. While the alarm register has not changed since an
  alarm was logged, the alarm in the cache is none or the one reported last
  (`KnownAlarm`).
- `TypeCorrect`, `RoundsAreComplete`: the type invariant and `RoundsComplete`. The
  inductive invariant `PollInv` says that what was queued in the round is the first
  part of the requests the round was made of, and the rest is still to come
  (`RoundOK`), that the queue holds reads of rounds only and keeps one slot free
  (`QueueOK`), that what waits to be written and what is on the line are writes the
  user can make or such reads (`LineOK`), and that one value is kept for each entry of the page on the screen (`PageOK`). That the
  requests are well formed comes from `RequestsAlwaysFit`, instantiated.

The proofs rest on the assumptions on the constants in the modules they are about
and on nothing else. The number of requests is bounded in the specification by
`MaxRequests`, which the proofs take as any natural number.

Only model-checked is liveness, with fairness and ENABLED outside the prover:
`QueuesDrain`, `CommandsEnd`, the liveness in `ImplementsController`,
`ReportsFollowDevice`, `AlarmFollowsDevice`, `KeyWakes` and `IdleEnds`. Every invariant
and action property that a passing run checks has a theorem.

## 5. Not modelled

- The slave mode and the TCP branches of `bsp_gd32f303xx_modbus.c`, Modbus TCP,
  the WiFi module, the byte FIFO they share and the state machine helper: the
  wired build, which this project is about, does not call them.
- The battery branch of `pm_power_saver` and the charging page of `pm_power_on`: only
  with `WIFI_H02W`. `bg_process` (`bll_bgp.c`) has no caller.
- The matrix keyboard and the knob beyond their being in use: no other part of
  the program reads them.
- Drawing, fonts, texts and the menu tables: output and data.
- Board drivers, USB and the libraries of the chip vendor (two thirds of the
  repository, `src/Drivers`): register access and third-party code. The share of
  the lines the models cover stays small because of them.
- The wrap of the millisecond tick, and with it the comparison at
  `key_control.c:235-237` that does not survive it.

## 6. Plan

Done: register cache, scheduler, RTU master, link, poll requests, polling, menu
with editing, IO monitor, alarm log and momentary keys, keypad and power.

Left, in this order:

1. Proofs: `MomentaryKey` keeps the order of its writes, so a coil that stays on is
   always one whose 0 was dropped or given up.
2. `Fifo` and `ModbusTcp`, should the WiFi variant be built again: a ring shared
   with an interrupt, and windows of four requests.
