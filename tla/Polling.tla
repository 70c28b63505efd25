------------------------------ MODULE Polling -------------------------------
(***************************************************************************)
(* How the panel keeps what it shows up to date. PollManager knows which    *)
(* addresses the page on the screen needs, and the alarm register that is   *)
(* polled whatever page is shown. Every 100 ms add_menu_polltask makes read *)
(* requests of them, round after round; every 50 ms                         *)
(* PollManager_CheckAndUpdateValues compares the cache with what it         *)
(* reported last, logs an alarm and opens the page of the alarm log. The    *)
(* user may go to another page at any time, and set what a page shows: the  *)
(* panel writes it to the slave, and to its own cache before the slave has  *)
(* it. Drawing the page is left to Menu.                                    *)
(*                                                                          *)
(* The scheduler and the line (MBController, Rs485Link) appear as two       *)
(* bounded queues, of reads and of writes, that are served in order, writes *)
(* first, each request answered or given up. An answer is that to the       *)
(* request in progress: late answers are left to Rs485Link. Of the alarm    *)
(* log only the newest entry is kept.                                       *)
(***************************************************************************)
EXTENDS PollBlocks

CONSTANTS
  QueueSlots,      (* MAX_NORMAL_QUEUE_SIZE = MAX_PRIORITY_QUEUE_SIZE = 8    *)
  MaxAddrList,     (* MAX_ADDR_LIST_SIZE: 64                                 *)
  Pages,           (* the entries each page of the menu shows                *)
  AlarmPage,       (* the page of the alarm log, not one of Pages            *)
  Alarm,           (* the entry of the alarm register                        *)
  Items,           (* the entries of each page that the user may set         *)
  Monitors,        (* the pages of the IO monitor                            *)
  UserWords,       (* the words the user writes                              *)
  DeviceValues,    (* what the registers and coils of the slave hold at first *)
  SlaveChanges     (* what its process makes of them: a key and a value      *)

PageIds == DOMAIN Pages \cup {AlarmPage}
PageEntries(p) == IF p = AlarmPage THEN <<Alarm>> ELSE Pages[p]

(* No page of the menu shows the alarm register or an entry twice, or has as *)
(* many addresses as the list.                                               *)
ASSUME PagesAssumption ==
  /\ MaxAddrList \in Nat /\ AlarmPage \notin DOMAIN Pages
  /\ Alarm \in Entry /\ Alarm.type = "WORD"
  /\ \A p \in DOMAIN Pages :
       /\ Pages[p] \in Seq(Entry) /\ Len(Pages[p]) < MaxAddrList
       /\ \A i, j \in DOMAIN Pages[p] : i # j => Pages[p][i] # Pages[p][j]
       /\ \A i \in DOMAIN Pages[p] : Pages[p][i].addr # Alarm.addr

ASSUME QueueAssumption == QueueSlots \in Nat /\ QueueSlots >= 2

ASSUME ItemsAssumption ==
  /\ Monitors \subseteq DOMAIN Pages
  /\ \A p \in DOMAIN Pages : Items[p] \subseteq ToSet(Pages[p])

ASSUME DeviceAssumption ==
  \A d, e \in DeviceValues : DOMAIN d = DOMAIN e

VARIABLES
  device,      (* registers and coils of the slave                          *)
  cache,       (* the register cache (HashCache)                            *)
  queue,       (* the reads that wait for the line                          *)
  writes,      (* the writes that wait for it                               *)
  current_req, (* the request in progress                                   *)
  page,        (* the page on the screen                                    *)
  screenLast,  (* activeScreenAddrs: the value reported last for each entry *)
  alwaysLast,  (* alwaysLastValues                                          *)
  req_state,   (* req_state of add_menu_polltask                            *)
  requests,    (* the requests of this round                                *)
  new_req,     (* how many of them are queued                               *)
  alarm_log_last_value,
  logged,      (* the newest entry of the alarm log, 0 if there is none     *)
  round,       (* history: the page this round was made for                 *)
  asked,       (* history: the requests of this round that are queued       *)
  moved,       (* history: did the alarm register change since it was logged *)
  repeated     (* history: was an alarm logged that had not changed          *)

reporting == <<screenLast, alwaysLast, alarm_log_last_value, logged>>
creating  == <<req_state, requests, new_req>>
line      == <<queue, writes, current_req>>
history   == <<round, asked, moved, repeated>>
vars == <<device, cache, line, page, reporting, creating, history>>

KeysOf(e) == LET regs == RegistersOf(e)
             IN [i \in 1 .. Len(regs) |->
                   <<IF e.type = "BIT" THEN "READ_COILS" ELSE "READ_HOLDING_REGISTERS", regs[i]>>]
(* The value of an entry, in the memory m: one word, or the two of a dword.  *)
ValueIn(m, e) == LET keys == KeysOf(e) IN [i \in 1 .. Len(keys) |-> m[keys[i]]]
ValuesIn(m, entries) == [i \in 1 .. Len(entries) |-> ValueIn(m, entries[i])]

(* 0xFFFFFFFF, no value of a word; that a dword may hold it is left out.     *)
NotReported == << >>
Unreported(entries) == [i \in 1 .. Len(entries) |-> NotReported]

Keys == DOMAIN (CHOOSE d \in DeviceValues : TRUE)

(* The cache has a place for the alarm register. *)
ASSUME AlarmRegisterAssumption == ToSet(KeysOf(Alarm)) \subseteq Keys

ScreenEntries == PageEntries(page)

(* No request is in progress. *)
None == [op |-> "NONE"]

(* Every store into the cache is noted, should it change the alarm register. *)
Store(words) ==
  /\ cache' = [k \in Keys |-> IF k \in DOMAIN words THEN words[k] ELSE cache[k]]
  /\ moved' = (moved \/ ValueIn(cache', Alarm) # ValueIn(cache, Alarm))
-----------------------------------------------------------------------------
(* The menu registers the addresses of a page when it goes there.            *)
Register(p) == screenLast' = Unreported(PageEntries(p))

Init ==
  /\ device \in DeviceValues
  /\ cache = [k \in Keys |-> 0]
  /\ queue = << >> /\ writes = << >> /\ current_req = None
  /\ page \in DOMAIN Pages
  /\ screenLast = Unreported(Pages[page])
  /\ alwaysLast = NotReported
  /\ req_state = "IDLE" /\ requests = << >> /\ new_req = 0
  /\ alarm_log_last_value = 0 /\ logged = 0
  /\ round = page /\ asked = << >> /\ moved = FALSE /\ repeated = FALSE

OpenPage(p) ==
  /\ page' = p
  /\ Register(p)
  /\ UNCHANGED <<device, cache, line, creating, alwaysLast, alarm_log_last_value, logged, history>>
-----------------------------------------------------------------------------
(* PollManager_GetPollingAddresses: what the page needs and the alarm.       *)
PollingAddressesOfPage(p) == PageEntries(p)
PollingAddresses(p) ==
  SubSeq(PageEntries(p) \o <<Alarm>>, 1,
         IF Len(PageEntries(p)) < MaxAddrList THEN Len(PageEntries(p)) + 1 ELSE MaxAddrList)

RequestsFor == [p \in PageIds |-> GenerateRequests(PollingAddresses(p))]

(* add_menu_polltask, REQ_IDLE *)
StartRound ==
  /\ req_state = "IDLE"
  /\ requests' = RequestsFor[page]
  /\ req_state' = "CREATE"
  /\ round' = page
  /\ asked' = << >>
  /\ UNCHANGED <<device, cache, line, page, reporting, new_req, moved, repeated>>

(* REQ_CREATE: queue what the queue takes; MBController_Request refuses a    *)
(* read when its ring is full, and the round goes on at the next call.       *)
RoomOneMore == QueueSlots - Len(queue)
Room == QueueSlots - 1 - Len(queue)

AdvanceDropsRefused(n, left) == new_req' = 0 /\ requests' = << >> /\ req_state' = "IDLE"

AdvanceKeepsIndex(n, left) ==
  /\ new_req' = new_req + n
  /\ IF n = left THEN requests' = << >> /\ req_state' = "IDLE"
     ELSE UNCHANGED <<requests, req_state>>

Advance(n, left) ==
  IF n = left THEN new_req' = 0 /\ requests' = << >> /\ req_state' = "IDLE"
  ELSE new_req' = new_req + n /\ UNCHANGED <<requests, req_state>>

CreateRequests ==
  LET rest == SubSeq(requests, new_req + 1, Len(requests))
      n == IF Len(rest) <= Room THEN Len(rest) ELSE Room
  IN /\ req_state = "CREATE"
     /\ queue' = queue \o SubSeq(rest, 1, n)
     /\ asked' = asked \o SubSeq(rest, 1, n)
     /\ Advance(n, Len(rest))
     /\ UNCHANGED <<device, cache, writes, current_req, page, reporting, round, moved, repeated>>
-----------------------------------------------------------------------------
(* The user sets an entry of a page. The write waits for the line, unless    *)
(* its ring is full: then it is dropped, which nobody notices.               *)
ValuesOf(e) ==
  IF e.type = "BIT" THEN [1 .. 1 -> {0, 1}] ELSE [1 .. Len(KeysOf(e)) -> UserWords]

WordsOf(e, v) ==
  [k \in ToSet(KeysOf(e)) |-> v[CHOOSE i \in 1 .. Len(KeysOf(e)) : KeysOf(e)[i] = k]]

WriteOf(e, v) == [op |-> "WRITE", words |-> WordsOf(e, v)]

WriteValue(e, v) ==
  /\ writes' = IF Len(writes) < QueueSlots - 1 THEN Append(writes, WriteOf(e, v)) ELSE writes
  /\ UNCHANGED <<device, queue, current_req, page, reporting, creating, round, asked, repeated>>

(* An item of the menu: an edit is confirmed, a momentary key pressed or     *)
(* released. It is released wherever the user has gone meanwhile.            *)
SetItem ==
  \E p \in DOMAIN Pages \ Monitors : \E e \in Items[p] : \E v \in ValuesOf(e) :
    /\ p = page \/ (e.type = "BIT" /\ v[1] = 0)
    /\ WriteValue(e, v)
    /\ Store(WordsOf(e, v))

(* An output of the IO monitor is switched over; the cache has to wait. *)
SwitchOutput ==
  /\ page \in Monitors
  /\ \E e \in Items[page] :
       /\ e.type = "BIT"
       /\ WriteValue(e, IF ValueIn(cache, e)[1] = 0 THEN <<1>> ELSE <<0>>)
  /\ UNCHANGED <<cache, moved>>
-----------------------------------------------------------------------------
(* The scheduler begins with the oldest write, or else the oldest read.      *)
Take ==
  /\ current_req = None
  /\ \/ /\ writes # << >>
        /\ current_req' = Head(writes) /\ writes' = Tail(writes)
        /\ UNCHANGED queue
     \/ /\ writes = << >> /\ queue # << >>
        /\ current_req' = Head(queue) /\ queue' = Tail(queue)
        /\ UNCHANGED writes
  /\ UNCHANGED <<device, cache, page, reporting, creating, history>>

(* The coils and registers of a request, and what the slave makes of it. *)
TouchedBy(r) == IF r.op = "WRITE" THEN DOMAIN r.words ELSE ReadBy(r)
CarriedOut(r) ==
  [k \in Keys |-> IF r.op = "WRITE" /\ k \in DOMAIN r.words THEN r.words[k] ELSE device[k]]

(* It is done with it: answered, and the cache has what was read or written; *)
(* or given up, whether the slave has carried it out or not.                 *)
Answered ==
  /\ current_req # None
  /\ current_req' = None
  /\ device' = CarriedOut(current_req)
  /\ Store([k \in TouchedBy(current_req) \cap Keys |-> device'[k]])
  /\ UNCHANGED <<queue, writes, page, reporting, creating, round, asked, repeated>>

GivenUp ==
  /\ current_req # None
  /\ current_req' = None
  /\ device' \in {device, CarriedOut(current_req)}
  /\ UNCHANGED <<cache, queue, writes, page, reporting, creating, history>>

(* The process the slave controls goes on. *)
DeviceChanges ==
  /\ \E change \in SlaveChanges : device' = [device EXCEPT ![change[1]] = change[2]]
  /\ UNCHANGED <<cache, line, page, reporting, creating, history>>
-----------------------------------------------------------------------------
(* menu_handle_data_updates: an alarm that is new, or differs from the one   *)
(* before, is logged and opens the page of the log.                          *)
IsNewAlarmIgnoringLast(v) == v # 0
IsNewAlarm(v) == v # 0 /\ (alarm_log_last_value = 0 \/ v # alarm_log_last_value)

HandleAlarm(v) ==
  /\ alarm_log_last_value' = v
  /\ IF IsNewAlarm(v)
     THEN /\ logged' = v /\ page' = AlarmPage /\ Register(AlarmPage)
          /\ moved' = FALSE /\ repeated' = (repeated \/ ~moved)
     ELSE UNCHANGED <<logged, page, moved, repeated>>
          /\ screenLast' = ValuesIn(cache, ScreenEntries)

(* PollManager_CheckAndUpdateValues and what menu_rs485_runtime_process does *)
(* with the changes. The alarm register may be reported twice, for the page  *)
(* of the log and for itself; both reports carry the same value.             *)
Changed == {i \in 1 .. Len(ScreenEntries) : ValueIn(cache, ScreenEntries[i]) # screenLast[i]}
AlarmChanged ==
  \/ ValueIn(cache, Alarm) # alwaysLast
  \/ \E i \in Changed : ScreenEntries[i].addr = Alarm.addr

CheckAndUpdateValues ==
  /\ alwaysLast' = ValueIn(cache, Alarm)
  /\ IF AlarmChanged THEN HandleAlarm(ValueIn(cache, Alarm)[1])
     ELSE /\ screenLast' = ValuesIn(cache, ScreenEntries)
          /\ UNCHANGED <<alarm_log_last_value, logged, page, moved, repeated>>
  /\ UNCHANGED <<device, cache, line, creating, round, asked>>

Next ==
  \/ \E p \in PageIds : OpenPage(p)
  \/ SetItem \/ SwitchOutput
  \/ StartRound \/ CreateRequests
  \/ Take \/ Answered \/ GivenUp \/ DeviceChanges
  \/ CheckAndUpdateValues

(* The main loop runs all of this for ever, the line is not kept busy for    *)
(* ever, and a read that is made again and again is answered at some time.   *)
AnsweredRead(r) == current_req = r /\ Answered

Reads == UNION {ToSet(RequestsFor[p]) : p \in PageIds}

Fairness ==
  /\ WF_vars(StartRound) /\ WF_vars(CreateRequests)
  /\ WF_vars(CheckAndUpdateValues)
  /\ WF_vars(Take) /\ WF_vars(Answered \/ GivenUp)
  /\ \A r \in Reads : SF_vars(AnsweredRead(r))

Spec == Init /\ [][Next]_vars /\ Fairness
-----------------------------------------------------------------------------
Writes ==
  UNION {{WriteOf(e, v) : v \in ValuesOf(e)} : e \in UNION {Items[p] : p \in DOMAIN Pages}}

TypeOK ==
  /\ DOMAIN device = Keys /\ DOMAIN cache = Keys
  /\ Len(queue) < QueueSlots /\ ToSet(queue) \subseteq Reads
  /\ Len(writes) < QueueSlots /\ ToSet(writes) \subseteq Writes
  /\ current_req \in Reads \cup Writes \cup {None}
  /\ page \in PageIds
  /\ Len(screenLast) = Len(ScreenEntries)
  /\ req_state \in {"IDLE", "CREATE"}
  /\ new_req \in 0 .. Len(requests)

(* However often the queue refuses a read and whatever pages are opened      *)
(* meanwhile, a round ends only when exactly the requests it was made of     *)
(* have been queued, each once and in order.                                 *)
RoundsComplete ==
  [][req_state = "CREATE" /\ req_state' = "IDLE" => asked' = RequestsFor[round]]_vars

(* An alarm is logged once: not again when the page of the log is registered *)
(* and reports it anew, when it is polled for two reasons at once, or when   *)
(* pages are changed while it stands.                                        *)
LoggedOnce == ~repeated

(* Once the slave and the user leave things as they are, what was reported is *)
(* what the slave holds, and the alarm log knows the alarm: whatever rounds,  *)
(* refused reads, given up reads and pages came before, and whatever writes   *)
(* were dropped or given up after the panel had stored them as done.          *)
Navigate == \E p \in PageIds : OpenPage(p)
Settled == <>[][UNCHANGED device /\ ~Navigate /\ ~SetItem /\ ~SwitchOutput]_vars

ReportsFollowDevice == Settled => <>[](screenLast = ValuesIn(device, ScreenEntries))

AlarmFollowsDevice ==
  Settled => <>[](/\ alarm_log_last_value = ValueIn(device, Alarm)[1]
                  /\ alarm_log_last_value # 0 => logged = alarm_log_last_value)
=============================================================================
