-------------------------------- MODULE Menu ---------------------------------
(***************************************************************************)
(* The menu: the user goes through pages of items with six keys, edits      *)
(* values, holds momentary keys down, switches outputs in the IO monitor    *)
(* and reads the alarm log. An alarm that comes from the device opens the   *)
(* page of the log over whatever the user is doing.                         *)
(*                                                                          *)
(* A pass of key_menu_loop scans the keys, updates the momentary item and   *)
(* then handles the event of the scan; reports of the device                *)
(* (menu_rs485_runtime_process) and redraws (menu_handle_timer) come        *)
(* between passes. What a read of the register cache gives is any value the *)
(* register may hold (the cache is HashCache, how it is filled is Polling). *)
(* A write is a request to the scheduler; WriteValue reports success for    *)
(* every width that items have, so the path where it fails is left out.     *)
(***************************************************************************)
EXTENDS Naturals, FiniteSets, SequencesExt

CONSTANTS
  Children,      (* the items of each menu, in their order                   *)
  Kind,          (* the type of each item                                    *)
  Target,        (* target_menu_id of each submenu item                      *)
  Root,          (* menu_items[0].id                                         *)
  AlarmMenu,     (* alarm_log_config.menu_id; it has no items                *)
  NoItem,        (* id of no item                                            *)
  Height,        (* the height of each item on the screen, in pixels         *)
  Area,          (* menu_area_height: 88                                     *)
  HistorySlots,  (* 8                                                        *)
  Low, High,     (* min_value, max_value of each value item                  *)
  Options,       (* option_count of each list item                           *)
  Steps,         (* value_edit_steps: <<1, 10, 100, 1000, 10000>>            *)
  Registers,     (* what a register may hold                                 *)
  Inputs, Outputs,  (* x_count and y_count of the IO monitor                 *)
  PageSize,      (* IO_MONITOR_PAGE_SIZE: 16                                 *)
  Alarms,        (* the alarms of the device, not 0                          *)
  AlarmHeight,   (* the height of an entry for each                          *)
  AlarmArea,     (* menu_area_height - line_height: 72                       *)
  LogSize        (* ALARM_LOG_MAX_ENTRIES: 10                                *)

Items == DOMAIN Kind
Menus == DOMAIN Children
Momentaries == {i \in Items : Kind[i] = "momentary"}
Editable == {i \in Items : Kind[i] \in {"toggle", "value", "list"}}

ASSUME TreeAssumption ==
  /\ Root \in Menus /\ AlarmMenu \notin Menus /\ NoItem \notin Items
  /\ \A m \in Menus : /\ Children[m] \in Seq(Items) /\ Children[m] # << >>
                      /\ IsInjective(Children[m])
  /\ \A i \in Items :
       /\ Kind[i] \in {"submenu", "io_monitor", "toggle", "momentary", "value", "list", "info"}
       /\ Kind[i] = "submenu" => i \in DOMAIN Target /\ Target[i] \in Menus \cup {AlarmMenu}

ASSUME SizeAssumption ==
  /\ HistorySlots \in Nat \ {0} /\ LogSize \in Nat \ {0} /\ PageSize \in Nat \ {0}
  /\ Inputs \in Nat /\ Outputs \in Nat /\ Inputs + Outputs > 0
  /\ 0 \notin Alarms

ASSUME ValueAssumption ==
  /\ Steps \in Seq(Nat) /\ Steps # << >> /\ Registers \subseteq Nat
  /\ \A i \in Items : Kind[i] = "value" => Low[i] \in Nat /\ High[i] \in Nat
  /\ \A i \in Items : Kind[i] = "list" => Options[i] \in Nat \ {0}

(* The levels of the menus, from the main menu on, fit into the history.     *)
LevelsOf(d) ==
  \A m \in Menus, i \in Items :
    /\ i \in ToSet(Children[m]) /\ Kind[i] = "submenu" /\ Target[i] \in Menus
    => d[m] < d[Target[i]]

ASSUME DepthAssumption == \E d \in [Menus -> 0 .. HistorySlots - 1] : LevelsOf(d)

VARIABLES
  menu,         (* current_menu_id                                          *)
  item,         (* current_item_id                                          *)
  paging,       (* current_page, total_pages, page_start_index,             *)
                (* items_in_current_page                                    *)
  history,      (* history_stack, history_item_stack                        *)
  view,         (* special_view                                             *)
  edit,         (* the edit session, NoEdit when is_editing is false        *)
  io,           (* io_current_page, io_total_pages, io_selected_index,      *)
                (* io_is_editing                                            *)
  log,          (* the alarm log, the newest entry first                    *)
  logpage,      (* alarm_log_current_page, _total_pages, _page_start_index, *)
                (* _selected_row                                            *)
  alarm_last,   (* alarm_log_last_value                                     *)
  active,       (* momentary_active_item_id                                 *)
  polled,       (* activeScreenId of the poll manager                       *)
  need_redraw,
  key,          (* the key that is down, and whether it is a long press     *)
  event,        (* the event of this scan that is not handled yet           *)
  wrote,        (* the writes the last step asked for                       *)
  on            (* history: the momentary items last written 1              *)

nav  == <<menu, item, paging, history>>
logs == <<log, logpage, alarm_last>>
keys == <<key, event>>
vars == <<nav, view, edit, io, logs, active, polled, need_redraw, keys, wrote, on>>

NoEdit == [item |-> NoItem, original |-> 0, pending |-> 0, step |-> 0]
NoIO   == [page |-> 0, total |-> 0, selected |-> 0, editing |-> FALSE]
FunKeys == {"UP", "DOWN", "LEFT", "RIGHT", "ENTER", "ESC"}

(* what Panel shows of the keypad *)
Keypad == INSTANCE KeyStream

IsEditing == edit # NoEdit
-----------------------------------------------------------------------------
(* Pages. Rows fill a page until one does not fit and starts the next page;  *)
(* a row higher than the screen has a page of its own. StartOf(h, area)[i] is*)
(* the first row of the page that row i is on.                               *)
Least(a, b) == IF a < b THEN a ELSE b

StartOf(h, area) ==
  LET fill[i \in 1 .. Len(h)] ==
        IF i = 1 \/ fill[i - 1].height + h[i] > area
        THEN [start |-> i, height |-> h[i]]
        ELSE [start |-> fill[i - 1].start, height |-> fill[i - 1].height + h[i]]
  IN [i \in 1 .. Len(h) |-> fill[i].start]

PageOf(start, i) ==
  [number |-> Cardinality({start[j] : j \in 1 .. i}),
   total  |-> Cardinality({start[j] : j \in DOMAIN start}),
   start  |-> start[i],
   count  |-> Cardinality({j \in DOMAIN start : start[j] = start[i]})]

PageAt(start, n) ==
  PageOf(start, CHOOSE i \in DOMAIN start : PageOf(start, i).number = n)

MenuPages == [m \in Menus |-> StartOf([i \in DOMAIN Children[m] |-> Height[Children[m][i]]], Area)]

IndexIn == [m \in Menus |-> [i \in ToSet(Children[m]) |->
                              CHOOSE n \in DOMAIN Children[m] : Children[m][n] = i]]

(* update_page_info *)
PageInfo == [m \in Menus |-> [i \in ToSet(Children[m]) |->
                              PageOf(MenuPages[m], IndexIn[m][i])]]

Index == IndexIn[menu][item]
-----------------------------------------------------------------------------
(* push_history_snapshot overwrites the last place when the stack is full.   *)
Push == LET here == [menu |-> menu, item |-> item]
        IN IF Len(history) < HistorySlots THEN Append(history, here)
           ELSE [history EXCEPT ![HistorySlots] = here]

(* select_item_and_refresh, with update_page_info: an item that is not in    *)
(* the menu gives way to the first one.                                      *)
SelectOnPage(m, i) ==
  /\ menu' = m /\ item' = i /\ need_redraw' = TRUE
  /\ UNCHANGED paging

Select(m, i) ==
  LET shown == IF i \in ToSet(Children[m]) THEN i ELSE Children[m][1]
  IN /\ menu' = m
     /\ item' = shown
     /\ paging' = PageInfo[m][shown]
     /\ need_redraw' = TRUE

EnterMenu(m, stack) ==
  /\ Select(m, Children[m][1])
  /\ history' = stack
  /\ view' = "NONE" /\ io' = NoIO
  /\ polled' = m
  /\ UNCHANGED <<edit, log, logpage>>

(* The way back, from a menu or from the alarm log. *)
PopOnly == Select(Last(history).menu, Last(history).item) /\ history' = Front(history)
           /\ UNCHANGED polled

PopHistory ==
  /\ Select(Last(history).menu, Last(history).item)
  /\ history' = Front(history)
  /\ polled' = Last(history).menu

Ignore == UNCHANGED <<nav, view, edit, io, log, logpage, polled, need_redraw>>

(* Only the cursor moves. *)
Jump(n) ==
  /\ Select(menu, Children[menu][n])
  /\ UNCHANGED <<history, view, edit, io, log, logpage, polled>>

Cursor(n) == IF n = Index THEN Ignore ELSE Jump(n)
-----------------------------------------------------------------------------
(* Moving in a menu: up from the first row of a page to the last row of the  *)
(* page before, and so on; to another page at the same row, or its last row. *)
Above ==
  IF Index # paging.start THEN Index - 1
  ELSE IF paging.number > 1
       THEN LET p == PageAt(MenuPages[menu], paging.number - 1) IN p.start + p.count - 1
       ELSE Index

Below ==
  IF Index < paging.start + paging.count - 1 THEN Index + 1
  ELSE IF paging.number < paging.total THEN paging.start + paging.count ELSE Index

SameRowOn(n) ==
  LET p == PageAt(MenuPages[menu], n)
  IN p.start + Least(Index - paging.start, p.count - 1)

RowBefore == IF paging.number > 1 THEN SameRowOn(paging.number - 1) ELSE Index
RowAfter  == IF paging.number < paging.total THEN SameRowOn(paging.number + 1) ELSE Index

LastRow == LET p == PageAt(MenuPages[menu], paging.total) IN p.start + p.count - 1
-----------------------------------------------------------------------------
(* Editing. handle_edit_increase and handle_edit_decrease; a step is taken   *)
(* from the pending value, up to the greatest and down to the least value.   *)
UpWithout(i, v) == v
UpTo(i, v)      == Least(v, High[i])

Increased(e) ==
  CASE Kind[e.item] = "toggle" -> IF e.pending = 0 THEN 1 ELSE 0
    [] Kind[e.item] = "value"  -> UpTo(e.item, e.pending + Steps[e.step])
    [] Kind[e.item] = "list"   -> (e.pending + 1) % Options[e.item]

Decreased(e) ==
  CASE Kind[e.item] = "toggle" -> IF e.pending = 0 THEN 1 ELSE 0
    [] Kind[e.item] = "value"  -> IF e.pending < Low[e.item] + Steps[e.step] THEN Low[e.item]
                                  ELSE e.pending - Steps[e.step]
    [] Kind[e.item] = "list"   -> IF e.pending > 0 THEN e.pending - 1 ELSE Options[e.item] - 1

SessionUndrawn(e) ==
  /\ edit' = e
  /\ UNCHANGED <<nav, view, io, log, logpage, polled, need_redraw>>

Session(e) ==
  /\ edit' = e
  /\ need_redraw' = (need_redraw \/ e # edit)
  /\ UNCHANGED <<nav, view, io, log, logpage, polled>>

Increase == Session([edit EXCEPT !.pending = Increased(edit)])
Decrease == Session([edit EXCEPT !.pending = Decreased(edit)])

(* switch_value_edit_step *)
SmallerStep == Session([edit EXCEPT !.step = IF @ > 1 THEN @ - 1 ELSE @])
LargerStep  == Session([edit EXCEPT !.step = Least(@ + 1, Len(Steps))])

Write(k, i, v) == [kind |-> k, to |-> i, value |-> v]

CacheValues(i) == IF Kind[i] = "toggle" THEN {0, 1} ELSE Registers

(* Every value item has the step_value 1, so a session starts with the first *)
(* step.                                                                     *)
BeginEdit ==
  \E v \in CacheValues(item) :
    Session([item |-> item, original |-> v, pending |-> v, step |-> 1])

Confirm ==
  /\ Session(NoEdit)
  /\ wrote' = IF edit.pending = edit.original THEN << >>
              ELSE <<Write("item", edit.item, edit.pending)>>

Cancel == Session(NoEdit)
-----------------------------------------------------------------------------
(* The IO monitor: pages of inputs, then pages of outputs. *)
InputPages  == (Inputs + PageSize - 1) \div PageSize
OutputPages == (Outputs + PageSize - 1) \div PageSize

PointsOn(p) == IF p < InputPages THEN Least(Inputs - p * PageSize, PageSize)
               ELSE Least(Outputs - (p - InputPages) * PageSize, PageSize)

OnOutput == io.page >= InputPages

Monitor(r) ==
  /\ io' = r
  /\ need_redraw' = (need_redraw \/ r # io)
  /\ UNCHANGED <<nav, edit, log, logpage>>

(* io_monitor_sync_paging *)
OnPage(p, selected) == [io EXCEPT !.page = p, !.selected = Least(selected, PointsOn(p) - 1)]

ShowMonitor(v, r, screen) ==
  /\ view' = v /\ io' = r /\ polled' = screen
  /\ need_redraw' = TRUE
  /\ UNCHANGED <<nav, edit, log, logpage>>

OpenMonitor ==
  ShowMonitor("IO", [NoIO EXCEPT !.total = InputPages + OutputPages], item)

CloseMonitor == ShowMonitor("NONE", NoIO, menu)

MonitorUp ==
  IF io.selected > 0 THEN [io EXCEPT !.selected = @ - 1]
  ELSE IF io.page > 0 THEN [io EXCEPT !.page = @ - 1, !.selected = PointsOn(io.page - 1) - 1]
  ELSE io

MonitorDown ==
  IF io.selected + 1 < PointsOn(io.page) THEN [io EXCEPT !.selected = @ + 1]
  ELSE IF io.page + 1 < io.total THEN [io EXCEPT !.page = @ + 1, !.selected = 0]
  ELSE io

MonitorLeft  == IF io.page > 0 THEN OnPage(io.page - 1, io.selected) ELSE io
MonitorRight == IF io.page + 1 < io.total THEN OnPage(io.page + 1, io.selected) ELSE io

(* An output is selected by a first ENTER and inverted by a second.          *)
MonitorSelect ==
  \/ /\ ~OnOutput
     /\ Monitor(io) /\ wrote' = << >>
  \/ /\ OnOutput /\ ~io.editing
     /\ Monitor([io EXCEPT !.editing = TRUE]) /\ wrote' = << >>
  \/ /\ OnOutput /\ io.editing
     /\ Monitor([io EXCEPT !.editing = FALSE])
     /\ \E bit \in {0, 1} :
          wrote' = <<Write("output", (io.page - InputPages) * PageSize + io.selected, 1 - bit)>>
-----------------------------------------------------------------------------
(* The alarm log. Its pages change with its entries; row 0 of a page is its  *)
(* heading, and the log opens at the page and row left before.               *)
LogPages(l) == StartOf([i \in DOMAIN l |-> AlarmHeight[l[i].value]], AlarmArea)

LogPage(l, p) ==
  IF l = << >> THEN [total |-> 1, start |-> 0, count |-> 0]
  ELSE LET pg == PageAt(LogPages(l), p + 1)
       IN [total |-> pg.total, start |-> pg.start - 1, count |-> pg.count]

SyncedPage(l, p, row) ==
  LET page == Least(p, LogPage(l, 0).total - 1)
      pg   == LogPage(l, page)
  IN [page |-> page, total |-> pg.total, start |-> pg.start, row |-> row]

(* alarm_log_sync_paging *)
Synced(l, p, row) ==
  LET page == Least(p, LogPage(l, 0).total - 1)
      pg   == LogPage(l, page)
  IN [page |-> page, total |-> pg.total, start |-> pg.start, row |-> Least(row, pg.count)]

RowsOn(l, p) == LogPage(l, p).count

OffHeading(l, r) == IF r.row = 0 /\ RowsOn(l, r.page) > 0 THEN [r EXCEPT !.row = 1] ELSE r

Saved == IF view # "ALARM" THEN Push ELSE history

OpenAlarmLog(l, r) ==
  /\ history' = Saved
  /\ view' = "ALARM"
  /\ menu' = AlarmMenu /\ item' = AlarmMenu
  /\ edit' = NoEdit
  /\ logpage' = OffHeading(l, Synced(l, r.page, r.row))
  /\ polled' = AlarmMenu
  /\ need_redraw' = TRUE
  /\ UNCHANGED <<paging, io>>

CloseAlarmLog ==
  /\ view' = "NONE"
  /\ IF history # << >> THEN PopHistory
     ELSE polled' = menu /\ need_redraw' = TRUE /\ UNCHANGED nav
  /\ UNCHANGED <<edit, io, log, logpage>>

Row(r) ==
  /\ logpage' = r
  /\ need_redraw' = (need_redraw \/ r # logpage)
  /\ UNCHANGED <<nav, view, edit, io, log, polled>>

LogUp ==
  IF logpage.row > 0 THEN [logpage EXCEPT !.row = @ - 1]
  ELSE IF logpage.page > 0
       THEN [Synced(log, logpage.page - 1, 0) EXCEPT !.row = RowsOn(log, logpage.page - 1)]
       ELSE logpage

LogDown ==
  IF logpage.row < RowsOn(log, logpage.page) THEN [logpage EXCEPT !.row = @ + 1]
  ELSE IF logpage.page + 1 < logpage.total
       THEN [Synced(log, logpage.page + 1, 0) EXCEPT !.row = 1]
       ELSE logpage

LogLeft == IF logpage.page > 0 THEN Synced(log, logpage.page - 1, logpage.row) ELSE logpage

LogRight ==
  IF logpage.page + 1 < logpage.total
  THEN OffHeading(log, Synced(log, logpage.page + 1, logpage.row)) ELSE logpage

(* alarm_log_select: the entry under the cursor is read. *)
MarkRead ==
  LET n == logpage.start + logpage.row
  IN /\ IF logpage.row > 0 /\ n \in DOMAIN log /\ log[n].unread
        THEN log' = [log EXCEPT ![n].unread = FALSE] /\ need_redraw' = TRUE
        ELSE UNCHANGED <<log, need_redraw>>
     /\ UNCHANGED <<nav, view, edit, io, logpage, polled>>
-----------------------------------------------------------------------------
(* menu_handle_data_updates: the alarm register is reported with the value   *)
(* v. The main loop asks for a redraw after any report.                      *)
LogWithAll(v) == <<[value |-> v, unread |-> TRUE]>> \o log

LogWith(v) == SubSeq(<<[value |-> v, unread |-> TRUE]>> \o log, 1, Least(Len(log) + 1, LogSize))

AllRead == [i \in DOMAIN log |-> [log[i] EXCEPT !.unread = FALSE]]

FirstAlarm(v) == v # 0 /\ alarm_last = 0
NewAlarm(v)   == v # 0 /\ v # alarm_last

DataUpdates(v) ==
  /\ event = Keypad!NoEvent
  /\ IF NewAlarm(v)
     THEN /\ log' = LogWith(v)
          /\ OpenAlarmLog(log', [Synced(log', 0, logpage.row) EXCEPT !.row = 1])
     ELSE /\ log' = IF v = 0 /\ alarm_last # 0 THEN AllRead ELSE log
          /\ need_redraw' = TRUE
          /\ UNCHANGED <<nav, view, edit, io, logpage, polled>>
  /\ alarm_last' = v
  /\ wrote' = << >>
  /\ UNCHANGED <<active, keys, on>>

(* menu_handle_timer *)
Timer ==
  /\ event = Keypad!NoEvent
  /\ need_redraw
  /\ need_redraw' = FALSE
  /\ wrote' = << >>
  /\ UNCHANGED <<nav, view, edit, io, logs, active, polled, keys, on>>
-----------------------------------------------------------------------------
(* The first half of a pass: the keypad is scanned.                          *)
CanHold == view = "NONE" /\ ~IsEditing /\ Kind[item] = "momentary"

Written(i, v) == IF i = NoItem THEN << >> ELSE <<Write("item", i, v)>>

NoRelease(i) == << >>
Release(i) == Written(i, 0)

WrittenLast(writes, w) ==
  \E n \in DOMAIN writes : writes[n] = w /\ \A m \in DOMAIN writes : m > n => writes[m].to # w.to

WriteMomentary(writes) ==
  /\ wrote' = writes
  /\ on' = {i \in Momentaries :
              \/ WrittenLast(writes, Write("item", i, 1))
              \/ i \in on /\ ~WrittenLast(writes, Write("item", i, 0))}

(* menu_update_momentary_enter_state *)
UpdateMomentary(pressed) ==
  LET next == IF CanHold /\ pressed THEN item ELSE NoItem
  IN IF next = active THEN wrote' = << >> /\ UNCHANGED <<active, need_redraw, on>>
     ELSE /\ active' = next
          /\ WriteMomentary(Release(active) \o Written(next, 1))
          /\ need_redraw' = TRUE

EnterPressed(k) == k.key = "ENTER"

Scan ==
  /\ Keypad!Scan
  /\ UpdateMomentary(EnterPressed(key'))
  /\ UNCHANGED <<nav, view, edit, io, logs, polled>>
-----------------------------------------------------------------------------
(* The second half of a pass: the event goes to what is on the screen. Each  *)
(* operator says what one key does there.                                    *)
Is(type, k) == event.type = type /\ event.key = k
Moves(k) == Is("PRESS", k) \/ Is("REPEAT", k)

SilentKey == Ignore /\ wrote' = << >>

Silently(A) == A /\ wrote' = << >>

InMenu ==
  /\ view = "NONE" /\ ~IsEditing
  /\ \/ Moves("UP")   /\ Silently(Cursor(Above))
     \/ Moves("DOWN") /\ Silently(Cursor(Below))
     \/ Is("PRESS", "LEFT")  /\ Silently(Cursor(RowBefore))
     \/ Is("PRESS", "RIGHT") /\ Silently(Cursor(RowAfter))
     \/ Is("LONG_PRESS", "UP")   /\ Silently(Jump(1))
     \/ Is("LONG_PRESS", "DOWN") /\ Silently(Jump(LastRow))
     \/ Is("LONG_PRESS", "ESC")  /\ Silently(EnterMenu(Root, << >>))
     \/ /\ Is("PRESS", "ESC") /\ history # << >>
        /\ Silently(PopHistory) /\ UNCHANGED <<view, edit, io, log, logpage>>
     \/ Is("PRESS", "ESC") /\ history = << >> /\ SilentKey
     \/ /\ Is("PRESS", "ENTER") /\ Kind[item] = "submenu"
        /\ IF Target[item] = AlarmMenu
           THEN Silently(OpenAlarmLog(log, logpage)) /\ UNCHANGED log
           ELSE Silently(EnterMenu(Target[item], Push))
     \/ Is("PRESS", "ENTER") /\ Kind[item] = "io_monitor" /\ Silently(OpenMonitor)
     \/ Is("PRESS", "ENTER") /\ item \in Editable /\ Silently(BeginEdit)
     \/ Is("PRESS", "ENTER") /\ Kind[item] \in {"momentary", "info"} /\ SilentKey
     \/ (Is("REPEAT", event.key) \/ Is("LONG_PRESS", event.key))
          /\ event.key \in {"LEFT", "RIGHT", "ENTER"} /\ SilentKey
     \/ Is("REPEAT", "ESC") /\ SilentKey

Editing ==
  /\ view = "NONE" /\ IsEditing
  /\ \/ Moves("UP")   /\ Silently(Increase)
     \/ Moves("DOWN") /\ Silently(Decrease)
     \/ /\ Is("PRESS", "LEFT")
        /\ Silently(IF Kind[edit.item] = "value" THEN SmallerStep ELSE Decrease)
     \/ /\ Is("PRESS", "RIGHT")
        /\ Silently(IF Kind[edit.item] = "value" THEN LargerStep ELSE Increase)
     \/ Is("PRESS", "ENTER") /\ Confirm
     \/ Is("PRESS", "ESC")   /\ Silently(Cancel)
     \/ event.type = "LONG_PRESS" /\ SilentKey
     \/ event.type = "REPEAT" /\ event.key \notin {"UP", "DOWN"} /\ SilentKey

(* While an output is selected only ENTER and ESC do something.              *)
MonitorMoves(k, r) == Is("PRESS", k) /\ Monitor(r) /\ wrote' = << >> /\ UNCHANGED <<view, polled>>
MonitorMove(k, r) == Is("PRESS", k) /\ Monitor(IF io.editing THEN io ELSE r)
                     /\ wrote' = << >> /\ UNCHANGED <<view, polled>>

InMonitor ==
  /\ view = "IO"
  /\ \/ MonitorMove("UP", MonitorUp) \/ MonitorMove("DOWN", MonitorDown)
     \/ MonitorMove("LEFT", MonitorLeft) \/ MonitorMove("RIGHT", MonitorRight)
     \/ Is("PRESS", "ENTER") /\ MonitorSelect /\ UNCHANGED <<view, polled>>
     \/ /\ Is("PRESS", "ESC") /\ io.editing
        /\ Silently(Monitor([io EXCEPT !.editing = FALSE])) /\ UNCHANGED <<view, polled>>
     \/ Is("PRESS", "ESC") /\ ~io.editing /\ Silently(CloseMonitor)
     \/ event.type # "PRESS" /\ SilentKey

InAlarmLog ==
  /\ view = "ALARM"
  /\ \/ Moves("UP")   /\ Silently(Row(LogUp))
     \/ Moves("DOWN") /\ Silently(Row(LogDown))
     \/ Is("PRESS", "LEFT")  /\ Silently(Row(LogLeft))
     \/ Is("PRESS", "RIGHT") /\ Silently(Row(LogRight))
     \/ Is("PRESS", "ENTER") /\ Silently(MarkRead)
     \/ Is("PRESS", "ESC")   /\ Silently(CloseAlarmLog)
     \/ event.type = "LONG_PRESS" /\ SilentKey
     \/ event.type = "REPEAT" /\ event.key \notin {"UP", "DOWN"} /\ SilentKey

HandleEvent ==
  /\ event # Keypad!NoEvent
  /\ InMenu \/ Editing \/ InMonitor \/ InAlarmLog
  /\ event' = Keypad!NoEvent
  /\ UNCHANGED <<alarm_last, active, key, on>>
-----------------------------------------------------------------------------
(* After menu_start: the first item of the main menu. *)
Init ==
  /\ menu = Root /\ item = Children[Root][1]
  /\ paging = PageInfo[Root][Children[Root][1]]
  /\ history = << >>
  /\ view = "NONE" /\ edit = NoEdit /\ io = NoIO
  /\ log = << >> /\ logpage = [page |-> 0, total |-> 1, start |-> 0, row |-> 0]
  /\ alarm_last = 0
  /\ active = NoItem
  /\ polled = Root
  /\ need_redraw = TRUE
  /\ Keypad!Init
  /\ wrote = << >> /\ on = {}

Next ==
  \/ Scan \/ HandleEvent \/ Timer
  \/ \E v \in Alarms \cup {0} : DataUpdates(v)

Spec == Init /\ [][Next]_vars
-----------------------------------------------------------------------------
TypeOK ==
  /\ menu \in Menus \cup {AlarmMenu} /\ item \in Items \cup {AlarmMenu}
  /\ Len(history) <= HistorySlots
  /\ \A i \in DOMAIN history : history[i].menu \in Menus /\ history[i].item \in Items
  /\ view \in {"NONE", "IO", "ALARM"}
  /\ IsEditing => edit.item \in Editable /\ edit.step \in DOMAIN Steps
  /\ io.page \in Nat /\ io.selected \in 0 .. PageSize - 1 /\ io.editing \in BOOLEAN
  /\ Len(log) <= LogSize
  /\ alarm_last \in Alarms \cup {0}
  /\ active \in Momentaries \cup {NoItem} /\ on \subseteq Momentaries
  /\ need_redraw \in BOOLEAN

(* The history is the way from the main menu to what is on the screen, so    *)
(* that ESC leads back along it, item by item: also when an alarm opens the  *)
(* log over a menu, the IO monitor or another alarm.                         *)
HistoryIsPath ==
  LET MenuAt(k) == IF k <= Len(history) THEN history[k].menu ELSE menu
  IN /\ MenuAt(1) = Root
     /\ \A k \in DOMAIN history :
          /\ history[k].item \in ToSet(Children[history[k].menu])
          /\ k < Len(history) \/ view # "ALARM"
               => /\ Kind[history[k].item] = "submenu"
                  /\ Target[history[k].item] = MenuAt(k + 1)
     /\ menu = AlarmMenu <=> view = "ALARM"

(* Outside the log, the cursor is on an item of the menu, and the page on    *)
(* the screen is the one with that item.                                     *)
CursorShown ==
  view # "ALARM" => item \in ToSet(Children[menu]) /\ paging = PageInfo[menu][item]

(* The cursor of the log is on its heading or on an entry of the page shown, *)
(* whenever alarms are added, and wherever it was left.                      *)
AlarmRowShown ==
  LET shown == LogPage(log, logpage.page)
  IN /\ logpage.page < shown.total /\ logpage.row <= shown.count
     /\ logpage.total = shown.total /\ logpage.start = shown.start

(* The newest entry of the log is the alarm that stands; when none stands,   *)
(* every entry is read.                                                      *)
LogMatchesAlarm ==
  IF alarm_last # 0 THEN log # << >> /\ log[1].value = alarm_last
  ELSE \A i \in DOMAIN log : ~log[i].unread

(* What is edited is what is under the cursor: the edit session belongs to   *)
(* the item of the menu on the screen, the selected point of the monitor is  *)
(* an output that exists.                                                    *)
EditedIsShown ==
  /\ IsEditing => view = "NONE" /\ edit.item = item
  /\ view = "IO" => /\ Kind[item] = "io_monitor"
                    /\ io.selected < PointsOn(io.page) /\ io.page < io.total
                    /\ io.editing => OnOutput

(* A write of an edit session goes to the item that is edited, changes its   *)
(* value, and is in the range of the item if the value was in it when the    *)
(* session began. A write of the monitor goes to the output under the cursor.*)
RangeOf(i) == CASE Kind[i] = "value"  -> Low[i] .. High[i]
                [] Kind[i] = "list"   -> 0 .. Options[i] - 1
                [] Kind[i] = "toggle" -> {0, 1}

WriteIsSound(w) ==
  /\ w.kind = "item" /\ w.to \in Editable
       => /\ w.to = item /\ w.value # edit.original
          /\ edit.original \in RangeOf(item) => w.value \in RangeOf(item)
  /\ w.kind = "output" => view = "IO" /\ w.to \in 0 .. Outputs - 1

WritesAreSound == [][\A n \in DOMAIN wrote' : WriteIsSound(wrote'[n])]_vars

(* Every 1 written to a momentary item is followed by a 0 before the item is *)
(* forgotten: what was last written to them is 1 for the active one only. And*)
(* one is active only while ENTER holds it, under the cursor, unless an alarm*)
(* has come up since the last pass.                                          *)
MomentaryPaired ==
  /\ on = IF active = NoItem THEN {} ELSE {active}
  /\ active # NoItem =>
       /\ key.key = "ENTER"
       /\ view = "ALARM" \/ (view = "NONE" /\ ~IsEditing /\ item = active)

(* The poll manager reads the registers of what is on the screen.            *)
ScreenPolled ==
  polled = CASE view = "NONE" -> menu [] view = "ALARM" -> AlarmMenu [] view = "IO" -> item

(* Whenever something that is drawn changes, a redraw is due.                *)
Drawn == <<view, menu, item, paging, edit, io, active,
           IF view = "ALARM" THEN <<log, logpage>> ELSE << >> >>
RedrawAfterChange == [][Drawn' # Drawn => need_redraw']_vars
=============================================================================
