---------------------------- MODULE Menu_proofs -----------------------------
(***************************************************************************)
(* Proofs about the menu, for every tree of menus that fits into the       *)
(* history, every set of items and registers, and every size of the alarm  *)
(* log and of the IO monitor.                                              *)
(***************************************************************************)
EXTENDS Menu, SequenceTheorems, FiniteSetTheorems, WellFoundedInduction, TLAPS

(* What a step does to the way through the menus: most steps leave it alone, *)
(* the others are moves of one of these kinds.                               *)
MoveStay   == UNCHANGED <<nav, view, polled>>
MoveCursor == /\ view = "NONE" /\ UNCHANGED <<history, view, polled>>
              /\ \E i : Select(menu, i)
MoveHome   == /\ Select(Root, Children[Root][1])
              /\ history' = << >> /\ view' = "NONE" /\ polled' = Root
MoveInto   == /\ view = "NONE" /\ Kind[item] = "submenu" /\ Target[item] # AlarmMenu
              /\ Select(Target[item], Children[Target[item]][1])
              /\ history' = Push /\ view' = "NONE" /\ polled' = Target[item]
MoveBack   == history # << >> /\ PopHistory /\ view' = "NONE"
MoveToLog  == /\ (view = "NONE" /\ Kind[item] = "submenu" /\ Target[item] = AlarmMenu) \/ event = Keypad!NoEvent
              /\ history' = Saved /\ view' = "ALARM" /\ menu' = AlarmMenu /\ item' = AlarmMenu
              /\ polled' = AlarmMenu
MoveToIO   == /\ view = "NONE" /\ Kind[item] = "io_monitor"
              /\ view' = "IO" /\ polled' = item /\ UNCHANGED nav
MoveFromIO == view = "IO" /\ view' = "NONE" /\ polled' = menu /\ UNCHANGED nav
MoveNowhere == view = "ALARM" /\ history = << >>

Move == \/ MoveStay \/ MoveCursor \/ MoveHome \/ MoveInto \/ MoveBack
        \/ MoveToLog \/ MoveToIO \/ MoveFromIO \/ MoveNowhere

LEMMA MenuMoves == InMenu => Move
<1> SUFFICES ASSUME InMenu PROVE Move
  OBVIOUS
<1>0. view = "NONE"
  BY DEF InMenu
<1>1. ASSUME NEW n, Cursor(n) PROVE Move
  BY <1>0, <1>1 DEF Cursor, Ignore, Jump, Move, MoveStay, MoveCursor, nav
<1>2. ASSUME NEW n, Jump(n) PROVE Move
  BY <1>0, <1>2 DEF Jump, Move, MoveCursor
<1>3. ASSUME EnterMenu(Root, << >>) PROVE Move
  BY <1>3 DEF EnterMenu, Move, MoveHome
<1>4. ASSUME history # << >>, PopHistory, UNCHANGED view PROVE Move
  BY <1>0, <1>4 DEF Move, MoveBack
<1>5. ASSUME Ignore PROVE Move
  BY <1>5 DEF Ignore, Move, MoveStay
<1>6. CASE /\ Kind[item] = "submenu"
           /\ IF Target[item] = AlarmMenu
              THEN Silently(OpenAlarmLog(log, logpage)) /\ UNCHANGED log
              ELSE Silently(EnterMenu(Target[item], Push))
  BY <1>0, <1>6 DEF Silently, OpenAlarmLog, EnterMenu, Move, MoveToLog, MoveInto
<1>7. ASSUME Kind[item] = "io_monitor", OpenMonitor PROVE Move
  BY <1>0, <1>7 DEF OpenMonitor, ShowMonitor, Move, MoveToIO
<1>8. ASSUME BeginEdit PROVE Move
  BY <1>8 DEF BeginEdit, Session, Move, MoveStay
<1> QED
  BY <1>1, <1>2, <1>3, <1>4, <1>5, <1>6, <1>7, <1>8 DEF InMenu, Silently, SilentKey

LEMMA EditingMoves == Editing => Move
<1> SUFFICES ASSUME Editing PROVE UNCHANGED <<nav, view, polled>>
  BY DEF Move, MoveStay
<1>1. ASSUME NEW e, Session(e) PROVE UNCHANGED <<nav, view, polled>>
  BY <1>1 DEF Session
<1>2. ASSUME Ignore PROVE UNCHANGED <<nav, view, polled>>
  BY <1>2 DEF Ignore
<1> QED
  BY <1>1, <1>2 DEF Editing, Silently, SilentKey, Increase, Decrease, SmallerStep, LargerStep,
     Confirm, Cancel

LEMMA MonitorMovesOnly == InMonitor => Move
<1> SUFFICES ASSUME InMonitor PROVE MoveStay \/ MoveFromIO
  BY DEF Move
<1>1. ASSUME NEW r, Monitor(r), UNCHANGED <<view, polled>> PROVE MoveStay
  BY <1>1 DEF Monitor, MoveStay
<1>2. ASSUME Ignore PROVE MoveStay
  BY <1>2 DEF Ignore, MoveStay
<1>3. ASSUME CloseMonitor, view = "IO" PROVE MoveFromIO
  BY <1>3 DEF CloseMonitor, ShowMonitor, MoveFromIO
<1>4. ASSUME MonitorSelect, UNCHANGED <<view, polled>> PROVE MoveStay
  BY <1>1, <1>4 DEF MonitorSelect
<1>5. ASSUME NEW k, NEW r, MonitorMove(k, r) PROVE MoveStay
  BY <1>1, <1>5 DEF MonitorMove
<1> QED
  BY <1>1, <1>2, <1>3, <1>4, <1>5 DEF InMonitor, Silently, SilentKey

LEMMA LogMoves == InAlarmLog => Move
<1> SUFFICES ASSUME InAlarmLog PROVE MoveStay \/ MoveBack \/ MoveNowhere
  BY DEF Move
<1>1. ASSUME NEW r, Row(r) PROVE MoveStay
  BY <1>1 DEF Row, MoveStay
<1>2. ASSUME Ignore PROVE MoveStay
  BY <1>2 DEF Ignore, MoveStay
<1>3. ASSUME MarkRead PROVE MoveStay
  BY <1>3 DEF MarkRead, MoveStay
<1>4. ASSUME CloseAlarmLog, view = "ALARM" PROVE MoveBack \/ MoveNowhere
  BY <1>4 DEF CloseAlarmLog, MoveBack, MoveNowhere
<1> QED
  BY <1>1, <1>2, <1>3, <1>4 DEF InAlarmLog, Silently, SilentKey

LEMMA StepMoves == [Next]_vars => Move
<1> SUFFICES ASSUME [Next]_vars PROVE Move
  OBVIOUS
<1>1. CASE Scan
  BY <1>1 DEF Scan, Move, MoveStay
<1>2. CASE HandleEvent
  BY <1>2, MenuMoves, EditingMoves, MonitorMovesOnly, LogMoves DEF HandleEvent
<1>3. CASE Timer
  BY <1>3 DEF Timer, Move, MoveStay
<1>4. ASSUME NEW v, DataUpdates(v) PROVE Move
  BY <1>4 DEF DataUpdates, OpenAlarmLog, Move, MoveStay, MoveToLog
<1>5. CASE UNCHANGED vars
  BY <1>5 DEF vars, Move, MoveStay
<1> QED
  BY <1>1, <1>2, <1>3, <1>4, <1>5 DEF Next
-----------------------------------------------------------------------------
(* The way through the menus. Path is HistoryIsPath of any history h that    *)
(* leads to menu m, or to the log.                                           *)
Place == [menu : Menus, item : Items]

MenuOn(h, m, k) == IF k <= Len(h) THEN h[k].menu ELSE m

Path(h, m, inLog) ==
  /\ MenuOn(h, m, 1) = Root
  /\ \A k \in DOMAIN h :
       /\ h[k].item \in ToSet(Children[h[k].menu])
       /\ k < Len(h) \/ ~inLog => /\ Kind[h[k].item] = "submenu"
                                  /\ Target[h[k].item] = MenuOn(h, m, k + 1)

LEMMA PathIsHistory ==
  HistoryIsPath <=> Path(history, menu, view = "ALARM") /\ (menu = AlarmMenu <=> view = "ALARM")
BY DEF HistoryIsPath, Path, MenuOn

LEMMA ChildrenType ==
  \A m \in Menus : ToSet(Children[m]) \subseteq Items /\ Children[m][1] \in ToSet(Children[m])
<1> SUFFICES ASSUME NEW m \in Menus
             PROVE  ToSet(Children[m]) \subseteq Items /\ Children[m][1] \in ToSet(Children[m])
  OBVIOUS
<1>1. Children[m] \in Seq(Items) /\ Children[m] # << >>
  BY TreeAssumption
<1>2. 1 \in DOMAIN Children[m]
  BY <1>1
<1> QED
  BY <1>1, <1>2 DEF ToSet

LEMMA PathPush ==
  ASSUME NEW h \in Seq(Place), NEW m \in Menus, NEW i \in Items,
         Path(h, m, FALSE), i \in ToSet(Children[m])
  PROVE  LET g == Append(h, [menu |-> m, item |-> i])
         IN /\ g \in Seq(Place) /\ Len(g) = Len(h) + 1
            /\ Path(g, AlarmMenu, TRUE)
            /\ Kind[i] = "submenu" => Path(g, Target[i], FALSE)
<1> DEFINE g == Append(h, [menu |-> m, item |-> i])
<1>1. /\ g \in Seq(Place) /\ Len(g) = Len(h) + 1 /\ DOMAIN g = 1 .. Len(h) + 1
      /\ Len(h) \in Nat /\ DOMAIN h = 1 .. Len(h)
  BY DEF Place
<1>2. /\ \A k \in 1 .. Len(h) : g[k] = h[k]
      /\ g[Len(h) + 1] = [menu |-> m, item |-> i]
  OBVIOUS
<1> HIDE DEF g
<1>3. ASSUME NEW t PROVE MenuOn(g, t, 1) = Root
  BY <1>1, <1>2 DEF Path, MenuOn
<1>4. ASSUME NEW t, NEW k \in 1 .. Len(h)
      PROVE  /\ g[k].item \in ToSet(Children[g[k].menu])
             /\ Kind[g[k].item] = "submenu"
             /\ Target[g[k].item] = MenuOn(g, t, k + 1)
  <2>1. MenuOn(g, t, k + 1) = MenuOn(h, m, k + 1)
    BY <1>1, <1>2 DEF MenuOn
  <2> QED
    BY <1>1, <1>2, <2>1 DEF Path
<1>5. ASSUME NEW t PROVE MenuOn(g, t, Len(h) + 2) = t
  BY <1>1 DEF MenuOn
<1>6. Path(g, AlarmMenu, TRUE)
  <2>1. ASSUME NEW k \in 1 .. Len(h) + 1
        PROVE  /\ g[k].item \in ToSet(Children[g[k].menu])
               /\ k < Len(g) => /\ Kind[g[k].item] = "submenu"
                                /\ Target[g[k].item] = MenuOn(g, AlarmMenu, k + 1)
    <3>1. CASE k \in 1 .. Len(h)
      BY <1>4, <3>1
    <3>2. CASE k = Len(h) + 1
      BY <1>1, <1>2, <3>2
    <3> QED
      BY <1>1, <3>1, <3>2
  <2> QED
    BY <1>1, <1>3, <2>1 DEF Path
<1>7. ASSUME Kind[i] = "submenu" PROVE Path(g, Target[i], FALSE)
  <2>1. ASSUME NEW k \in 1 .. Len(h) + 1
        PROVE  /\ g[k].item \in ToSet(Children[g[k].menu])
               /\ Kind[g[k].item] = "submenu"
               /\ Target[g[k].item] = MenuOn(g, Target[i], k + 1)
    <3>1. CASE k \in 1 .. Len(h)
      BY <1>4, <3>1
    <3>2. CASE k = Len(h) + 1
      BY <1>1, <1>2, <1>5, <1>7, <3>2
    <3> QED
      BY <1>1, <3>1, <3>2
  <2> QED
    BY <1>1, <1>3, <2>1 DEF Path
<1> QED
  BY <1>1, <1>6, <1>7 DEF g

LEMMA PathPop ==
  ASSUME NEW h \in Seq(Place), NEW m, NEW inLog \in BOOLEAN, Path(h, m, inLog), h # << >>
  PROVE  /\ Front(h) \in Seq(Place) /\ Len(Front(h)) = Len(h) - 1
         /\ \A k \in DOMAIN Front(h) : k \in DOMAIN h /\ Front(h)[k] = h[k]
         /\ Last(h) \in Place /\ Len(h) \in DOMAIN h /\ Last(h) = h[Len(h)]
         /\ Last(h).item \in ToSet(Children[Last(h).menu])
         /\ Path(Front(h), Last(h).menu, FALSE)
<1> DEFINE f == Front(h)
           n == Len(h) - 1
<1>1. /\ n \in Nat /\ Len(h) \in DOMAIN h /\ DOMAIN h = 1 .. Len(h)
      /\ Last(h) = h[Len(h)] /\ Last(h) \in Place
  BY DEF Last
<1>2. /\ f \in Seq(Place) /\ Len(f) = n /\ DOMAIN f = 1 .. n
      /\ \A k \in 1 .. n : f[k] = h[k]
  BY <1>1 DEF Front
<1> HIDE DEF f
<1>3. \A k \in 1 .. n + 1 : MenuOn(f, Last(h).menu, k) = h[k].menu
  BY <1>1, <1>2 DEF MenuOn
<1>4. \A k \in 1 .. n : MenuOn(h, m, k + 1) = h[k + 1].menu
  BY <1>1 DEF MenuOn
<1>5. MenuOn(h, m, 1) = h[1].menu
  BY <1>1 DEF MenuOn
<1>6. Path(f, Last(h).menu, FALSE)
  <2>1. MenuOn(f, Last(h).menu, 1) = Root
    BY <1>1, <1>3, <1>5 DEF Path
  <2>2. ASSUME NEW k \in 1 .. n
        PROVE  /\ f[k].item \in ToSet(Children[f[k].menu])
               /\ Kind[f[k].item] = "submenu"
               /\ Target[f[k].item] = MenuOn(f, Last(h).menu, k + 1)
    <3>1. k \in DOMAIN h /\ k < Len(h) /\ k + 1 \in 1 .. n + 1
      BY <1>1
    <3>2. /\ h[k].item \in ToSet(Children[h[k].menu])
          /\ Kind[h[k].item] = "submenu" /\ Target[h[k].item] = MenuOn(h, m, k + 1)
      BY <3>1 DEF Path
    <3> QED
      BY <1>2, <1>3, <1>4, <3>1, <3>2
  <2> QED
    BY <1>2, <2>1, <2>2 DEF Path
<1>7. Last(h).item \in ToSet(Children[Last(h).menu])
  BY <1>1 DEF Path
<1>8. \A k \in DOMAIN f : k \in DOMAIN h /\ f[k] = h[k]
  BY <1>1, <1>2
<1> QED
  BY <1>1, <1>2, <1>6, <1>7, <1>8 DEF f
-----------------------------------------------------------------------------
(* The levels of the menus (DepthAssumption) bound the history: the k-th menu *)
(* on the way is on level k at least.                                        *)
Level == CHOOSE d \in [Menus -> 0 .. HistorySlots - 1] : LevelsOf(d)

LEMMA LevelType ==
  /\ \A m \in Menus : Level[m] \in 0 .. HistorySlots - 1
  /\ \A m \in Menus, i \in Items :
       i \in ToSet(Children[m]) /\ Kind[i] = "submenu" /\ Target[i] \in Menus
       => Level[m] < Level[Target[i]]
<1>1. Level \in [Menus -> 0 .. HistorySlots - 1] /\ LevelsOf(Level)
  BY DepthAssumption DEF Level
<1> QED
  BY <1>1 DEF LevelsOf

Deep(h) == \A k \in DOMAIN h : k <= Level[h[k].menu] + 1

(* The inductive invariant. *)
NavType ==
  /\ history \in Seq(Place)
  /\ view \in {"NONE", "IO", "ALARM"}
  /\ IF view = "ALARM" THEN menu = AlarmMenu /\ item = AlarmMenu ELSE menu \in Menus

NotTooDeep ==
  /\ Deep(history)
  /\ view # "ALARM" => Len(history) <= Level[menu]

MonitorItem == view = "IO" => Kind[item] = "io_monitor"

Nav == NavType /\ HistoryIsPath /\ CursorShown /\ NotTooDeep /\ ScreenPolled /\ MonitorItem

LEMMA NavInit == Init => Nav
<1> SUFFICES ASSUME Init PROVE Nav
  OBVIOUS
<1>1. /\ menu = Root /\ Root \in Menus /\ Root # AlarmMenu /\ view = "NONE"
      /\ history = << >> /\ polled = Root /\ item = Children[Root][1]
      /\ paging = PageInfo[Root][Children[Root][1]]
  BY TreeAssumption DEF Init
<1>2. NavType
  BY <1>1 DEF NavType
<1>3. HistoryIsPath
  BY <1>1 DEF HistoryIsPath
<1>4. CursorShown /\ ScreenPolled /\ MonitorItem
  BY <1>1, ChildrenType DEF CursorShown, ScreenPolled, MonitorItem
<1>5. NotTooDeep
  BY <1>1, LevelType DEF NotTooDeep, Deep
<1> QED
  BY <1>2, <1>3, <1>4, <1>5 DEF Nav

(* Wherever the cursor is put, it is on an item of the menu and its page is  *)
(* the one on the screen.                                                    *)
LEMMA Selected ==
  ASSUME NEW m \in Menus, NEW i, Select(m, i)
  PROVE  /\ menu' = m /\ item' \in ToSet(Children[m]) /\ item' \in Items
         /\ paging' = PageInfo[m][item']
         /\ i \in ToSet(Children[m]) => item' = i
<1>1. ToSet(Children[m]) \subseteq Items /\ Children[m][1] \in ToSet(Children[m])
  BY ChildrenType
<1> QED
  BY <1>1 DEF Select

LEMMA ItemType == Nav /\ view # "ALARM" => menu \in Menus /\ item \in ToSet(Children[menu]) /\ item \in Items
BY ChildrenType DEF Nav, NavType, CursorShown

LEMMA NavPush ==
  ASSUME Nav, view # "ALARM"
  PROVE  LET h == Push
         IN /\ h \in Seq(Place) /\ Len(h) = Len(history) + 1
            /\ Path(h, AlarmMenu, TRUE) /\ Deep(h)
            /\ view = "NONE" /\ Kind[item] = "submenu" => Path(h, Target[item], FALSE)
<1>1. menu \in Menus /\ item \in ToSet(Children[menu]) /\ item \in Items
  BY ItemType
<1>2. history \in Seq(Place) /\ Len(history) \in Nat
  BY DEF Nav, NavType
<1>3. Path(history, menu, FALSE)
  BY PathIsHistory DEF Nav
<1>4. Len(history) <= Level[menu] /\ Level[menu] \in 0 .. HistorySlots - 1
  BY <1>1, LevelType DEF Nav, NotTooDeep
<1>5. Push = Append(history, [menu |-> menu, item |-> item])
  BY <1>2, <1>4, SizeAssumption DEF Push
<1>6. Deep(Push)
  <2>1. DOMAIN history = 1 .. Len(history) /\ DOMAIN Push = 1 .. Len(history) + 1
    BY <1>1, <1>2, <1>5
  <2>2. /\ \A k \in 1 .. Len(history) : Push[k] = history[k]
        /\ Push[Len(history) + 1] = [menu |-> menu, item |-> item]
    BY <1>2, <1>5
  <2>3. \A k \in 1 .. Len(history) + 1 : k \in 1 .. Len(history) \/ k = Len(history) + 1
    BY <1>2
  <2>4. \A k \in 1 .. Len(history) : k <= Level[Push[k].menu] + 1
    BY <2>1, <2>2 DEF Nav, NotTooDeep, Deep
  <2>5. Len(history) + 1 <= Level[Push[Len(history) + 1].menu] + 1
    BY <1>2, <1>4, <2>2
  <2> QED
    BY <2>1, <2>3, <2>4, <2>5 DEF Deep
<1> QED
  BY <1>1, <1>2, <1>3, <1>5, <1>6, PathPush

(* Each kind of move keeps the invariant. *)
LEMMA NavBack == Nav /\ MoveBack => Nav'
<1> SUFFICES ASSUME Nav, MoveBack PROVE Nav'
  OBVIOUS
<1> DEFINE inLog == view = "ALARM"
<1>1. /\ history \in Seq(Place) /\ history # << >> /\ inLog \in BOOLEAN
      /\ Path(history, menu, inLog) /\ Len(history) \in Nat \ {0}
  BY PathIsHistory DEF Nav, NavType, MoveBack
<1> HIDE DEF inLog
<1>2. /\ Front(history) \in Seq(Place) /\ Len(Front(history)) = Len(history) - 1
      /\ \A k \in DOMAIN Front(history) : k \in DOMAIN history /\ Front(history)[k] = history[k]
      /\ Last(history) \in Place /\ Len(history) \in DOMAIN history
      /\ Last(history) = history[Len(history)]
      /\ Last(history).item \in ToSet(Children[Last(history).menu])
      /\ Path(Front(history), Last(history).menu, FALSE)
  BY <1>1, PathPop
<1>3. Last(history).menu \in Menus
  BY <1>2 DEF Place
<1>4. /\ menu' = Last(history).menu /\ item' \in ToSet(Children[menu'])
      /\ paging' = PageInfo[menu'][item']
      /\ history' = Front(history) /\ polled' = menu' /\ view' = "NONE"
  BY <1>3, Selected DEF MoveBack, PopHistory
<1>5. NavType' /\ CursorShown' /\ ScreenPolled' /\ MonitorItem'
  BY <1>2, <1>3, <1>4 DEF NavType, CursorShown, ScreenPolled, MonitorItem
<1>6. HistoryIsPath'
  <2>1. Path(history', menu', view' = "ALARM") /\ menu' # AlarmMenu
    BY <1>2, <1>3, <1>4, TreeAssumption
  <2> QED
    BY <1>4, <2>1 DEF HistoryIsPath, Path, MenuOn
<1>7. NotTooDeep'
  <2>1. Deep(history')
    BY <1>2, <1>4 DEF Nav, NotTooDeep, Deep
  <2>2. Len(history) <= Level[menu'] + 1 /\ Level[menu'] \in Nat
    BY <1>2, <1>3, <1>4, LevelType DEF Nav, NotTooDeep, Deep
  <2>3. Len(history') <= Level[menu']
    BY <1>1, <1>2, <1>4, <2>2
  <2> QED
    BY <2>1, <2>3 DEF NotTooDeep
<1> QED
  BY <1>5, <1>6, <1>7 DEF Nav

LEMMA NavToLog == Nav /\ MoveToLog => Nav'
<1> SUFFICES ASSUME Nav, MoveToLog PROVE Nav'
  OBVIOUS
<1>1. /\ history' = Saved /\ view' = "ALARM" /\ menu' = AlarmMenu /\ item' = AlarmMenu
      /\ polled' = AlarmMenu
  BY DEF MoveToLog
<1>2. /\ history' \in Seq(Place) /\ Path(history', AlarmMenu, TRUE) /\ Deep(history')
  <2>1. CASE view = "ALARM"
    <3>1. Saved = history
      BY <2>1 DEF Saved
    <3> QED
      BY <1>1, <2>1, <3>1, PathIsHistory DEF Nav, NavType, NotTooDeep
  <2>2. CASE view # "ALARM"
    <3>1. Saved = Push
      BY <2>2 DEF Saved
    <3> QED
      BY <1>1, <2>2, <3>1, NavPush
  <2> QED
    BY <2>1, <2>2
<1>3. NavType' /\ CursorShown' /\ ScreenPolled' /\ MonitorItem'
  BY <1>1, <1>2 DEF NavType, CursorShown, ScreenPolled, MonitorItem
<1>4. HistoryIsPath'
  BY <1>1, <1>2 DEF HistoryIsPath, Path, MenuOn
<1>5. NotTooDeep'
  BY <1>1, <1>2 DEF NotTooDeep
<1> QED
  BY <1>3, <1>4, <1>5 DEF Nav

LEMMA NavInto == Nav /\ MoveInto => Nav'
<1> SUFFICES ASSUME Nav, MoveInto PROVE Nav'
  OBVIOUS
<1> DEFINE t == Target[item]
<1>1. /\ view = "NONE" /\ Kind[item] = "submenu" /\ t # AlarmMenu
      /\ Select(t, Children[t][1]) /\ history' = Push /\ view' = "NONE" /\ polled' = t
  BY DEF MoveInto
<1>2. menu \in Menus /\ item \in ToSet(Children[menu]) /\ item \in Items
  BY <1>1, ItemType
<1>3. t \in Menus
  BY <1>1, <1>2, TreeAssumption
<1>4. /\ history' \in Seq(Place) /\ Len(history') = Len(history) + 1 /\ Deep(history')
      /\ Path(history', t, FALSE)
  BY <1>1, NavPush
<1> HIDE DEF t
<1>5. /\ menu' = t /\ item' \in ToSet(Children[t]) /\ paging' = PageInfo[t][item']
  BY <1>1, <1>3, Selected
<1>6. NavType' /\ CursorShown' /\ ScreenPolled' /\ MonitorItem'
  BY <1>1, <1>3, <1>4, <1>5 DEF NavType, CursorShown, ScreenPolled, MonitorItem
<1>7. HistoryIsPath'
  <2>1. Path(history', menu', view' = "ALARM") /\ menu' # AlarmMenu
    BY <1>1, <1>3, <1>4, <1>5, TreeAssumption
  <2> QED
    BY <1>1, <2>1 DEF HistoryIsPath, Path, MenuOn
<1>8. NotTooDeep'
  <2>1. Len(history) <= Level[menu] /\ Len(history) \in Nat
    BY <1>1 DEF Nav, NavType, NotTooDeep
  <2>2. Level[menu] < Level[t] /\ Level[menu] \in Nat /\ Level[t] \in Nat
    BY <1>1, <1>2, <1>3, LevelType DEF t
  <2>3. Len(history') <= Level[menu']
    BY <1>4, <1>5, <2>1, <2>2
  <2> QED
    BY <1>4, <2>3 DEF NotTooDeep
<1> QED
  BY <1>6, <1>7, <1>8 DEF Nav

LEMMA NavHome == Nav /\ MoveHome => Nav'
<1> SUFFICES ASSUME Nav, MoveHome PROVE Nav'
  OBVIOUS
<1>1. Root \in Menus /\ Root # AlarmMenu
  BY TreeAssumption
<1>2. /\ menu' = Root /\ item' \in ToSet(Children[Root]) /\ paging' = PageInfo[Root][item']
      /\ history' = << >> /\ view' = "NONE" /\ polled' = Root
  BY <1>1, Selected DEF MoveHome
<1>3. NavType' /\ CursorShown' /\ ScreenPolled' /\ MonitorItem'
  BY <1>1, <1>2 DEF NavType, CursorShown, ScreenPolled, MonitorItem
<1>4. HistoryIsPath'
  BY <1>1, <1>2 DEF HistoryIsPath
<1>5. NotTooDeep'
  <2>1. Len(history') <= Level[menu'] /\ Deep(history')
    BY <1>1, <1>2, LevelType DEF Deep
  <2> QED
    BY <2>1 DEF NotTooDeep
<1> QED
  BY <1>3, <1>4, <1>5 DEF Nav

(* The history stays, and so does the menu. *)
LEMMA NavSameMenu ==
  ASSUME Nav, UNCHANGED <<menu, history>>, view # "ALARM", view' \in {"NONE", "IO"}
  PROVE  HistoryIsPath' /\ NotTooDeep'
<1>1. HistoryIsPath'
  BY DEF Nav, HistoryIsPath
<1>2. NotTooDeep'
  BY DEF Nav, NotTooDeep
<1> QED
  BY <1>1, <1>2

LEMMA NavCursor == Nav /\ MoveCursor => Nav'
<1> SUFFICES ASSUME Nav, MoveCursor PROVE Nav'
  OBVIOUS
<1>1. view = "NONE" /\ UNCHANGED <<history, view, polled>> /\ menu \in Menus
  BY ItemType DEF MoveCursor
<1>2. /\ menu' = menu /\ item' \in ToSet(Children[menu]) /\ paging' = PageInfo[menu][item']
  BY <1>1, Selected DEF MoveCursor
<1>3. NavType' /\ CursorShown' /\ ScreenPolled' /\ MonitorItem'
  BY <1>1, <1>2 DEF Nav, NavType, CursorShown, ScreenPolled, MonitorItem
<1> QED
  BY <1>1, <1>2, <1>3, NavSameMenu DEF Nav

LEMMA NavMonitor == Nav /\ (MoveToIO \/ MoveFromIO) => Nav'
<1> SUFFICES ASSUME Nav, MoveToIO \/ MoveFromIO PROVE Nav'
  OBVIOUS
<1>1. /\ UNCHANGED <<menu, item, paging, history>> /\ view # "ALARM" /\ menu \in Menus
      /\ \/ view' = "IO" /\ polled' = item /\ Kind[item] = "io_monitor"
         \/ view' = "NONE" /\ polled' = menu
  BY ItemType DEF MoveToIO, MoveFromIO, nav
<1>2. NavType' /\ CursorShown' /\ ScreenPolled' /\ MonitorItem'
  BY <1>1 DEF Nav, NavType, CursorShown, ScreenPolled, MonitorItem
<1> QED
  BY <1>1, <1>2, NavSameMenu DEF Nav

LEMMA NavStay == Nav /\ MoveStay => Nav'
BY DEF Nav, MoveStay, nav, NavType, HistoryIsPath, CursorShown, NotTooDeep, ScreenPolled, MonitorItem

(* The log is never open with nowhere to go back to. *)
LEMMA NavNowhere == Nav => ~MoveNowhere
BY TreeAssumption DEF Nav, HistoryIsPath, MoveNowhere

LEMMA NavInvariant == Spec => []Nav
<1>1. Nav /\ [Next]_vars => Nav'
  BY StepMoves, NavStay, NavCursor, NavHome, NavInto, NavBack, NavToLog, NavMonitor, NavNowhere
  DEF Move
<1> QED
  BY <1>1, NavInit, PTL DEF Spec

(* ESC leads back along the menus, whatever opened the log meanwhile.        *)
THEOREM WayBack == Spec => []HistoryIsPath
BY NavInvariant, PTL DEF Nav

(* The page on the screen is the one with the cursor.                        *)
THEOREM CursorOnItsPage == Spec => []CursorShown
BY NavInvariant, PTL DEF Nav

(* The poll manager has the registers of what is on the screen.              *)
THEOREM PolledIsShown == Spec => []ScreenPolled
BY NavInvariant, PTL DEF Nav
-----------------------------------------------------------------------------
(* The alarm log. *)
LogEntry == [value : Alarms, unread : BOOLEAN]

LogType ==
  /\ log \in Seq(LogEntry) /\ Len(log) <= LogSize
  /\ alarm_last \in Alarms \cup {0}

Logged == LogType /\ LogMatchesAlarm

LEMMA EventsKeepLog ==
  HandleEvent => UNCHANGED alarm_last /\ (UNCHANGED log \/ MarkRead)
<1> SUFFICES ASSUME HandleEvent PROVE UNCHANGED log \/ MarkRead
  BY DEF HandleEvent
<1>1. ASSUME Ignore PROVE UNCHANGED log
  BY <1>1 DEF Ignore
<1>2. CASE InMenu
  <2>1. ASSUME NEW n, Cursor(n) \/ Jump(n) PROVE UNCHANGED log
    BY <1>1, <2>1 DEF Cursor, Jump
  <2>2. ASSUME NEW m, NEW h, EnterMenu(m, h) PROVE UNCHANGED log
    BY <2>2 DEF EnterMenu
  <2>3. ASSUME OpenMonitor PROVE UNCHANGED log
    BY <2>3 DEF OpenMonitor, ShowMonitor
  <2>4. ASSUME BeginEdit PROVE UNCHANGED log
    BY <2>4 DEF BeginEdit, Session
  <2> QED
    BY <1>1, <1>2, <2>1, <2>2, <2>3, <2>4 DEF InMenu, Silently, SilentKey
<1>3. CASE Editing
  <2>1. ASSUME NEW e, Session(e) PROVE UNCHANGED log
    BY <2>1 DEF Session
  <2> QED
    BY <1>1, <1>3, <2>1 DEF Editing, Silently, SilentKey, Increase, Decrease, SmallerStep,
       LargerStep, Confirm, Cancel
<1>4. CASE InMonitor
  <2>1. ASSUME NEW r, Monitor(r) PROVE UNCHANGED log
    BY <2>1 DEF Monitor
  <2>2. ASSUME NEW k, NEW r, MonitorMove(k, r) PROVE UNCHANGED log
    BY <2>1, <2>2 DEF MonitorMove
  <2>3. ASSUME CloseMonitor PROVE UNCHANGED log
    BY <2>3 DEF CloseMonitor, ShowMonitor
  <2>4. ASSUME MonitorSelect PROVE UNCHANGED log
    BY <2>1, <2>4 DEF MonitorSelect
  <2> QED
    BY <1>1, <1>4, <2>1, <2>2, <2>3, <2>4 DEF InMonitor, Silently, SilentKey
<1>5. CASE InAlarmLog
  <2>1. ASSUME NEW r, Row(r) PROVE UNCHANGED log
    BY <2>1 DEF Row
  <2>2. ASSUME CloseAlarmLog PROVE UNCHANGED log
    BY <2>2 DEF CloseAlarmLog
  <2> QED
    BY <1>1, <1>5, <2>1, <2>2 DEF InAlarmLog, Silently, SilentKey
<1> QED
  BY <1>2, <1>3, <1>4, <1>5 DEF HandleEvent

LEMMA LoggedMark == Logged /\ MarkRead /\ UNCHANGED alarm_last => Logged'
<1> SUFFICES ASSUME Logged, MarkRead, UNCHANGED alarm_last, log' # log PROVE Logged'
  BY DEF Logged, LogType, LogMatchesAlarm
<1> DEFINE n == logpage.start + logpage.row
<1>1. n \in DOMAIN log /\ log' = [log EXCEPT ![n].unread = FALSE]
  BY DEF MarkRead
<1> HIDE DEF n
<1>2. /\ log \in Seq(LogEntry) /\ Len(log) <= LogSize /\ Len(log) \in Nat
      /\ DOMAIN log = 1 .. Len(log) /\ alarm_last \in Alarms \cup {0}
  BY DEF Logged, LogType
<1>3. \A i \in DOMAIN log : log[i] \in LogEntry
  BY <1>2
<1>4. /\ DOMAIN log' = DOMAIN log
      /\ \A i \in DOMAIN log : /\ log'[i] \in LogEntry /\ log'[i].value = log[i].value
                               /\ log'[i].unread => log[i].unread
  BY <1>1, <1>3 DEF LogEntry
<1>5. log' \in Seq(LogEntry) /\ Len(log') = Len(log)
  <2>1. log' \in [1 .. Len(log) -> LogEntry]
    BY <1>1, <1>2, <1>4
  <2> QED
    BY <1>2, <2>1
<1>6. LogMatchesAlarm'
  <2>1. CASE alarm_last # 0
    <3>1. log # << >> /\ log[1].value = alarm_last /\ 1 \in DOMAIN log
      BY <1>2, <2>1 DEF Logged, LogMatchesAlarm
    <3>2. log' # << >> /\ log'[1].value = alarm_last'
      BY <1>4, <1>5, <3>1
    <3> QED
      BY <2>1, <3>2 DEF LogMatchesAlarm
  <2>2. CASE alarm_last = 0
    BY <1>4, <2>2 DEF Logged, LogMatchesAlarm
  <2> QED
    BY <2>1, <2>2
<1> QED
  BY <1>2, <1>5, <1>6 DEF Logged, LogType

LEMMA LoggedUpdate ==
  ASSUME Logged, NEW v \in Alarms \cup {0}, DataUpdates(v)
  PROVE  Logged'
<1>1. /\ log \in Seq(LogEntry) /\ Len(log) <= LogSize /\ Len(log) \in Nat
      /\ DOMAIN log = 1 .. Len(log) /\ LogSize \in Nat \ {0}
  BY SizeAssumption DEF Logged, LogType
<1>2. alarm_last' = v
  BY DEF DataUpdates
<1>3. CASE NewAlarm(v)
  <2> DEFINE e == [value |-> v, unread |-> TRUE]
             all == <<e>> \o log
             n == Least(Len(log) + 1, LogSize)
  <2>1. v \in Alarms /\ v # 0 /\ e \in LogEntry
    BY <1>3 DEF NewAlarm, LogEntry
  <2>2. log' = SubSeq(all, 1, n)
    BY <1>3 DEF DataUpdates, LogWith
  <2>3. all \in Seq(LogEntry) /\ Len(all) = Len(log) + 1 /\ all[1] = e
    BY <1>1, <2>1
  <2>4. n \in 1 .. Len(log) + 1 /\ n <= LogSize
    BY <1>1 DEF Least
  <2> HIDE DEF all, n
  <2>5. log' \in Seq(LogEntry) /\ Len(log') = n /\ log'[1] = e
    BY <1>1, <2>2, <2>3, <2>4
  <2>6. log' # << >> /\ log'[1].value = v
    BY <2>4, <2>5
  <2> QED
    BY <1>2, <2>1, <2>4, <2>5, <2>6 DEF Logged, LogType, LogMatchesAlarm
<1>4. CASE ~NewAlarm(v) /\ v = 0 /\ alarm_last # 0
  <2>1. log' = [i \in DOMAIN log |-> [log[i] EXCEPT !.unread = FALSE]]
    BY <1>4 DEF DataUpdates, AllRead
  <2>2. \A i \in DOMAIN log : log[i] \in LogEntry
    BY <1>1
  <2>3. \A i \in DOMAIN log : log'[i] \in LogEntry /\ ~log'[i].unread
    BY <2>1, <2>2 DEF LogEntry
  <2>4. log' \in Seq(LogEntry) /\ Len(log') = Len(log) /\ DOMAIN log' = DOMAIN log
    <3>1. log' \in [1 .. Len(log) -> LogEntry]
      BY <1>1, <2>1, <2>3
    <3> QED
      BY <1>1, <3>1
  <2> QED
    BY <1>1, <1>2, <1>4, <2>3, <2>4 DEF Logged, LogType, LogMatchesAlarm
<1>5. CASE ~NewAlarm(v) /\ ~(v = 0 /\ alarm_last # 0)
  <2>1. log' = log /\ v = alarm_last
    BY <1>5 DEF DataUpdates, NewAlarm
  <2> QED
    BY <1>2, <2>1 DEF Logged, LogType, LogMatchesAlarm
<1> QED
  BY <1>3, <1>4, <1>5

LEMMA LogInvariant == Spec => []Logged
<1>1. Init => Logged
  BY SizeAssumption DEF Init, Logged, LogType, LogMatchesAlarm
<1>2. Logged /\ [Next]_vars => Logged'
  <2> SUFFICES ASSUME Logged, [Next]_vars PROVE Logged'
    OBVIOUS
  <2>1. ASSUME UNCHANGED <<log, alarm_last>> PROVE Logged'
    BY <2>1 DEF Logged, LogType, LogMatchesAlarm
  <2>2. CASE HandleEvent
    BY <2>1, <2>2, EventsKeepLog, LoggedMark
  <2>3. CASE Scan \/ Timer \/ UNCHANGED vars
    BY <2>1, <2>3 DEF Scan, Timer, vars, logs
  <2> QED
    BY <2>2, <2>3, LoggedUpdate DEF Next
<1> QED
  BY <1>1, <1>2, PTL DEF Spec

(* The newest entry of the log is the alarm that stands. *)
THEOREM LogIsOfAlarm == Spec => []LogMatchesAlarm
BY LogInvariant, PTL DEF Logged
-----------------------------------------------------------------------------
(* Edit sessions. *)
EditRecord == [item : Editable, original : Nat, pending : Nat, step : 1 .. Len(Steps)]

EditType == edit = NoEdit \/ edit \in EditRecord

EditHere == IsEditing => view = "NONE" /\ edit.item = item

EditInRange ==
  IsEditing /\ edit.original \in RangeOf(edit.item) => edit.pending \in RangeOf(edit.item)

EditOK == EditType /\ EditHere /\ EditInRange

LEMMA EditRecordFacts ==
  ASSUME NEW e \in EditRecord
  PROVE  /\ e # NoEdit /\ e.item \in Items /\ e.item \in Editable
         /\ e.original \in Nat /\ e.pending \in Nat /\ e.step \in 1 .. Len(Steps)
         /\ Steps[e.step] \in Nat /\ Len(Steps) \in Nat \ {0}
         /\ \/ Kind[e.item] = "toggle" /\ RangeOf(e.item) = {0, 1}
            \/ /\ Kind[e.item] = "value" /\ RangeOf(e.item) = Low[e.item] .. High[e.item]
               /\ Low[e.item] \in Nat /\ High[e.item] \in Nat
            \/ /\ Kind[e.item] = "list" /\ RangeOf(e.item) = 0 .. Options[e.item] - 1
               /\ Options[e.item] \in Nat \ {0}
<1>1. /\ e.item \in Editable /\ e.original \in Nat /\ e.pending \in Nat
      /\ e.step \in 1 .. Len(Steps)
  BY DEF EditRecord
<1>2. /\ e.item \in Items
      /\ Kind[e.item] = "toggle" \/ Kind[e.item] = "value" \/ Kind[e.item] = "list"
  BY <1>1 DEF Editable
<1>3. e # NoEdit
  BY <1>2, TreeAssumption DEF NoEdit
<1>4. Steps \in Seq(Nat) /\ Steps # << >>
  BY ValueAssumption
<1>5. Steps[e.step] \in Nat /\ Len(Steps) \in Nat \ {0}
  BY <1>1, <1>4
<1>6. CASE Kind[e.item] = "toggle"
  BY <1>1, <1>2, <1>3, <1>5, <1>6 DEF RangeOf
<1>7. CASE Kind[e.item] = "value"
  <2>1. RangeOf(e.item) = Low[e.item] .. High[e.item]
    BY <1>7 DEF RangeOf
  <2> QED
    BY <1>1, <1>2, <1>3, <1>5, <1>7, <2>1, ValueAssumption
<1>8. CASE Kind[e.item] = "list"
  <2>1. RangeOf(e.item) = 0 .. Options[e.item] - 1
    BY <1>8 DEF RangeOf
  <2> QED
    BY <1>1, <1>2, <1>3, <1>5, <1>8, <2>1, ValueAssumption
<1> QED
  BY <1>2, <1>6, <1>7, <1>8

LEMMA IncreasedInRange ==
  ASSUME NEW e \in EditRecord
  PROVE  /\ Increased(e) \in Nat
         /\ e.pending \in RangeOf(e.item) => Increased(e) \in RangeOf(e.item)
<1>1. CASE Kind[e.item] = "toggle"
  BY <1>1, EditRecordFacts DEF Increased
<1>2. CASE Kind[e.item] = "value"
  <2>1. Increased(e) = Least(e.pending + Steps[e.step], High[e.item])
    BY <1>2 DEF Increased, UpTo
  <2>2. /\ RangeOf(e.item) = Low[e.item] .. High[e.item]
        /\ Low[e.item] \in Nat /\ High[e.item] \in Nat
        /\ e.pending \in Nat /\ Steps[e.step] \in Nat
    BY <1>2, EditRecordFacts
  <2> QED
    BY <2>1, <2>2 DEF Least
<1>3. CASE Kind[e.item] = "list"
  <2>1. Increased(e) = (e.pending + 1) % Options[e.item]
    BY <1>3 DEF Increased
  <2>2. /\ RangeOf(e.item) = 0 .. Options[e.item] - 1 /\ Options[e.item] \in Nat \ {0}
        /\ e.pending \in Nat
    BY <1>3, EditRecordFacts
  <2> QED
    BY <2>1, <2>2
<1> QED
  BY <1>1, <1>2, <1>3, EditRecordFacts

LEMMA DecreasedInRange ==
  ASSUME NEW e \in EditRecord
  PROVE  /\ Decreased(e) \in Nat
         /\ e.pending \in RangeOf(e.item) => Decreased(e) \in RangeOf(e.item)
<1>1. CASE Kind[e.item] = "toggle"
  BY <1>1, EditRecordFacts DEF Decreased
<1>2. CASE Kind[e.item] = "value"
  <2>1. Decreased(e) = IF e.pending < Low[e.item] + Steps[e.step] THEN Low[e.item]
                       ELSE e.pending - Steps[e.step]
    BY <1>2 DEF Decreased
  <2>2. /\ RangeOf(e.item) = Low[e.item] .. High[e.item]
        /\ Low[e.item] \in Nat /\ High[e.item] \in Nat
        /\ e.pending \in Nat /\ Steps[e.step] \in Nat
    BY <1>2, EditRecordFacts
  <2> QED
    BY <2>1, <2>2
<1>3. CASE Kind[e.item] = "list"
  <2>1. Decreased(e) = IF e.pending > 0 THEN e.pending - 1 ELSE Options[e.item] - 1
    BY <1>3 DEF Decreased
  <2>2. /\ RangeOf(e.item) = 0 .. Options[e.item] - 1 /\ Options[e.item] \in Nat \ {0}
        /\ e.pending \in Nat
    BY <1>3, EditRecordFacts
  <2> QED
    BY <2>1, <2>2
<1> QED
  BY <1>1, <1>2, <1>3, EditRecordFacts

(* What a step does to the session: nothing, it ends, it begins, or its      *)
(* value or step changes.                                                    *)
EditBegins ==
  /\ view = "NONE" /\ item \in Editable
  /\ \E v \in CacheValues(item) :
       edit' = [item |-> item, original |-> v, pending |-> v, step |-> 1]

EditGoesOn ==
  /\ IsEditing
  /\ \E w \in {edit.pending, Increased(edit), Decreased(edit)}, n \in 1 .. Len(Steps) :
       edit' = [edit EXCEPT !.pending = w, !.step = n]

EditStep ==
  \/ edit' = NoEdit
  \/ UNCHANGED <<nav, view>> /\ (UNCHANGED edit \/ EditBegins \/ EditGoesOn)

LEMMA MenuEdits == InMenu => EditStep
<1> SUFFICES ASSUME InMenu PROVE EditStep
  OBVIOUS
<1>0. view = "NONE" /\ edit = NoEdit
  BY DEF InMenu, IsEditing
<1>1. ASSUME UNCHANGED edit PROVE EditStep
  BY <1>0, <1>1 DEF EditStep
<1>2. ASSUME NEW n, Cursor(n) \/ Jump(n) PROVE EditStep
  BY <1>1, <1>2 DEF Cursor, Ignore, Jump
<1>3. ASSUME NEW m, NEW h, EnterMenu(m, h) PROVE EditStep
  BY <1>1, <1>3 DEF EnterMenu
<1>4. ASSUME NEW r, OpenAlarmLog(log, r) PROVE EditStep
  BY <1>4 DEF OpenAlarmLog, EditStep
<1>5. ASSUME OpenMonitor PROVE EditStep
  BY <1>1, <1>5 DEF OpenMonitor, ShowMonitor
<1>6. ASSUME BeginEdit, item \in Editable PROVE EditStep
  BY <1>0, <1>6 DEF BeginEdit, Session, EditStep, EditBegins
<1>7. ASSUME Ignore PROVE EditStep
  BY <1>1, <1>7 DEF Ignore
<1> QED
  BY <1>1, <1>2, <1>3, <1>4, <1>5, <1>6, <1>7 DEF InMenu, Silently, SilentKey

LEMMA EditingEdits == EditType /\ Editing => EditStep
<1> SUFFICES ASSUME EditType, Editing PROVE EditStep
  OBVIOUS
<1>0. IsEditing /\ edit \in EditRecord /\ edit.step \in 1 .. Len(Steps) /\ Len(Steps) \in Nat \ {0}
  BY EditRecordFacts DEF Editing, EditType, IsEditing
<1>1. ASSUME NEW e, Session(e) PROVE edit' = e /\ UNCHANGED <<nav, view>>
  BY <1>1 DEF Session
<1>2. ASSUME NEW w \in {edit.pending, Increased(edit), Decreased(edit)}, NEW n \in 1 .. Len(Steps),
             Session([edit EXCEPT !.pending = w, !.step = n])
      PROVE  EditStep
  <2>1. edit' = [edit EXCEPT !.pending = w, !.step = n] /\ UNCHANGED <<nav, view>>
    BY <1>1, <1>2
  <2> QED
    BY <1>0, <2>1 DEF EditStep, EditGoesOn
<1>3. /\ \A w : [edit EXCEPT !.pending = w] = [edit EXCEPT !.pending = w, !.step = edit.step]
      /\ \A n : [edit EXCEPT !.step = n] = [edit EXCEPT !.pending = edit.pending, !.step = n]
  BY <1>0 DEF EditRecord
<1>4. ASSUME Increase \/ Decrease PROVE EditStep
  BY <1>0, <1>2, <1>3, <1>4 DEF Increase, Decrease
<1>5. ASSUME SmallerStep PROVE EditStep
  <2> DEFINE n == IF edit.step > 1 THEN edit.step - 1 ELSE edit.step
  <2>1. n \in 1 .. Len(Steps)
    BY <1>0
  <2>2. Session([edit EXCEPT !.step = n])
    BY <1>5 DEF SmallerStep
  <2> HIDE DEF n
  <2> QED
    BY <1>2, <1>3, <2>1, <2>2
<1>6. ASSUME LargerStep PROVE EditStep
  <2> DEFINE n == Least(edit.step + 1, Len(Steps))
  <2>1. n \in 1 .. Len(Steps)
    BY <1>0 DEF Least
  <2>2. Session([edit EXCEPT !.step = n])
    BY <1>6 DEF LargerStep
  <2> HIDE DEF n
  <2> QED
    BY <1>2, <1>3, <2>1, <2>2
<1>7. ASSUME Confirm \/ Cancel PROVE EditStep
  BY <1>1, <1>7 DEF Confirm, Cancel, EditStep
<1>8. ASSUME Ignore PROVE EditStep
  BY <1>8 DEF Ignore, EditStep
<1> QED
  BY <1>4, <1>5, <1>6, <1>7, <1>8 DEF Editing, Silently, SilentKey

(* In the monitor and the log nothing is edited, and nothing begins to be.   *)
LEMMA ViewsEdit == EditHere /\ (InMonitor \/ InAlarmLog) => edit' = NoEdit
<1> SUFFICES ASSUME EditHere, InMonitor \/ InAlarmLog PROVE edit' = NoEdit
  OBVIOUS
<1>0. edit = NoEdit
  BY DEF EditHere, IsEditing, InMonitor, InAlarmLog
<1>1. ASSUME NEW r, Monitor(r) \/ Row(r) PROVE UNCHANGED edit
  BY <1>1 DEF Monitor, Row
<1>2. ASSUME NEW k, NEW r, MonitorMove(k, r) PROVE UNCHANGED edit
  BY <1>1, <1>2 DEF MonitorMove
<1>3. ASSUME CloseMonitor \/ MonitorSelect PROVE UNCHANGED edit
  BY <1>1, <1>3 DEF CloseMonitor, ShowMonitor, MonitorSelect
<1>4. ASSUME MarkRead \/ CloseAlarmLog \/ Ignore PROVE UNCHANGED edit
  BY <1>4 DEF MarkRead, CloseAlarmLog, Ignore
<1>5. CASE InMonitor
  BY <1>0, <1>1, <1>2, <1>3, <1>4, <1>5 DEF InMonitor, Silently, SilentKey
<1>6. CASE InAlarmLog
  BY <1>0, <1>1, <1>4, <1>6 DEF InAlarmLog, Silently, SilentKey
<1> QED
  BY <1>5, <1>6

LEMMA StepEdits == EditOK /\ [Next]_vars => EditStep
<1> SUFFICES ASSUME EditOK, [Next]_vars PROVE EditStep
  OBVIOUS
<1>1. CASE HandleEvent
  BY <1>1, MenuEdits, EditingEdits, ViewsEdit DEF HandleEvent, EditStep, EditOK
<1>2. CASE Scan \/ Timer \/ UNCHANGED vars
  BY <1>2 DEF Scan, Timer, vars, EditStep
<1>3. ASSUME NEW v, DataUpdates(v) PROVE EditStep
  BY <1>3 DEF DataUpdates, OpenAlarmLog, EditStep
<1> QED
  BY <1>1, <1>2, <1>3 DEF Next

LEMMA EditKept == EditOK /\ EditStep => EditOK'
<1> SUFFICES ASSUME EditOK, EditStep PROVE EditOK'
  OBVIOUS
<1>1. CASE edit' = NoEdit
  BY <1>1 DEF EditOK, EditType, EditHere, EditInRange, IsEditing
<1>2. CASE UNCHANGED <<nav, view, edit>>
  BY <1>2 DEF nav, EditOK, EditType, EditHere, EditInRange, IsEditing
<1>3. CASE UNCHANGED <<nav, view>> /\ EditBegins
  <2>1. PICK v \in CacheValues(item) :
          edit' = [item |-> item, original |-> v, pending |-> v, step |-> 1]
    BY <1>3 DEF EditBegins
  <2>2. v \in Nat /\ 1 \in 1 .. Len(Steps)
    BY ValueAssumption DEF CacheValues
  <2>3. edit' \in EditRecord /\ edit'.item = item /\ edit'.original = edit'.pending
    BY <1>3, <2>1, <2>2 DEF EditRecord, EditBegins
  <2> QED
    BY <1>3, <2>3 DEF nav, EditOK, EditType, EditHere, EditInRange, EditBegins
<1>4. CASE UNCHANGED <<nav, view>> /\ EditGoesOn
  <2>1. edit \in EditRecord /\ view = "NONE" /\ edit.item = item
    BY <1>4 DEF EditGoesOn, EditOK, EditType, EditHere, IsEditing
  <2>2. PICK w \in {edit.pending, Increased(edit), Decreased(edit)}, n \in 1 .. Len(Steps) :
          edit' = [edit EXCEPT !.pending = w, !.step = n]
    BY <1>4 DEF EditGoesOn
  <2>3. /\ w \in Nat
        /\ edit.pending \in RangeOf(edit.item) => w \in RangeOf(edit.item)
    BY <2>1, <2>2, IncreasedInRange, DecreasedInRange, EditRecordFacts
  <2>4. /\ edit' \in EditRecord /\ edit'.item = edit.item
        /\ edit'.original = edit.original /\ edit'.pending = w
    BY <2>1, <2>2, <2>3 DEF EditRecord
  <2>5. (edit.original \in RangeOf(edit.item)) => edit.pending \in RangeOf(edit.item)
    BY <1>4 DEF EditOK, EditInRange, EditGoesOn
  <2>6. EditInRange'
    BY <2>3, <2>4, <2>5 DEF EditInRange
  <2> QED
    BY <1>4, <2>1, <2>4, <2>6 DEF nav, EditOK, EditType, EditHere
<1> QED
  BY <1>1, <1>2, <1>3, <1>4 DEF EditStep

LEMMA EditInvariant == Spec => []EditOK
<1>1. Init => EditOK
  BY DEF Init, EditOK, EditType, EditHere, EditInRange, IsEditing
<1> QED
  BY <1>1, StepEdits, EditKept, PTL DEF Spec
-----------------------------------------------------------------------------
(* The IO monitor. Every page has a point, and no page more than its size.   *)
LEMMA ScaleUp == \A a, b, c \in Nat : a * c \in Nat /\ (a <= b => a * c <= b * c)
OBVIOUS

LEMMA Ceiling ==
  ASSUME NEW n \in Nat, NEW s \in Nat \ {0}
  PROVE  LET q == (n + s - 1) \div s
         IN /\ q \in Nat /\ (n > 0 => q > 0)
            /\ \A p \in Nat : p < q => p * s \in Nat /\ p * s < n
<1> DEFINE a == n + s - 1
           q == a \div s
<1>1. a \in Nat /\ s \in Nat \ {0}
  OBVIOUS
<1>2. \A x \in Nat, y \in Nat \ {0} : /\ x \div y \in Nat /\ x % y \in 0 .. y - 1
                                    /\ x = y * (x \div y) + (x % y)
  OBVIOUS
<1>3. q \in Nat /\ a % s \in 0 .. s - 1 /\ a = s * q + (a % s)
  BY <1>1, <1>2
<1> HIDE DEF q
<1>4. n > 0 => q > 0
  <2>1. CASE q = 0
    BY <1>1, <1>3, <2>1
  <2> QED
    BY <1>3, <2>1
<1>5. ASSUME NEW p \in Nat, p < q PROVE p * s \in Nat /\ p * s < n
  <2>1. (p + 1) * s <= q * s /\ p * s \in Nat
    BY <1>1, <1>3, <1>5, ScaleUp
  <2>2. (p + 1) * s = p * s + s /\ q * s = s * q
    BY <1>1, <1>3, <1>5
  <2>3. s * q \in Nat /\ s * q <= n + s - 1
    <3>1. s * q \in Nat
      BY <1>1, <1>3, ScaleUp
    <3> DEFINE sq == s * q
               r == a % s
    <3>2. a = sq + r /\ sq \in Nat /\ r \in Nat
      BY <1>1, <1>3, <3>1
    <3> HIDE DEF sq, r
    <3>3. sq <= n + s - 1
      BY <3>2
    <3> QED
      BY <3>1, <3>3 DEF sq
  <2> QED
    BY <1>1, <1>3, <2>1, <2>2, <2>3
<1> QED
  BY <1>3, <1>4, <1>5 DEF q

LEMMA PageCounts ==
  /\ InputPages \in Nat /\ OutputPages \in Nat /\ InputPages + OutputPages > 0
  /\ PageSize \in Nat \ {0}
BY Ceiling, SizeAssumption DEF InputPages, OutputPages

LEMMA PointsType ==
  \A p \in Nat : p < InputPages + OutputPages => PointsOn(p) \in 1 .. PageSize
<1> SUFFICES ASSUME NEW p \in Nat, p < InputPages + OutputPages
             PROVE  PointsOn(p) \in 1 .. PageSize
  OBVIOUS
<1>1. CASE p < InputPages
  <2>1. p * PageSize \in Nat /\ p * PageSize < Inputs
    BY <1>1, Ceiling, SizeAssumption DEF InputPages
  <2>2. PointsOn(p) = Least(Inputs - p * PageSize, PageSize)
    BY <1>1 DEF PointsOn
  <2> QED
    BY <2>1, <2>2, SizeAssumption DEF Least
<1>2. CASE ~(p < InputPages)
  <2> DEFINE o == p - InputPages
  <2>1. o \in Nat /\ o < OutputPages
    BY <1>2, PageCounts
  <2>2. o * PageSize \in Nat /\ o * PageSize < Outputs
    BY <2>1, Ceiling, SizeAssumption DEF OutputPages
  <2>3. PointsOn(p) = Least(Outputs - o * PageSize, PageSize)
    BY <1>2 DEF PointsOn
  <2> QED
    BY <2>2, <2>3, SizeAssumption DEF Least
<1> QED
  BY <1>1, <1>2

IORecord == [page : Nat, total : Nat, selected : 0 .. PageSize - 1, editing : BOOLEAN]

OnPoint(r) ==
  /\ r.total = InputPages + OutputPages /\ r.page < r.total
  /\ r.selected < PointsOn(r.page)
  /\ r.editing => r.page >= InputPages

MonitorOK == io \in IORecord /\ (view = "IO" => OnPoint(io))

LEMMA RecordFacts ==
  ASSUME NEW r \in IORecord, OnPoint(r)
  PROVE  /\ r.page \in Nat /\ r.total \in Nat /\ r.selected \in Nat /\ r.editing \in BOOLEAN
         /\ \A p \in Nat : p < r.total => PointsOn(p) \in 1 .. PageSize
BY PointsType, PageCounts DEF IORecord, OnPoint

(* Moving to a point of a page *)
LEMMA MovesToPoint ==
  ASSUME NEW r \in IORecord, OnPoint(r), ~r.editing,
         NEW p \in Nat, p < r.total, NEW x \in Nat, x < PointsOn(p)
  PROVE  LET t == [r EXCEPT !.page = p, !.selected = x] IN t \in IORecord /\ OnPoint(t)
<1>1. PointsOn(p) \in 1 .. PageSize /\ PageSize \in Nat
  BY RecordFacts, PageCounts
<1>2. x \in 0 .. PageSize - 1
  BY <1>1
<1> QED
  BY <1>2 DEF IORecord, OnPoint

LEMMA MonitorMoved ==
  ASSUME MonitorOK, view = "IO", ~io.editing,
         NEW r \in {MonitorUp, MonitorDown, MonitorLeft, MonitorRight}
  PROVE  r \in IORecord /\ OnPoint(r)
<1>1. io \in IORecord /\ OnPoint(io)
  BY DEF MonitorOK
<1>2. /\ io.page \in Nat /\ io.total \in Nat /\ io.selected \in Nat /\ io.page < io.total
      /\ io.selected < PointsOn(io.page)
      /\ \A p \in Nat : p < io.total => PointsOn(p) \in 1 .. PageSize
      /\ PageSize \in Nat \ {0}
  BY <1>1, RecordFacts, PageCounts DEF OnPoint
<1>3. /\ \A x : [io EXCEPT !.selected = x] = [io EXCEPT !.page = io.page, !.selected = x]
      /\ io = [io EXCEPT !.page = io.page, !.selected = io.selected]
  BY <1>1 DEF IORecord
<1>4. ASSUME NEW p \in Nat, p < io.total, NEW x \in Nat, x < PointsOn(p)
      PROVE  LET t == [io EXCEPT !.page = p, !.selected = x] IN t \in IORecord /\ OnPoint(t)
  BY <1>1, <1>4, MovesToPoint
<1>5. ASSUME NEW p \in Nat, p < io.total
      PROVE  OnPage(p, io.selected) \in IORecord /\ OnPoint(OnPage(p, io.selected))
  <2> DEFINE x == Least(io.selected, PointsOn(p) - 1)
  <2>1. x \in Nat /\ x < PointsOn(p)
    BY <1>2, <1>5 DEF Least
  <2>2. OnPage(p, io.selected) = [io EXCEPT !.page = p, !.selected = x]
    BY DEF OnPage
  <2> HIDE DEF x
  <2> QED
    BY <1>4, <1>5, <2>1, <2>2
<1>6. CASE r = MonitorUp
  <2>1. CASE io.selected > 0
    <3>1. r = [io EXCEPT !.selected = io.selected - 1]
      BY <1>6, <2>1 DEF MonitorUp
    <3>2. io.selected - 1 \in Nat /\ io.selected - 1 < PointsOn(io.page)
      BY <1>2, <2>1
    <3> QED
      BY <1>2, <1>3, <1>4, <3>1, <3>2
  <2>2. CASE ~(io.selected > 0) /\ io.page > 0
    <3>1. r = [io EXCEPT !.page = io.page - 1, !.selected = PointsOn(io.page - 1) - 1]
      BY <1>6, <2>2 DEF MonitorUp
    <3>2. io.page - 1 \in Nat /\ io.page - 1 < io.total
      BY <1>2, <2>2
    <3>3. PointsOn(io.page - 1) - 1 \in Nat /\ PointsOn(io.page - 1) - 1 < PointsOn(io.page - 1)
      BY <1>2, <3>2
    <3> QED
      BY <1>4, <3>1, <3>2, <3>3
  <2> QED
    BY <1>1, <1>6, <2>1, <2>2 DEF MonitorUp
<1>7. CASE r = MonitorDown
  <2>1. CASE io.selected + 1 < PointsOn(io.page)
    <3>1. r = [io EXCEPT !.selected = io.selected + 1]
      BY <1>7, <2>1 DEF MonitorDown
    <3>2. io.selected + 1 \in Nat
      BY <1>2
    <3> QED
      BY <1>2, <1>3, <1>4, <2>1, <3>1, <3>2
  <2>2. CASE ~(io.selected + 1 < PointsOn(io.page)) /\ io.page + 1 < io.total
    <3>1. r = [io EXCEPT !.page = io.page + 1, !.selected = 0]
      BY <1>7, <2>2 DEF MonitorDown
    <3>2. io.page + 1 \in Nat /\ 0 < PointsOn(io.page + 1)
      BY <1>2, <2>2
    <3> QED
      BY <1>4, <2>2, <3>1, <3>2
  <2> QED
    BY <1>1, <1>7, <2>1, <2>2 DEF MonitorDown
<1>8. CASE r = MonitorLeft
  <2>1. CASE io.page > 0
    <3>1. io.page - 1 \in Nat /\ io.page - 1 < io.total
      BY <1>2, <2>1
    <3> QED
      BY <1>5, <1>8, <2>1, <3>1 DEF MonitorLeft
  <2> QED
    BY <1>1, <1>8, <2>1 DEF MonitorLeft
<1>9. CASE r = MonitorRight
  <2>1. CASE io.page + 1 < io.total
    BY <1>2, <1>5, <1>9, <2>1 DEF MonitorRight
  <2> QED
    BY <1>1, <1>9, <2>1 DEF MonitorRight
<1> QED
  BY <1>6, <1>7, <1>8, <1>9

(* What a step does to the monitor: nothing, it opens, it closes, or its     *)
(* cursor moves to a point.                                                  *)
MonitorStep ==
  \/ UNCHANGED io /\ (view' = "IO" => view = "IO")
  \/ view' = "IO" /\ io' = [NoIO EXCEPT !.total = InputPages + OutputPages]
  \/ view' = "NONE" /\ io' = NoIO
  \/ view = "IO" /\ io' \in IORecord /\ OnPoint(io')

LEMMA OutsideMonitor ==
  InMenu \/ Editing \/ InAlarmLog => MonitorStep
<1>1. ASSUME Ignore PROVE MonitorStep
  BY <1>1 DEF Ignore, MonitorStep
<1>2. CASE InMenu
  <2>1. ASSUME NEW n, Cursor(n) \/ Jump(n) PROVE MonitorStep
    BY <1>1, <2>1 DEF Cursor, Jump, MonitorStep
  <2>2. ASSUME NEW m, NEW h, EnterMenu(m, h) PROVE MonitorStep
    BY <2>2 DEF EnterMenu, MonitorStep
  <2>3. ASSUME NEW r, OpenAlarmLog(log, r) PROVE MonitorStep
    BY <2>3 DEF OpenAlarmLog, MonitorStep
  <2>4. ASSUME OpenMonitor PROVE MonitorStep
    BY <2>4 DEF OpenMonitor, ShowMonitor, MonitorStep
  <2>5. ASSUME BeginEdit PROVE MonitorStep
    BY <2>5 DEF BeginEdit, Session, MonitorStep
  <2>6. ASSUME UNCHANGED <<view, io>> PROVE MonitorStep
    BY <2>6 DEF MonitorStep
  <2> QED
    BY <1>1, <1>2, <2>1, <2>2, <2>3, <2>4, <2>5, <2>6 DEF InMenu, Silently, SilentKey
<1>3. CASE Editing
  <2>1. ASSUME NEW e, Session(e) PROVE MonitorStep
    BY <2>1 DEF Session, MonitorStep
  <2> QED
    BY <1>1, <1>3, <2>1 DEF Editing, Silently, SilentKey, Increase, Decrease, SmallerStep,
       LargerStep, Confirm, Cancel
<1>4. CASE InAlarmLog
  <2>1. ASSUME NEW r, Row(r) PROVE MonitorStep
    BY <2>1 DEF Row, MonitorStep
  <2>2. ASSUME MarkRead \/ CloseAlarmLog PROVE MonitorStep
    BY <2>2 DEF MarkRead, CloseAlarmLog, MonitorStep
  <2> QED
    BY <1>1, <1>4, <2>1, <2>2 DEF InAlarmLog, Silently, SilentKey
<1> QED
  BY <1>2, <1>3, <1>4

LEMMA InsideMonitor == MonitorOK /\ InMonitor => MonitorStep
<1> SUFFICES ASSUME MonitorOK, InMonitor PROVE MonitorStep
  OBVIOUS
<1>0. view = "IO" /\ io \in IORecord /\ OnPoint(io) /\ io.editing \in BOOLEAN
  BY DEF InMonitor, MonitorOK, IORecord
<1>1. ASSUME NEW r, Monitor(r), r \in IORecord, OnPoint(r) PROVE MonitorStep
  BY <1>0, <1>1 DEF Monitor, MonitorStep
<1>2. ASSUME NEW k, NEW r \in {MonitorUp, MonitorDown, MonitorLeft, MonitorRight},
             MonitorMove(k, r)
      PROVE  MonitorStep
  <2>1. CASE io.editing
    BY <1>0, <1>1, <1>2, <2>1 DEF MonitorMove
  <2>2. CASE ~io.editing
    BY <1>0, <1>1, <1>2, <2>2, MonitorMoved DEF MonitorMove
  <2> QED
    BY <2>1, <2>2
<1>3. ASSUME NEW b \in BOOLEAN, b => OnOutput
      PROVE  LET r == [io EXCEPT !.editing = b] IN r \in IORecord /\ OnPoint(r)
  BY <1>0, <1>3 DEF IORecord, OnPoint, OnOutput
<1>4. ASSUME MonitorSelect PROVE MonitorStep
  BY <1>0, <1>1, <1>3, <1>4 DEF MonitorSelect
<1>5. ASSUME Monitor([io EXCEPT !.editing = FALSE]) PROVE MonitorStep
  BY <1>1, <1>3, <1>5
<1>6. ASSUME CloseMonitor PROVE MonitorStep
  BY <1>6 DEF CloseMonitor, ShowMonitor, MonitorStep
<1>7. ASSUME Ignore PROVE MonitorStep
  BY <1>7 DEF Ignore, MonitorStep
<1> QED
  BY <1>2, <1>4, <1>5, <1>6, <1>7 DEF InMonitor, Silently, SilentKey

LEMMA StepMonitors == MonitorOK /\ [Next]_vars => MonitorStep
<1> SUFFICES ASSUME MonitorOK, [Next]_vars PROVE MonitorStep
  OBVIOUS
<1>1. CASE HandleEvent
  BY <1>1, OutsideMonitor, InsideMonitor DEF HandleEvent
<1>2. CASE Scan \/ Timer \/ UNCHANGED vars
  BY <1>2 DEF Scan, Timer, vars, MonitorStep
<1>3. ASSUME NEW v, DataUpdates(v) PROVE MonitorStep
  BY <1>3 DEF DataUpdates, OpenAlarmLog, MonitorStep
<1> QED
  BY <1>1, <1>2, <1>3 DEF Next

LEMMA ClosedMonitor == NoIO \in IORecord
BY PageCounts DEF NoIO, IORecord

LEMMA OpenedMonitor ==
  LET r == [NoIO EXCEPT !.total = InputPages + OutputPages] IN r \in IORecord /\ OnPoint(r)
<1> DEFINE n == InputPages + OutputPages
           r == [NoIO EXCEPT !.total = n]
<1>1. n \in Nat /\ 0 < n /\ InputPages \in Nat
  BY PageCounts
<1>2. PointsOn(0) \in 1 .. PageSize /\ PageSize \in Nat
  BY <1>1, PointsType, PageCounts
<1> HIDE DEF n
<1>3. NoIO \in IORecord /\ NoIO.page = 0 /\ NoIO.selected = 0 /\ NoIO.editing = FALSE
  BY ClosedMonitor DEF NoIO
<1>4. r \in IORecord /\ r.page = 0 /\ r.selected = 0 /\ r.editing = FALSE /\ r.total = n
  BY <1>1, <1>3 DEF IORecord
<1>5. OnPoint(r)
  BY <1>1, <1>2, <1>4 DEF OnPoint, n
<1> QED
  BY <1>4, <1>5 DEF n

LEMMA MonitorKept == MonitorOK /\ MonitorStep => MonitorOK'
<1> SUFFICES ASSUME MonitorOK, MonitorStep PROVE MonitorOK'
  OBVIOUS
<1>1. CASE UNCHANGED io /\ (view' = "IO" => view = "IO")
  BY <1>1 DEF MonitorOK
<1>2. CASE io' = [NoIO EXCEPT !.total = InputPages + OutputPages]
  BY <1>2, OpenedMonitor DEF MonitorOK
<1>3. CASE view' = "NONE" /\ io' = NoIO
  BY <1>3, ClosedMonitor DEF MonitorOK
<1>4. CASE io' \in IORecord /\ OnPoint(io')
  BY <1>4 DEF MonitorOK
<1> QED
  BY <1>1, <1>2, <1>3, <1>4 DEF MonitorStep

LEMMA MonitorInvariant == Spec => []MonitorOK
<1>1. Init => MonitorOK
  BY ClosedMonitor DEF Init, MonitorOK
<1> QED
  BY <1>1, StepMonitors, MonitorKept, PTL DEF Spec

(* What is edited is under the cursor, and the selected point of the monitor *)
(* is one that exists, an output when it is about to be switched.            *)
THEOREM EditedIsOnScreen == Spec => []EditedIsShown
<1>1. Nav /\ EditOK /\ MonitorOK => EditedIsShown
  BY DEF Nav, MonitorItem, EditOK, EditHere, MonitorOK, OnPoint, OnOutput, EditedIsShown
<1> QED
  BY <1>1, NavInvariant, EditInvariant, MonitorInvariant, PTL
-----------------------------------------------------------------------------
(* Momentary keys. An event of a key that is down is of that key.            *)
EventOfKey ==
  \/ event = Keypad!NoEvent
  \/ event.type = "PRESS" /\ key.key = "NONE"
  \/ event.type \in {"LONG_PRESS", "REPEAT"} /\ event.key = key.key

Held == EventOfKey /\ active \in Momentaries \cup {NoItem} /\ MomentaryPaired

LEMMA ScanGivesEvents == Keypad!Scan => EventOfKey'
BY DEF Keypad!Scan, Keypad!ScanKeys, Keypad!KeyScan, Keypad!NoKey, Keypad!NoEvent, EventOfKey

(* What the writes of an update leave switched on. *)
LEMMA WrittenOn ==
  ASSUME on = IF active = NoItem THEN {} ELSE {active},
         active \in Momentaries \cup {NoItem},
         NEW n \in Momentaries \cup {NoItem}, n # active,
         WriteMomentary(Release(active) \o Written(n, 1))
  PROVE  on' = IF n = NoItem THEN {} ELSE {n}
<1> DEFINE w == Release(active) \o Written(n, 1)
           last(i, v) == \E k \in DOMAIN w : /\ w[k] = Write("item", i, v)
                                             /\ \A m \in DOMAIN w : m > k => w[m].to # i
<1>1. NoItem \notin Momentaries
  BY TreeAssumption DEF Momentaries
<1>2. \A i, v : WrittenLast(w, Write("item", i, v)) <=> last(i, v)
  BY DEF WrittenLast, Write
<1>3. on' = {i \in Momentaries : last(i, 1) \/ (i \in on /\ ~last(i, 0))}
  BY <1>2 DEF WriteMomentary
<1>4. \A i, j, v, x : /\ Write("item", i, v).to = i
                      /\ Write("item", i, v) = Write("item", j, x) <=> i = j /\ v = x
  BY DEF Write
<1>5. CASE active = NoItem
  <2>1. n \in Momentaries /\ n # NoItem
    BY <1>1, <1>5
  <2>2. w = <<Write("item", n, 1)>>
    BY <1>5, <2>1 DEF Release, Written
  <2> HIDE DEF w
  <2>3. DOMAIN w = {1} /\ w[1] = Write("item", n, 1)
    BY <2>2
  <2>4. \A i : last(i, 1) <=> i = n
    BY <1>4, <2>3
  <2> QED
    BY <1>3, <1>5, <2>1, <2>4
<1>6. CASE active # NoItem /\ n = NoItem
  <2>1. w = <<Write("item", active, 0)>>
    BY <1>6 DEF Release, Written
  <2> HIDE DEF w
  <2>2. DOMAIN w = {1} /\ w[1] = Write("item", active, 0)
    BY <2>1
  <2>3. \A i : ~last(i, 1) /\ (last(i, 0) <=> i = active)
    BY <1>4, <2>2
  <2> QED
    BY <1>3, <1>6, <2>3
<1>7. CASE active # NoItem /\ n # NoItem
  <2> DEFINE W == {Write("item", active, 0), Write("item", n, 1)}
             r == <<Write("item", active, 0)>>
             h == <<Write("item", n, 1)>>
  <2>1. w = r \o h
    BY <1>7 DEF Release, Written
  <2>2. r \in Seq(W) /\ h \in Seq(W) /\ Len(r) = 1 /\ Len(h) = 1
    OBVIOUS
  <2>3. Len(r \o h) = 2 /\ r \o h \in Seq(W) /\ (r \o h)[1] = r[1] /\ (r \o h)[2] = h[1]
    BY <2>2, ConcatProperties
  <2>4. DOMAIN w = {1, 2} /\ w[1] = Write("item", active, 0) /\ w[2] = Write("item", n, 1)
    BY <2>1, <2>3
  <2> HIDE DEF w
  <2>5. \A i : (last(i, 1) <=> i = n) /\ (last(i, 0) <=> i = active)
    BY <1>4, <2>4
  <2> QED
    BY <1>3, <1>7, <2>5
<1> QED
  BY <1>5, <1>6, <1>7

LEMMA HeldScan == Nav /\ Held /\ Scan => Held'
<1> SUFFICES ASSUME Nav, Held, Scan PROVE Held'
  OBVIOUS
<1> DEFINE next == IF CanHold /\ EnterPressed(key') THEN item ELSE NoItem
<1>1. EventOfKey'
  BY ScanGivesEvents DEF Scan
<1>2. UNCHANGED <<view, item, edit>>
  BY DEF Scan, nav
<1>3. next \in Momentaries \cup {NoItem}
  BY ItemType DEF CanHold, Momentaries
<1>4. next # NoItem => /\ key'.key = "ENTER" /\ next = item /\ view = "NONE" /\ ~IsEditing
  BY DEF EnterPressed, CanHold
<1>5. active' = next /\ on' = IF next = NoItem THEN {} ELSE {next}
  <2>1. CASE next = active
    BY <2>1 DEF Scan, UpdateMomentary, Held, MomentaryPaired
  <2>2. CASE next # active
    <3>1. active' = next /\ WriteMomentary(Release(active) \o Written(next, 1))
      BY <2>2 DEF Scan, UpdateMomentary
    <3> HIDE DEF next
    <3> QED
      BY <1>3, <2>2, <3>1, WrittenOn DEF Held, MomentaryPaired
  <2> QED
    BY <2>1, <2>2
<1> HIDE DEF next
<1> QED
  BY <1>1, <1>2, <1>3, <1>4, <1>5 DEF Held, MomentaryPaired, IsEditing

(* While a momentary item is held down, the events say nothing to the menu.  *)
LEMMA HeldIsQuiet ==
  Held /\ HandleEvent /\ active # NoItem => UNCHANGED <<view, item, edit>>
<1> SUFFICES ASSUME Held, HandleEvent, active # NoItem PROVE UNCHANGED <<view, item, edit>>
  OBVIOUS
<1>1. /\ event.key = "ENTER" /\ event.type # "PRESS"
      /\ view = "ALARM" \/ (view = "NONE" /\ ~IsEditing)
  BY DEF Held, EventOfKey, MomentaryPaired, HandleEvent
<1>2. CASE view = "ALARM"
  <2>1. InAlarmLog
    BY <1>2 DEF HandleEvent, InMenu, Editing, InMonitor
  <2>2. Ignore
    BY <1>1, <2>1 DEF InAlarmLog, Moves, Is, SilentKey
  <2> QED
    BY <2>2 DEF Ignore, nav
<1>3. CASE view = "NONE" /\ ~IsEditing
  <2>1. InMenu
    BY <1>3 DEF HandleEvent, Editing, InAlarmLog, InMonitor
  <2>2. Ignore
    BY <1>1, <2>1 DEF InMenu, Moves, Is, SilentKey
  <2> QED
    BY <2>2 DEF Ignore, nav
<1> QED
  BY <1>1, <1>2, <1>3

LEMMA HeldEvent == Held /\ HandleEvent => Held'
<1> SUFFICES ASSUME Held, HandleEvent PROVE Held'
  OBVIOUS
<1>1. event' = Keypad!NoEvent /\ UNCHANGED <<active, key, on>>
  BY DEF HandleEvent
<1>2. active # NoItem => UNCHANGED <<view, item, edit>>
  BY HeldIsQuiet
<1> QED
  BY <1>1, <1>2 DEF Held, EventOfKey, MomentaryPaired, IsEditing

LEMMA HeldUpdate == ASSUME Held, NEW v, DataUpdates(v) PROVE Held'
<1>1. UNCHANGED <<active, key, event, on>>
  BY DEF DataUpdates, keys
<1>2. view' = "ALARM" \/ UNCHANGED <<view, item, edit>>
  BY DEF DataUpdates, OpenAlarmLog, nav
<1> QED
  BY <1>1, <1>2 DEF Held, EventOfKey, MomentaryPaired, IsEditing

LEMMA HeldInvariant == Spec => []Held
<1>1. Init => Held
  BY DEF Init, Held, EventOfKey, MomentaryPaired, Keypad!Init, Keypad!NoEvent
<1>2. Nav /\ Held /\ [Next]_vars => Held'
  <2> SUFFICES ASSUME Nav, Held, [Next]_vars PROVE Held'
    OBVIOUS
  <2>1. CASE Timer \/ UNCHANGED vars
    <3>1. UNCHANGED <<view, item, edit, active, key, event, on>>
      BY <2>1 DEF Timer, vars, nav, keys
    <3> QED
      BY <3>1 DEF Held, EventOfKey, MomentaryPaired, IsEditing
  <2> QED
    BY <2>1, HeldScan, HeldEvent, HeldUpdate DEF Next
<1> QED
  BY <1>1, <1>2, NavInvariant, PTL DEF Spec

(* A momentary item that was written 1 is written 0 before it is forgotten.  *)
THEOREM MomentaryReleased == Spec => []MomentaryPaired
BY HeldInvariant, PTL DEF Held
-----------------------------------------------------------------------------
(* Redraws. A step asks for one, or leaves all that is drawn as it was.      *)
RedrawStep ==
  \/ need_redraw' = TRUE
  \/ need_redraw' \in {need_redraw, FALSE} /\ UNCHANGED Drawn

LEMMA NothingDrawn ==
  ASSUME UNCHANGED <<nav, view, edit, io, log, logpage, active>>
  PROVE  UNCHANGED Drawn
BY DEF nav, Drawn

LEMMA RedrawAsked ==
  ASSUME need_redraw \in BOOLEAN, NEW r, NEW s, need_redraw' = (need_redraw \/ r # s)
  PROVE  need_redraw' = TRUE \/ (r = s /\ need_redraw' = need_redraw)
OBVIOUS

LEMMA RedrawEvents == need_redraw \in BOOLEAN /\ HandleEvent => RedrawStep
<1> SUFFICES ASSUME need_redraw \in BOOLEAN, HandleEvent PROVE RedrawStep
  OBVIOUS
<1>0. UNCHANGED active
  BY DEF HandleEvent
<1>1. ASSUME Ignore PROVE RedrawStep
  BY <1>0, <1>1, NothingDrawn DEF Ignore, RedrawStep
<1>2. ASSUME NEW e, Session(e) PROVE RedrawStep
  <2>1. need_redraw' = TRUE \/ (e = edit /\ need_redraw' = need_redraw)
    BY <1>2, RedrawAsked DEF Session
  <2> QED
    BY <1>0, <1>2, <2>1, NothingDrawn DEF Session, RedrawStep
<1>3. ASSUME NEW r, Monitor(r), UNCHANGED <<view, polled>> PROVE RedrawStep
  <2>1. need_redraw' = TRUE \/ (r = io /\ need_redraw' = need_redraw)
    BY <1>3, RedrawAsked DEF Monitor
  <2> QED
    BY <1>0, <1>3, <2>1, NothingDrawn DEF Monitor, RedrawStep
<1>4. ASSUME NEW r, Row(r) PROVE RedrawStep
  <2>1. need_redraw' = TRUE \/ (r = logpage /\ need_redraw' = need_redraw)
    BY <1>4, RedrawAsked DEF Row
  <2> QED
    BY <1>0, <1>4, <2>1, NothingDrawn DEF Row, RedrawStep
<1>5. ASSUME NEW m, NEW i, Select(m, i) PROVE RedrawStep
  BY <1>5 DEF Select, RedrawStep
<1>6. CASE InMenu
  <2>1. ASSUME NEW n, Cursor(n) \/ Jump(n) PROVE RedrawStep
    BY <1>1, <1>5, <2>1 DEF Cursor, Jump
  <2>2. ASSUME NEW m, NEW h, EnterMenu(m, h) PROVE RedrawStep
    BY <1>5, <2>2 DEF EnterMenu
  <2>3. ASSUME PopHistory PROVE RedrawStep
    BY <1>5, <2>3 DEF PopHistory
  <2>4. ASSUME NEW r, OpenAlarmLog(log, r) PROVE RedrawStep
    BY <2>4 DEF OpenAlarmLog, RedrawStep
  <2>5. ASSUME OpenMonitor PROVE RedrawStep
    BY <2>5 DEF OpenMonitor, ShowMonitor, RedrawStep
  <2>6. ASSUME BeginEdit PROVE RedrawStep
    BY <1>2, <2>6 DEF BeginEdit
  <2> QED
    BY <1>1, <1>6, <2>1, <2>2, <2>3, <2>4, <2>5, <2>6 DEF InMenu, Silently, SilentKey
<1>7. CASE Editing
  BY <1>1, <1>2, <1>7 DEF Editing, Silently, SilentKey, Increase, Decrease, SmallerStep,
     LargerStep, Confirm, Cancel
<1>8. CASE InMonitor
  <2>1. ASSUME NEW k, NEW r, MonitorMove(k, r) PROVE RedrawStep
    BY <1>3, <2>1 DEF MonitorMove
  <2>2. ASSUME CloseMonitor PROVE RedrawStep
    BY <2>2 DEF CloseMonitor, ShowMonitor, RedrawStep
  <2>3. ASSUME MonitorSelect, UNCHANGED <<view, polled>> PROVE RedrawStep
    BY <1>3, <2>3 DEF MonitorSelect
  <2> QED
    BY <1>1, <1>3, <1>8, <2>1, <2>2, <2>3 DEF InMonitor, Silently, SilentKey
<1>9. CASE InAlarmLog
  <2>1. ASSUME MarkRead PROVE RedrawStep
    BY <1>0, <2>1, NothingDrawn DEF MarkRead, RedrawStep
  <2>2. ASSUME CloseAlarmLog PROVE RedrawStep
    BY <1>5, <2>2 DEF CloseAlarmLog, PopHistory, RedrawStep
  <2> QED
    BY <1>1, <1>4, <1>9, <2>1, <2>2 DEF InAlarmLog, Silently, SilentKey
<1> QED
  BY <1>6, <1>7, <1>8, <1>9 DEF HandleEvent

LEMMA Redraws == need_redraw \in BOOLEAN /\ [Next]_vars => RedrawStep
<1> SUFFICES ASSUME need_redraw \in BOOLEAN, [Next]_vars PROVE RedrawStep
  OBVIOUS
<1>1. CASE Scan
  <2>1. need_redraw' = TRUE \/ UNCHANGED <<active, need_redraw>>
    BY <1>1 DEF Scan, UpdateMomentary
  <2>2. UNCHANGED <<nav, view, edit, io, log, logpage>>
    BY <1>1 DEF Scan, logs
  <2> QED
    BY <2>1, <2>2, NothingDrawn DEF RedrawStep
<1>2. CASE Timer \/ UNCHANGED vars
  <2>1. UNCHANGED <<nav, view, edit, io, log, logpage, active>> /\ need_redraw' \in {need_redraw, FALSE}
    BY <1>2 DEF Timer, vars, logs
  <2> QED
    BY <2>1, NothingDrawn DEF RedrawStep
<1>3. ASSUME NEW v, DataUpdates(v) PROVE RedrawStep
  BY <1>3 DEF DataUpdates, OpenAlarmLog, RedrawStep
<1> QED
  BY <1>1, <1>2, <1>3, RedrawEvents DEF Next

RedrawType == need_redraw \in BOOLEAN

LEMMA RedrawInvariant == Spec => []RedrawType
<1>1. Init => RedrawType
  BY DEF Init, RedrawType
<1>2. RedrawType /\ [Next]_vars => RedrawType'
  BY Redraws DEF RedrawStep, RedrawType
<1> QED
  BY <1>1, <1>2, PTL DEF Spec

(* Nothing that is drawn changes without a redraw.                           *)
THEOREM ChangesAreDrawn == Spec => RedrawAfterChange
<1>1. RedrawType /\ [Next]_vars => [Drawn' # Drawn => need_redraw']_vars
  BY Redraws DEF RedrawStep, RedrawType
<1> QED
  BY <1>1, RedrawInvariant, PTL DEF Spec, RedrawAfterChange
-----------------------------------------------------------------------------
(* Types. push_history_snapshot never has to overwrite its last place.       *)
LEMMA HistoryFits == Nav => Len(history) <= HistorySlots
<1> SUFFICES ASSUME Nav PROVE Len(history) <= HistorySlots
  OBVIOUS
<1>1. history \in Seq(Place) /\ Len(history) \in Nat /\ HistorySlots \in Nat \ {0}
  BY SizeAssumption DEF Nav, NavType
<1>2. CASE history = << >>
  BY <1>1, <1>2
<1>3. CASE history # << >>
  <2>1. Len(history) \in DOMAIN history /\ history[Len(history)] \in Place
    BY <1>1, <1>3
  <2>2. history[Len(history)].menu \in Menus
    BY <2>1 DEF Place
  <2>3. Len(history) <= Level[history[Len(history)].menu] + 1
    BY <2>1 DEF Nav, NotTooDeep, Deep
  <2> QED
    BY <1>1, <2>2, <2>3, LevelType
<1> QED
  BY <1>2, <1>3

(* Every variable of the menu keeps its type, and the history never has more *)
(* entries than history_stack has places.                                    *)
THEOREM TypeCorrect == Spec => []TypeOK
<1>1. Nav /\ Logged /\ EditOK /\ MonitorOK /\ Held /\ RedrawType => TypeOK
  <2> SUFFICES ASSUME Nav, Logged, EditOK, MonitorOK, Held, RedrawType PROVE TypeOK
    OBVIOUS
  <2>1. menu \in Menus \cup {AlarmMenu} /\ item \in Items \cup {AlarmMenu}
    BY ItemType DEF Nav, NavType
  <2>2. \A i \in DOMAIN history : history[i].menu \in Menus /\ history[i].item \in Items
    <3>1. \A i \in DOMAIN history : history[i] \in Place
      BY DEF Nav, NavType
    <3> QED
      BY <3>1 DEF Place
  <2>3. IsEditing => edit.item \in Editable /\ edit.step \in DOMAIN Steps
    BY ValueAssumption DEF EditOK, EditType, EditRecord, IsEditing
  <2>4. io.page \in Nat /\ io.selected \in 0 .. PageSize - 1 /\ io.editing \in BOOLEAN
    BY DEF MonitorOK, IORecord
  <2>5. on \subseteq Momentaries
    BY DEF Held, MomentaryPaired
  <2> QED
    BY <2>1, <2>2, <2>3, <2>4, <2>5, HistoryFits
    DEF TypeOK, Nav, NavType, Logged, LogType, Held, RedrawType
<1> QED
  BY <1>1, NavInvariant, LogInvariant, EditInvariant, MonitorInvariant, HeldInvariant,
     RedrawInvariant, PTL
-----------------------------------------------------------------------------
(* What is written. *)
SoundWrites == \A n \in DOMAIN wrote' : WriteIsSound(wrote'[n])

LEMMA NoWrite == wrote' = << >> => SoundWrites
BY DEF SoundWrites

LEMMA OneWrite == ASSUME NEW w, wrote' = <<w>>, WriteIsSound(w) PROVE SoundWrites
<1>1. \A n \in DOMAIN wrote' : wrote'[n] = w
  OBVIOUS
<1> QED
  BY <1>1 DEF SoundWrites

LEMMA ConfirmWrites == EditOK /\ Confirm /\ IsEditing => SoundWrites
<1> SUFFICES ASSUME EditOK, Confirm, IsEditing PROVE SoundWrites
  OBVIOUS
<1>1. CASE edit.pending = edit.original
  BY <1>1, NoWrite DEF Confirm
<1>2. CASE edit.pending # edit.original
  <2> DEFINE w == Write("item", edit.item, edit.pending)
  <2>1. wrote' = <<w>>
    BY <1>2 DEF Confirm
  <2>2. w.kind = "item" /\ w.to = edit.item /\ w.value = edit.pending
    BY DEF Write
  <2> HIDE DEF w
  <2>3. /\ edit.item = item
        /\ edit.original \in RangeOf(edit.item) => edit.pending \in RangeOf(edit.item)
    BY DEF EditOK, EditHere, EditInRange
  <2>4. WriteIsSound(w)
    BY <1>2, <2>2, <2>3 DEF WriteIsSound
  <2> QED
    BY <2>1, <2>4, OneWrite
<1> QED
  BY <1>1, <1>2

LEMMA SwitchWrites == MonitorOK /\ view = "IO" /\ MonitorSelect => SoundWrites
<1> SUFFICES ASSUME MonitorOK, view = "IO", MonitorSelect, wrote' # << >> PROVE SoundWrites
  BY NoWrite
<1> DEFINE o == io.page - InputPages
           n == o * PageSize + io.selected
<1>1. OnOutput /\ \E bit \in {0, 1} : wrote' = <<Write("output", n, 1 - bit)>>
  BY DEF MonitorSelect
<1>2. /\ io.page \in Nat /\ io.selected \in Nat /\ io.page < InputPages + OutputPages
      /\ io.selected < PointsOn(io.page)
  BY RecordFacts DEF MonitorOK, OnPoint
<1>3. o \in Nat /\ o < OutputPages /\ ~(io.page < InputPages)
  BY <1>1, <1>2, PageCounts DEF OnOutput
<1>4. o * PageSize \in Nat /\ o * PageSize < Outputs
  BY <1>3, Ceiling, SizeAssumption DEF OutputPages
<1>5. PointsOn(io.page) = Least(Outputs - o * PageSize, PageSize)
  BY <1>3 DEF PointsOn
<1>6. n \in 0 .. Outputs - 1
  BY <1>2, <1>4, <1>5, SizeAssumption DEF Least
<1> HIDE DEF n
<1>7. ASSUME NEW v PROVE WriteIsSound(Write("output", n, v))
  <2>1. Write("output", n, v).kind = "output" /\ Write("output", n, v).to = n
    BY DEF Write
  <2> QED
    BY <1>6, <2>1 DEF WriteIsSound
<1> QED
  BY <1>1, <1>7, OneWrite

LEMMA EventWrites == EditOK /\ MonitorOK /\ HandleEvent => SoundWrites
<1> SUFFICES ASSUME EditOK, MonitorOK, HandleEvent PROVE SoundWrites
  OBVIOUS
<1>1. CASE InMenu
  BY <1>1, NoWrite DEF InMenu, Silently, SilentKey
<1>2. CASE Editing
  BY <1>2, NoWrite, ConfirmWrites DEF Editing, Silently, SilentKey
<1>3. CASE InMonitor
  <2>1. ASSUME NEW k, NEW r, MonitorMove(k, r) PROVE SoundWrites
    BY <2>1, NoWrite DEF MonitorMove
  <2> QED
    BY <1>3, <2>1, NoWrite, SwitchWrites DEF InMonitor, Silently, SilentKey
<1>4. CASE InAlarmLog
  BY <1>4, NoWrite DEF InAlarmLog, Silently, SilentKey
<1> QED
  BY <1>1, <1>2, <1>3, <1>4 DEF HandleEvent

LEMMA ScanWrites == Nav /\ Held /\ Scan => SoundWrites
<1> SUFFICES ASSUME Nav, Held, Scan PROVE SoundWrites
  OBVIOUS
<1> DEFINE next == IF CanHold /\ EnterPressed(key') THEN item ELSE NoItem
           W == {Write("item", i, v) : i \in Momentaries, v \in {0, 1}}
<1>1. next \in Momentaries \cup {NoItem} /\ active \in Momentaries \cup {NoItem}
  BY ItemType DEF CanHold, Momentaries, Held
<1>2. wrote' = << >> \/ wrote' = Release(active) \o Written(next, 1)
  BY DEF Scan, UpdateMomentary, WriteMomentary
<1> HIDE DEF next
<1>3. Release(active) \in Seq(W) /\ Written(next, 1) \in Seq(W)
  <2>1. \A w \in W : <<w>> \in Seq(W)
    OBVIOUS
  <2>2. ASSUME NEW i \in Momentaries, NEW v \in {0, 1} PROVE Write("item", i, v) \in W
    OBVIOUS
  <2> HIDE DEF W
  <2>3. ASSUME NEW i \in Momentaries \cup {NoItem}, NEW v \in {0, 1} PROVE Written(i, v) \in Seq(W)
    BY <2>1, <2>2, <2>3 DEF Written
  <2> QED
    BY <1>1, <2>3 DEF Release
<1>4. wrote' \in Seq(W)
  <2> DEFINE r == Release(active)
             h == Written(next, 1)
  <2>1. r \o h \in Seq(W) /\ << >> \in Seq(W)
    <3> HIDE DEF r, h, W
    <3>1. r \in Seq(W) /\ h \in Seq(W)
      BY <1>3 DEF r, h
    <3> QED
      BY <3>1, ConcatProperties
  <2> HIDE DEF W
  <2> QED
    BY <1>2, <2>1
<1>5. ASSUME NEW w \in W PROVE WriteIsSound(w)
  <2>1. PICK i \in Momentaries, v \in {0, 1} : w = Write("item", i, v)
    OBVIOUS
  <2>2. w.kind = "item" /\ w.to = i
    BY <2>1 DEF Write
  <2>3. i \notin Editable
    BY DEF Momentaries, Editable
  <2> QED
    BY <2>2, <2>3 DEF WriteIsSound
<1> HIDE DEF W
<1>6. \A n \in DOMAIN wrote' : wrote'[n] \in W
  BY <1>4
<1> QED
  BY <1>5, <1>6 DEF SoundWrites

(* Edit sessions write in range and to the item under the cursor, the        *)
(* monitor to an output that exists.                                         *)
THEOREM SoundlyWritten == Spec => WritesAreSound
<1>1. Nav /\ EditOK /\ MonitorOK /\ Held /\ [Next]_vars
      => [\A n \in DOMAIN wrote' : WriteIsSound(wrote'[n])]_vars
  <2> SUFFICES ASSUME Nav, EditOK, MonitorOK, Held, Next PROVE SoundWrites
    BY DEF SoundWrites
  <2>1. ASSUME NEW v, DataUpdates(v) PROVE wrote' = << >>
    BY <2>1 DEF DataUpdates
  <2>2. CASE Timer
    BY <2>2, NoWrite DEF Timer
  <2> QED
    BY <2>1, <2>2, NoWrite, EventWrites, ScanWrites DEF Next
<1> QED
  BY <1>1, NavInvariant, EditInvariant, MonitorInvariant, HeldInvariant, PTL
  DEF Spec, WritesAreSound
-----------------------------------------------------------------------------
(* The cursor of the log. Pages are counted by the rows they start at; going *)
(* through the rows no page is skipped, so every page up to the last has a   *)
(* row.                                                                      *)
Less == {p \in Nat \X Nat : p[1] < p[2]}

LEMMA LessIsWellFounded == IsWellFoundedOn(Less, Nat)
BY NatLessThanWellFounded DEF OpToRel, Less

LEMMA LeastNumber ==
  ASSUME NEW T \in SUBSET Nat, T # {}
  PROVE  \E x \in T : \A y \in T : ~(y < x)
<1>1. PICK x \in T : \A y \in T : ~(<<y, x>> \in Less)
  BY LessIsWellFounded, WFMin
<1> QED
  BY <1>1 DEF Less

StartsTo(start, i) == {start[j] : j \in 1 .. i}

LEMMA StartsFinite ==
  ASSUME NEW start, NEW i \in Nat
  PROVE  IsFiniteSet(StartsTo(start, i)) /\ Cardinality(StartsTo(start, i)) \in Nat
<1> DEFINE f == [j \in 1 .. i |-> start[j]]
<1>1. f \in Surjection(1 .. i, StartsTo(start, i))
  BY DEF Surjection, StartsTo
<1>2. IsFiniteSet(1 .. i)
  BY FS_Interval
<1>3. IsFiniteSet(StartsTo(start, i))
  BY <1>1, <1>2, FS_Surjection
<1> QED
  BY <1>3, FS_CardinalityType

LEMMA NextStart ==
  ASSUME NEW start, NEW i \in Nat
  PROVE  Cardinality(StartsTo(start, i + 1)) <= Cardinality(StartsTo(start, i)) + 1
<1>1. StartsTo(start, i + 1) = StartsTo(start, i) \cup {start[i + 1]}
  BY DEF StartsTo
<1>2. IsFiniteSet(StartsTo(start, i)) /\ Cardinality(StartsTo(start, i)) \in Nat
  BY StartsFinite
<1> DEFINE S == StartsTo(start, i)
           x == start[i + 1]
<1> HIDE DEF S, x
<1>3. Cardinality(S \cup {x}) = IF x \in S THEN Cardinality(S) ELSE Cardinality(S) + 1
  BY <1>2, FS_AddElement DEF S
<1>4. Cardinality(S \cup {x}) <= Cardinality(S) + 1
  BY <1>2, <1>3 DEF S
<1> QED
  BY <1>1, <1>4 DEF S, x

LEMMA NoPageSkipped ==
  ASSUME NEW start, NEW n \in Nat, NEW k \in 1 .. Cardinality(StartsTo(start, n))
  PROVE  \E i \in 1 .. n : Cardinality(StartsTo(start, i)) = k
<1> DEFINE c(i) == Cardinality(StartsTo(start, i))
           T == {i \in 0 .. n : c(i) >= k}
<1>1. \A i \in Nat : c(i) \in Nat /\ c(i + 1) <= c(i) + 1
  BY StartsFinite, NextStart
<1>2. c(0) = 0
  <2>1. StartsTo(start, 0) = {}
    BY DEF StartsTo
  <2> QED
    BY <2>1, FS_EmptySet
<1>3. k \in Nat /\ k > 0 /\ k <= c(n)
  BY <1>1
<1> HIDE DEF c
<1>4. PICK i \in T : \A j \in T : ~(j < i)
  <2>1. n \in T /\ T \subseteq Nat
    BY <1>1, <1>3
  <2> QED
    BY <2>1, LeastNumber
<1>5. i \in 1 .. n /\ i - 1 \in 0 .. n /\ i - 1 \notin T
  BY <1>2, <1>3, <1>4
<1>6. c(i) >= k /\ ~(c(i - 1) >= k) /\ c(i) <= c(i - 1) + 1
  <2>1. i - 1 \in Nat /\ (i - 1) + 1 = i
    BY <1>5
  <2>2. c(i) <= c(i - 1) + 1
    BY <1>1, <2>1
  <2> QED
    BY <1>4, <1>5, <2>2
<1>7. c(i) = k
  <2>1. c(i) \in Nat /\ c(i - 1) \in Nat /\ k \in Nat
    BY <1>1, <1>3, <1>5
  <2>2. \A a, b, m \in Nat : a >= m /\ ~(b >= m) /\ a <= b + 1 => a = m
    OBVIOUS
  <2> QED
    BY <1>6, <2>1, <2>2
<1> QED
  BY <1>5, <1>7 DEF c

LEMMA PagesOfStarts ==
  ASSUME NEW start, NEW n \in Nat \ {0}, DOMAIN start = 1 .. n
  PROVE  LET total == Cardinality(StartsTo(start, n))
         IN /\ total \in Nat \ {0}
            /\ \A k : PageAt(start, k).total = total /\ PageAt(start, k).count \in Nat
            /\ \A k \in 1 .. total : PageAt(start, k).count > 0
<1> DEFINE total == Cardinality(StartsTo(start, n))
           rows(i) == {j \in DOMAIN start : start[j] = start[i]}
<1>1. total \in Nat \ {0}
  <2>1. start[1] \in StartsTo(start, n)
    BY DEF StartsTo
  <2> QED
    BY <2>1, StartsFinite, FS_EmptySet
<1>2. \A i : PageOf(start, i).total = total /\ PageOf(start, i).count = Cardinality(rows(i))
             /\ PageOf(start, i).number = Cardinality(StartsTo(start, i))
  BY DEF PageOf, StartsTo
<1>3. \A i : IsFiniteSet(rows(i)) /\ Cardinality(rows(i)) \in Nat
  <2> SUFFICES ASSUME NEW i PROVE IsFiniteSet(rows(i)) /\ Cardinality(rows(i)) \in Nat
    OBVIOUS
  <2>1. rows(i) \in SUBSET (1 .. n) /\ IsFiniteSet(1 .. n)
    BY FS_Interval
  <2> HIDE DEF rows
  <2> QED
    BY <2>1, FS_Subset, FS_CardinalityType
<1>4. \A i \in 1 .. n : Cardinality(rows(i)) > 0
  <2> SUFFICES ASSUME NEW i \in 1 .. n PROVE Cardinality(rows(i)) > 0
    OBVIOUS
  <2>1. i \in rows(i)
    OBVIOUS
  <2> HIDE DEF rows
  <2> QED
    BY <1>3, <2>1, FS_EmptySet
<1>5. ASSUME NEW k
      PROVE  \E i : PageAt(start, k) = PageOf(start, i)
                    /\ (k \in 1 .. total => i \in 1 .. n)
  <2> DEFINE i == CHOOSE i \in DOMAIN start : PageOf(start, i).number = k
  <2>1. PageAt(start, k) = PageOf(start, i)
    BY DEF PageAt
  <2>2. ASSUME k \in 1 .. total PROVE i \in 1 .. n
    <3>1. \E j \in 1 .. n : Cardinality(StartsTo(start, j)) = k
      BY <2>2, NoPageSkipped
    <3>2. \E j \in DOMAIN start : PageOf(start, j).number = k
      BY <1>2, <3>1
    <3> QED
      BY <3>2
  <2> QED
    BY <2>1, <2>2
<1> HIDE DEF rows
<1> QED
  BY <1>1, <1>2, <1>3, <1>4, <1>5

LEMMA LogPageFacts ==
  ASSUME NEW l \in Seq(LogEntry)
  PROVE  LET total == LogPage(l, 0).total
         IN /\ total \in Nat \ {0}
            /\ \A p : LogPage(l, p).total = total /\ LogPage(l, p).count \in Nat
            /\ l # << >> => \A p \in Nat : p < total => LogPage(l, p).count > 0
<1>1. CASE l = << >>
  BY <1>1 DEF LogPage
<1>2. CASE l # << >>
  <2> DEFINE start == LogPages(l)
             n == Len(l)
             total == Cardinality(StartsTo(start, n))
             h == [i \in DOMAIN l |-> AlarmHeight[l[i].value]]
  <2>1. n \in Nat \ {0} /\ DOMAIN l = 1 .. n
    BY <1>2
  <2>2. Len(h) = n
    <3>1. h \in Seq({h[i] : i \in 1 .. n})
      BY <2>1
    <3> QED
      BY <2>1, <3>1
  <2>3. DOMAIN start = 1 .. n
    BY <2>2 DEF LogPages, StartOf
  <2> HIDE DEF start, n
  <2>4. /\ total \in Nat \ {0}
        /\ \A k : PageAt(start, k).total = total /\ PageAt(start, k).count \in Nat
        /\ \A k \in 1 .. total : PageAt(start, k).count > 0
    BY <2>1, <2>3, PagesOfStarts
  <2>5. \A p : /\ LogPage(l, p).total = PageAt(start, p + 1).total
               /\ LogPage(l, p).count = PageAt(start, p + 1).count
    BY <1>2 DEF LogPage, start
  <2> HIDE DEF total
  <2>6. \A p \in Nat : p < total => p + 1 \in 1 .. total
    BY <2>4
  <2> QED
    BY <2>4, <2>5, <2>6
<1> QED
  BY <1>1, <1>2

(* Row x of page p of the log l. *)
RowAt(l, p, x) ==
  [page |-> p, total |-> LogPage(l, p).total, start |-> LogPage(l, p).start, row |-> x]

IsRow(l, r) ==
  \E p, x \in Nat : /\ r = RowAt(l, p, x)
                    /\ p < LogPage(l, 0).total /\ x <= LogPage(l, p).count

RowOK == IsRow(log, logpage)

LEMMA SyncedIsRow ==
  ASSUME NEW l \in Seq(LogEntry), NEW p \in Nat, NEW x \in Nat
  PROVE  IsRow(l, Synced(l, p, x))
<1> DEFINE q == Least(p, LogPage(l, 0).total - 1)
           y == Least(x, LogPage(l, q).count)
<1>1. q \in Nat /\ q < LogPage(l, 0).total
  BY LogPageFacts DEF Least
<1>2. y \in Nat /\ y <= LogPage(l, q).count
  BY LogPageFacts DEF Least
<1>3. Synced(l, p, x) = RowAt(l, q, y)
  BY DEF Synced, RowAt
<1> HIDE DEF q, y
<1> QED
  BY <1>1, <1>2, <1>3 DEF IsRow

LEMMA RowMoved ==
  ASSUME NEW l, NEW r, IsRow(l, r), NEW y \in Nat, y <= LogPage(l, r.page).count
  PROVE  IsRow(l, [r EXCEPT !.row = y])
<1>1. PICK p \in Nat, x \in Nat : /\ r = RowAt(l, p, x)
                    /\ p < LogPage(l, 0).total /\ x <= LogPage(l, p).count
  BY DEF IsRow
<1>2. r.page = p /\ [r EXCEPT !.row = y] = RowAt(l, p, y)
  BY <1>1 DEF RowAt
<1> QED
  BY <1>1, <1>2 DEF IsRow

LEMMA RowFacts ==
  ASSUME NEW l \in Seq(LogEntry), NEW r, IsRow(l, r)
  PROVE  /\ r.page \in Nat /\ r.row \in Nat /\ r.total = LogPage(l, 0).total
         /\ r.page < r.total /\ r.row <= LogPage(l, r.page).count
         /\ LogPage(l, r.page).count \in Nat /\ r.total \in Nat
         /\ r.start = LogPage(l, r.page).start
<1>1. PICK p \in Nat, x \in Nat : /\ r = RowAt(l, p, x)
                    /\ p < LogPage(l, 0).total /\ x <= LogPage(l, p).count
  BY DEF IsRow
<1>2. r.page = p /\ r.row = x /\ r.total = LogPage(l, p).total /\ r.start = LogPage(l, p).start
  BY <1>1 DEF RowAt
<1> QED
  BY <1>1, <1>2, LogPageFacts

LEMMA OffHeadingIsRow ==
  ASSUME NEW l \in Seq(LogEntry), NEW r, IsRow(l, r)
  PROVE  IsRow(l, OffHeading(l, r))
<1>1. LogPage(l, r.page).count \in Nat
  BY RowFacts
<1>2. CASE r.row = 0 /\ RowsOn(l, r.page) > 0
  <2>1. IsRow(l, [r EXCEPT !.row = 1])
    <3>1. 1 \in Nat /\ 1 <= LogPage(l, r.page).count
      BY <1>1, <1>2 DEF RowsOn
    <3> QED
      BY <3>1, RowMoved
  <2> QED
    BY <1>2, <2>1 DEF OffHeading
<1>3. CASE ~(r.row = 0 /\ RowsOn(l, r.page) > 0)
  BY <1>3 DEF OffHeading
<1> QED
  BY <1>2, <1>3

LEMMA OpenedAtRow ==
  ASSUME NEW l \in Seq(LogEntry), NEW r, r.page \in Nat, r.row \in Nat, OpenAlarmLog(l, r)
  PROVE  IsRow(l, logpage')
BY SyncedIsRow, OffHeadingIsRow DEF OpenAlarmLog

LEMMA LogMovedToRow ==
  ASSUME Logged, RowOK, NEW r \in {LogUp, LogDown, LogLeft, LogRight}
  PROVE  IsRow(log, r)
<1>1. log \in Seq(LogEntry) /\ IsRow(log, logpage)
  BY DEF Logged, LogType, RowOK
<1>2. /\ logpage.page \in Nat /\ logpage.row \in Nat /\ logpage.total = LogPage(log, 0).total
      /\ logpage.page < logpage.total /\ logpage.row <= LogPage(log, logpage.page).count
      /\ LogPage(log, logpage.page).count \in Nat /\ logpage.total \in Nat
  BY <1>1, RowFacts
<1>3. \A p, x \in Nat : IsRow(log, Synced(log, p, x))
  BY <1>1, SyncedIsRow
<1>4. ASSUME NEW p \in Nat, p < logpage.total, NEW x \in Nat, x <= LogPage(log, p).count
      PROVE  IsRow(log, [Synced(log, p, 0) EXCEPT !.row = x])
  <2>1. IsRow(log, Synced(log, p, 0))
    BY <1>3
  <2>2. Synced(log, p, 0).page = p
    BY <1>2, <1>4, LogPageFacts DEF Synced, Least
  <2> QED
    BY <1>4, <2>1, <2>2, RowMoved
<1>5. CASE r = LogUp
  <2>1. CASE logpage.row > 0
    <3>1. logpage.row - 1 \in Nat /\ logpage.row - 1 <= LogPage(log, logpage.page).count
      BY <1>2, <2>1
    <3>2. r = [logpage EXCEPT !.row = logpage.row - 1]
      BY <1>5, <2>1 DEF LogUp
    <3> QED
      BY <1>1, <3>1, <3>2, RowMoved
  <2>2. CASE ~(logpage.row > 0) /\ logpage.page > 0
    <3> DEFINE p == logpage.page - 1
    <3>1. p \in Nat /\ p < logpage.total /\ LogPage(log, p).count \in Nat
      BY <1>1, <1>2, <2>2, LogPageFacts
    <3>2. r = [Synced(log, p, 0) EXCEPT !.row = LogPage(log, p).count]
      BY <1>5, <2>2 DEF LogUp, RowsOn
    <3> HIDE DEF p
    <3> QED
      BY <1>4, <3>1, <3>2
  <2> QED
    BY <1>1, <1>5, <2>1, <2>2 DEF LogUp
<1>6. CASE r = LogDown
  <2>1. CASE logpage.row < LogPage(log, logpage.page).count
    <3>1. logpage.row + 1 \in Nat /\ logpage.row + 1 <= LogPage(log, logpage.page).count
      BY <1>2, <2>1
    <3>2. r = [logpage EXCEPT !.row = logpage.row + 1]
      BY <1>6, <2>1 DEF LogDown, RowsOn
    <3> QED
      BY <1>1, <3>1, <3>2, RowMoved
  <2>2. CASE ~(logpage.row < LogPage(log, logpage.page).count) /\ logpage.page + 1 < logpage.total
    <3> DEFINE p == logpage.page + 1
    <3>1. p \in Nat /\ p < logpage.total
      BY <1>2, <2>2
    <3>2. log # << >>
      <4>1. LogPage(<< >>, 0).total = 1
        BY DEF LogPage
      <4> QED
        BY <1>2, <2>2, <4>1
    <3>3. 1 \in Nat /\ 1 <= LogPage(log, p).count
      BY <1>1, <1>2, <3>1, <3>2, LogPageFacts
    <3>4. r = [Synced(log, p, 0) EXCEPT !.row = 1]
      BY <1>6, <2>2 DEF LogDown, RowsOn
    <3> HIDE DEF p
    <3> QED
      BY <1>4, <3>1, <3>3, <3>4
  <2> QED
    BY <1>1, <1>6, <2>1, <2>2 DEF LogDown, RowsOn
<1>7. CASE r = LogLeft
  <2>1. CASE logpage.page > 0
    <3>1. logpage.page - 1 \in Nat
      BY <1>2, <2>1
    <3> QED
      BY <1>2, <1>3, <1>7, <2>1, <3>1 DEF LogLeft
  <2> QED
    BY <1>1, <1>7, <2>1 DEF LogLeft
<1>8. CASE r = LogRight
  <2>1. CASE logpage.page + 1 < logpage.total
    <3>1. IsRow(log, Synced(log, logpage.page + 1, logpage.row))
      BY <1>2, <1>3
    <3> QED
      BY <1>1, <1>8, <2>1, <3>1, OffHeadingIsRow DEF LogRight
  <2> QED
    BY <1>1, <1>8, <2>1 DEF LogRight
<1> QED
  BY <1>5, <1>6, <1>7, <1>8

(* Reading entries does not change the pages. *)
SameValues(l, k) ==
  DOMAIN k = DOMAIN l /\ \A i \in DOMAIN l : k[i].value = l[i].value

LEMMA RowsStay ==
  ASSUME NEW l \in Seq(LogEntry), NEW k \in Seq(LogEntry), SameValues(l, k),
         NEW r, IsRow(l, r)
  PROVE  IsRow(k, r)
<1>1. l = << >> <=> k = << >>
  BY DEF SameValues
<1>2. LogPages(k) = LogPages(l)
  <2>1. [i \in DOMAIN k |-> AlarmHeight[k[i].value]] = [i \in DOMAIN l |-> AlarmHeight[l[i].value]]
    BY DEF SameValues
  <2> QED
    BY <2>1 DEF LogPages
<1>3. \A p : LogPage(k, p) = LogPage(l, p)
  BY <1>1, <1>2 DEF LogPage
<1> QED
  BY <1>3 DEF IsRow, RowAt

RowStep ==
  \/ UNCHANGED logpage /\ SameValues(log, log')
  \/ IsRow(log', logpage')

LEMMA EventRows == Logged /\ RowOK /\ HandleEvent => RowStep
<1> SUFFICES ASSUME Logged, RowOK, HandleEvent PROVE RowStep
  OBVIOUS
<1>0. ASSUME UNCHANGED <<log, logpage>> PROVE RowStep
  BY <1>0 DEF RowStep, SameValues
<1>1. ASSUME Ignore PROVE RowStep
  BY <1>0, <1>1 DEF Ignore
<1>2. CASE InMenu
  <2>1. ASSUME NEW n, Cursor(n) \/ Jump(n) PROVE RowStep
    BY <1>0, <1>1, <2>1 DEF Cursor, Jump
  <2>2. ASSUME NEW m, NEW h, EnterMenu(m, h) PROVE RowStep
    BY <1>0, <2>2 DEF EnterMenu
  <2>3. ASSUME OpenAlarmLog(log, logpage), UNCHANGED log PROVE RowStep
    <3>1. log \in Seq(LogEntry) /\ logpage.page \in Nat /\ logpage.row \in Nat
      BY RowFacts DEF Logged, LogType, RowOK
    <3> QED
      BY <2>3, <3>1, OpenedAtRow DEF RowStep
  <2>4. ASSUME OpenMonitor \/ BeginEdit PROVE RowStep
    BY <1>0, <2>4 DEF OpenMonitor, ShowMonitor, BeginEdit, Session
  <2> QED
    BY <1>0, <1>1, <1>2, <2>1, <2>2, <2>3, <2>4 DEF InMenu, Silently, SilentKey
<1>3. CASE Editing
  <2>1. ASSUME NEW e, Session(e) PROVE RowStep
    BY <1>0, <2>1 DEF Session
  <2> QED
    BY <1>1, <1>3, <2>1 DEF Editing, Silently, SilentKey, Increase, Decrease, SmallerStep,
       LargerStep, Confirm, Cancel
<1>4. CASE InMonitor
  <2>1. ASSUME NEW r, Monitor(r) PROVE RowStep
    BY <1>0, <2>1 DEF Monitor
  <2>2. ASSUME NEW k, NEW r, MonitorMove(k, r) PROVE RowStep
    BY <2>1, <2>2 DEF MonitorMove
  <2>3. ASSUME CloseMonitor \/ MonitorSelect PROVE RowStep
    BY <1>0, <2>1, <2>3 DEF CloseMonitor, ShowMonitor, MonitorSelect
  <2> QED
    BY <1>1, <1>4, <2>1, <2>2, <2>3 DEF InMonitor, Silently, SilentKey
<1>5. CASE InAlarmLog
  <2>1. ASSUME NEW r \in {LogUp, LogDown, LogLeft, LogRight}, Row(r) PROVE RowStep
    BY <2>1, LogMovedToRow DEF Row, RowStep
  <2>2. ASSUME MarkRead PROVE RowStep
    <3>1. CASE UNCHANGED log
      BY <1>0, <2>2, <3>1 DEF MarkRead
    <3>2. ASSUME NEW n \in DOMAIN log, log' = [log EXCEPT ![n].unread = FALSE] PROVE RowStep
      <4>1. \A i \in DOMAIN log : log[i] \in LogEntry
        BY DEF Logged, LogType
      <4>2. SameValues(log, log')
        BY <3>2, <4>1 DEF SameValues, LogEntry
      <4> QED
        BY <2>2, <4>2 DEF MarkRead, RowStep
    <3> QED
      BY <2>2, <3>1, <3>2 DEF MarkRead
  <2>3. ASSUME CloseAlarmLog PROVE RowStep
    BY <1>0, <2>3 DEF CloseAlarmLog
  <2> QED
    BY <1>1, <1>5, <2>1, <2>2, <2>3 DEF InAlarmLog, Silently, SilentKey
<1> QED
  BY <1>2, <1>3, <1>4, <1>5 DEF HandleEvent

LEMMA UpdateRows ==
  ASSUME RowOK, Logged, Logged', NEW v, DataUpdates(v)
  PROVE  RowStep
<1>1. log \in Seq(LogEntry) /\ log' \in Seq(LogEntry)
  BY DEF Logged, LogType
<1>2. CASE NewAlarm(v)
  <2> DEFINE s == Synced(log', 0, logpage.row)
             r == [s EXCEPT !.row = 1]
  <2>1. logpage.row \in Nat
    BY <1>1, RowFacts DEF RowOK
  <2>2. IsRow(log', s)
    BY <1>1, <2>1, SyncedIsRow
  <2>3. r.page = s.page /\ r.row = 1
    BY DEF Synced
  <2>4. s.page \in Nat
    BY <1>1, <2>2, RowFacts
  <2>5. OpenAlarmLog(log', r)
    BY <1>2 DEF DataUpdates
  <2> HIDE DEF s, r
  <2> QED
    BY <1>1, <2>3, <2>4, <2>5, OpenedAtRow DEF RowStep
<1>3. CASE ~NewAlarm(v)
  <2>1. UNCHANGED logpage /\ (log' = log \/ log' = AllRead)
    BY <1>3 DEF DataUpdates
  <2>2. \A i \in DOMAIN log : log[i] \in LogEntry
    BY <1>1
  <2> QED
    BY <2>1, <2>2 DEF RowStep, SameValues, AllRead, LogEntry
<1> QED
  BY <1>2, <1>3

(* The cursor of the log is on its heading or on an entry of the page shown. *)
THEOREM CursorOnEntry == Spec => []AlarmRowShown
<1>1. Init => RowOK
  <2> SUFFICES ASSUME Init PROVE RowOK
    OBVIOUS
  <2>1. log = << >> /\ logpage = [page |-> 0, total |-> 1, start |-> 0, row |-> 0]
    BY DEF Init
  <2>2. \A p : LogPage(<< >>, p) = [total |-> 1, start |-> 0, count |-> 0]
    BY DEF LogPage
  <2>3. logpage = RowAt(<< >>, 0, 0)
    BY <2>1, <2>2 DEF RowAt
  <2> QED
    BY <2>1, <2>2, <2>3 DEF RowOK, IsRow
<1>2. Logged /\ Logged' /\ RowOK /\ [Next]_vars => RowOK'
  <2> SUFFICES ASSUME Logged, Logged', RowOK, [Next]_vars PROVE RowOK'
    OBVIOUS
  <2>1. RowStep
    <3>1. CASE Scan \/ Timer \/ UNCHANGED vars
      <4>1. UNCHANGED <<log, logpage>>
        BY <3>1 DEF Scan, Timer, vars, logs
      <4> QED
        BY <4>1 DEF RowStep, SameValues
    <3> QED
      BY <3>1, EventRows, UpdateRows DEF Next
  <2>2. log \in Seq(LogEntry) /\ log' \in Seq(LogEntry)
    BY DEF Logged, LogType
  <2> QED
    BY <2>1, <2>2, RowsStay DEF RowStep, RowOK
<1>3. Logged /\ RowOK => AlarmRowShown
  <2> SUFFICES ASSUME Logged, RowOK PROVE AlarmRowShown
    OBVIOUS
  <2>1. log \in Seq(LogEntry)
    BY DEF Logged, LogType
  <2>2. LogPage(log, logpage.page).total = LogPage(log, 0).total
    BY <2>1, LogPageFacts
  <2> QED
    BY <2>1, <2>2, RowFacts DEF RowOK, AlarmRowShown
<1> QED
  BY <1>1, <1>2, <1>3, LogInvariant, PTL DEF Spec
=============================================================================
