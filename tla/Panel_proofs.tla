---------------------------- MODULE Panel_proofs ----------------------------
(***************************************************************************)
(* Proofs about Panel, for every set of keys and every choice of the times.*)
(***************************************************************************)
EXTENDS Panel, FiniteSetTheorems, SequenceTheorems, TLAPS


-----------------------------------------------------------------------------
(* The keys that report, in order: none or one.                              *)

LEMMA InOrderNone ==
  InOrder({}) = << >>
<1>1. Cardinality({}) = 0
  BY FS_EmptySet
<1>2. << >> \in [1 .. 0 -> {}]
  OBVIOUS
<1>3. \A s \in [1 .. 0 -> {}] : s = << >>
  OBVIOUS
<1> QED
  BY <1>1, <1>2, <1>3 DEF InOrder

LEMMA InOrderOne ==
  ASSUME NEW k
  PROVE  InOrder({k}) = <<k>>
<1>1. Cardinality({k}) = 1
  BY FS_Singleton
<1>2. /\ <<k>> \in [1 .. 1 -> {k}]
      /\ \A i, j \in DOMAIN <<k>> : i < j => <<k>>[i] < <<k>>[j]
  OBVIOUS
<1>3. \A s \in [1 .. 1 -> {k}] : s = <<k>>
  OBVIOUS
<1> QED
  BY <1>1, <1>2, <1>3 DEF InOrder

LEMMA PushedNone ==
  Pushed(<< >>, << >>) = << >>
<1>1. << >> \o << >> = << >> /\ Len(<< >>) = 0
  OBVIOUS
<1>2. AtMost(0, QueueSize) = 0
  BY QueueAssumption DEF AtMost
<1>3. SubSeq(<< >>, 1, 0) = << >>
  OBVIOUS
<1> QED
  BY <1>1, <1>2, <1>3 DEF Pushed

LEMMA PushedOne ==
  ASSUME NEW e
  PROVE  Pushed(<< >>, <<e>>) = <<e>>
<1>1. << >> \o <<e>> = <<e>> /\ Len(<<e>>) = 1
  OBVIOUS
<1>2. AtMost(1, QueueSize) = 1
  BY QueueAssumption DEF AtMost
<1>3. SubSeq(<<e>>, 1, 1) = <<e>>
  <2>1. <<e>> \in Seq({e}) /\ Len(<<e>>) = 1
    OBVIOUS
  <2> QED
    BY <2>1, SubSeqFull
<1> QED
  BY <1>1, <1>2, <1>3 DEF Pushed
-----------------------------------------------------------------------------
(* Ages and contexts.                                                        *)

LEMMA AtMostType ==
  ASSUME NEW a \in Nat, NEW limit \in Nat
  PROVE  AtMost(a, limit) \in 0 .. limit
BY DEF AtMost

LEMMA IdleType == Idle \in Context
BY TimesAssumption DEF Idle, Context, KeyStates

LEMMA LaterType ==
  ASSUME NEW c \in Context, NEW d \in Nat
  PROVE  /\ Later(c, d) \in Context
         /\ Later(c, d).state = c.state
         /\ c = Idle => Later(c, d) = Idle
<1>1. c.pressed + d \in Nat /\ c.repeated + d \in Nat
  BY TimesAssumption DEF Context
<1>2. AtMost(c.pressed + d, LongPress) \in 0 .. LongPress
  BY <1>1, AtMostType, TimesAssumption
<1>3. RepeatInterval \in Nat
  BY TimesAssumption
<1>4. AtMost(c.repeated + d, RepeatInterval) \in 0 .. RepeatInterval
  BY <1>1, <1>3, AtMostType
<1> QED
  BY <1>2, <1>3, <1>4 DEF Later, Context, Idle

LEMMA NextContextType ==
  ASSUME NEW c \in Context, NEW down \in BOOLEAN
  PROVE  /\ NextContext(c, down) \in Context
         /\ ~down => NextContext(c, down) = Idle
BY TimesAssumption DEF NextContext, EventType, Context, KeyStates, Idle

LEMMA NextState ==
  ASSUME NEW c \in Context, NEW down \in BOOLEAN
  PROVE  LET n == NextContext(c, down).state
         IN /\ n = "HELD" => c.state \in {"PRESSED", "HELD"}
            /\ n = "LONG_PRESSED" => c.state \in {"HELD", "LONG_PRESSED"}
            /\ c = Idle => n \in {"IDLE", "PRESSED"}
            /\ ~down => n = "IDLE"
            /\ down /\ EventType(c, down) = "LONG_PRESS" => n = "LONG_PRESSED"
            /\ down /\ EventType(c, down) = "REPEAT" => n = "LONG_PRESSED"
BY DEF NextContext, EventType, Context, KeyStates, Idle

LEMMA EventTypeType ==
  ASSUME NEW c \in Context, NEW down \in BOOLEAN
  PROVE  /\ EventType(c, down) \in EventTypes \cup {"NONE"}
         /\ c = Idle => EventType(c, down) = "NONE"
BY DEF EventType, EventTypes, Idle

LEMMA MappingType ==
  ASSUME NEW k \in Keys
  PROVE  key_mapping[k] \in FunKeys /\ key_mapping[k] # "NONE"
BY KeysAssumption DEF FunKeys, key_mapping
-----------------------------------------------------------------------------
(* One scan. At most one context is active, and only the key the driver      *)
(* reports can be active after it: at most one key reports an event.         *)
OneActive == \A j, k \in Active : j = k

LEMMA ScanResult ==
  ASSUME ControlTypeOK, OneActive, event_queue = << >>,
         NEW raw \in Keys \cup {NoneDown}, UpdateContexts(raw)
  PROVE  /\ key_contexts' \in [Keys -> Context]
         /\ \A k \in Keys : key_contexts'[k] = NextContext(key_contexts[k], k = raw)
         /\ \A k \in Keys : k # raw => key_contexts'[k] = Idle
         /\ \/ Reporting(raw) = {} /\ event_queue' = << >>
            \/ \E k \in Active : /\ Reporting(raw) = {k}
                                 /\ EventOf(k, raw) \in Event
                                 /\ event_queue' = <<EventOf(k, raw)>>
<1>1. \A k \in Keys : key_contexts'[k] = NextContext(key_contexts[k], k = raw)
  BY DEF UpdateContexts
<1>2. \A k \in Keys : key_contexts[k] \in Context /\ (k = raw) \in BOOLEAN
  BY DEF ControlTypeOK
<1>3. \A k \in Keys : NextContext(key_contexts[k], k = raw) \in Context
  BY <1>2, NextContextType
<1>4. key_contexts' \in [Keys -> Context]
  BY <1>3 DEF UpdateContexts
<1>5. \A k \in Keys : k # raw => key_contexts'[k] = Idle
  BY <1>1, <1>2, NextContextType
<1>6. Reporting(raw) \subseteq Active
  BY <1>2, EventTypeType DEF Reporting, Active
<1>7. CASE Reporting(raw) = {}
  <2>1. [i \in DOMAIN << >> |-> EventOf(<< >>[i], raw)] = << >>
    OBVIOUS
  <2>2. event_queue' = Pushed(<< >>, [i \in DOMAIN << >> |-> EventOf(<< >>[i], raw)])
    BY <1>7, InOrderNone DEF UpdateContexts
  <2> QED
    BY <1>1, <1>4, <1>5, <1>7, <2>1, <2>2, PushedNone
<1>8. CASE Reporting(raw) # {}
  <2>1. PICK k \in Active : Reporting(raw) = {k}
    BY <1>6, <1>8 DEF OneActive
  <2>2. [i \in DOMAIN <<k>> |-> EventOf(<<k>>[i], raw)] = <<EventOf(k, raw)>>
    OBVIOUS
  <2>3. event_queue' = Pushed(<< >>, [i \in DOMAIN <<k>> |-> EventOf(<<k>>[i], raw)])
    BY <2>1, InOrderOne DEF UpdateContexts
  <2>4. event_queue' = <<EventOf(k, raw)>>
    BY <2>2, <2>3, PushedOne
  <2>5. k \in Keys /\ EventType(key_contexts[k], k = raw) # "NONE"
    BY <2>1 DEF Reporting
  <2>6. EventType(key_contexts[k], k = raw) \in EventTypes
    BY <2>5, <1>2, EventTypeType
  <2>7. EventOf(k, raw) \in Event
    BY <2>5, <2>6, MappingType DEF EventOf, Event
  <2> QED
    BY <1>1, <1>4, <1>5, <2>1, <2>4, <2>7
<1> QED
  BY <1>7, <1>8
-----------------------------------------------------------------------------
(* The keyboard driver.                                                      *)

LEMMA FirstDownType ==
  ASSUME NEW down \in SUBSET Keys
  PROVE  /\ FirstDown(down) \in down \cup {NoneDown}
         /\ FirstDown(down) = NoneDown <=> down = {}
<1>1. down \subseteq 1 .. 6
  BY KeysAssumption
<1>2. CASE down = {}
  BY <1>2 DEF FirstDown
<1>3. CASE down # {}
  <2>1. \E k \in down : \A j \in down : k <= j
    <3>1. \A k \in down : k = 1 \/ k = 2 \/ k = 3 \/ k = 4 \/ k = 5 \/ k = 6
      BY <1>1
    <3>2. CASE 1 \in down
      BY <3>1, <3>2
    <3>3. CASE 1 \notin down /\ 2 \in down
      BY <3>1, <3>3
    <3>4. CASE 1 \notin down /\ 2 \notin down /\ 3 \in down
      BY <3>1, <3>4
    <3>5. CASE 1 \notin down /\ 2 \notin down /\ 3 \notin down /\ 4 \in down
      BY <3>1, <3>5
    <3>6. CASE down \subseteq {5, 6}
      <4>1. CASE 5 \in down
        BY <3>6, <4>1
      <4>2. CASE 5 \notin down
        <5>1. down = {6}
          BY <1>3, <3>6, <4>2
        <5> QED
          BY <5>1
      <4> QED
        BY <4>1, <4>2
    <3>7. 1 \notin down /\ 2 \notin down /\ 3 \notin down /\ 4 \notin down => down \subseteq {5, 6}
      BY <3>1
    <3> QED
      BY <3>7, <3>2, <3>3, <3>4, <3>5, <3>6
  <2>2. FirstDown(down) \in down
    BY <1>3, <2>1 DEF FirstDown
  <2> QED
    <3>1. 0 \notin down
      BY <1>1
    <3> QED
      BY <1>3, <2>2, <3>1 DEF NoneDown
<1> QED
  BY <1>2, <1>3

LEMMA DriverType ==
  ASSUME DriverTypeOK, NEW down \in SUBSET Keys, ScanFunKey(down)
  PROVE  DriverTypeOK'
<1>1. FirstDown(down) \in Keys \cup {NoneDown}
  BY FirstDownType
<1>2. lastTick < Filter => lastTick + 1 \in 0 .. Filter
  BY FilterAssumption DEF DriverTypeOK
<1>3. 0 \in 0 .. Filter
  BY FilterAssumption
<1> QED
  BY <1>1, <1>2, <1>3 DEF DriverTypeOK, ScanFunKey, ToState, FunKeyStates

LEMMA FoundDownSize ==
  ASSUME NEW down \in SUBSET Keys
  PROVE  Cardinality(FoundDown(down)) \in 0 .. 1
<1>1. FoundDown(down) = {} \/ \E k : FoundDown(down) = {k}
  BY DEF FoundDown
<1>2. CASE FoundDown(down) = {}
  BY <1>2, FS_EmptySet
<1>3. CASE \E k : FoundDown(down) = {k}
  <2>1. PICK k : FoundDown(down) = {k}
    BY <1>3
  <2>2. Cardinality({k}) = 1
    BY FS_Singleton
  <2> QED
    BY <2>1, <2>2
<1> QED
  BY <1>1, <1>2, <1>3
-----------------------------------------------------------------------------
(* Types. The queue has room because at most one context is active and the   *)
(* menu has taken what was there before the next scan.                       *)
EventsTaken == pc # "events" => event_queue = << >>

Typing == TypeOK /\ OneActive /\ EventsTaken

LEMMA TicksType ==
  /\ SuspendTicks \in Nat /\ ShutdownTicks \in Nat
  /\ SuspendTicks <= ShutdownTicks /\ PmPeriod <= ShutdownTicks
<1>1. /\ SuspendPeriod \in Nat /\ ShutdownPeriod \in Nat /\ PmPeriod \in Nat
      /\ SuspendPeriod + 1 <= ShutdownPeriod + 1
  BY PeriodsAssumption, PmPeriodAssumption
<1>2. \A a, b, c \in Nat : a * c \in Nat /\ (a <= b => a * c <= b * c)
  OBVIOUS
<1>3. 1 * PmPeriod = PmPeriod
  BY <1>1
<1> QED
  BY <1>1, <1>2, <1>3 DEF SuspendTicks, ShutdownTicks

LEMMA InitTyping == Init => Typing
<1> SUFFICES ASSUME Init PROVE Typing
  OBVIOUS
<1> USE DEF Init
<1>1. DriverTypeOK
  BY FilterAssumption DEF DriverInit, DriverTypeOK, FunKeyStates
<1>2. ControlTypeOK
  BY IdleType, QueueAssumption DEF ControlInit, ControlTypeOK
<1>3. PowerTypeOK
  <2>1. idle \in NotSet .. ShutdownPeriod + 1 /\ chord \in NotSet .. ChordPeriod + 1
    BY PeriodsAssumption DEF PowerInit, NotSet
  <2>2. lastVal \in [funkey : BOOLEAN, mtxkey : BOOLEAN]
    BY DEF NoVal
  <2>3. dont_sleep \in BOOLEAN
    BY DEF PowerInit
  <2>4. pm_req \in 0 .. 1
    BY DEF PowerInit
  <2> QED
    BY <2>1, <2>2, <2>3, <2>4 DEF PowerTypeOK
<1>4. TypeOK
  <2>1. 0 \in 0 .. PmPeriod - 1 /\ 0 \in 0 .. LongPress /\ 0 \in 0 .. 2
    BY PmPeriodAssumption, TimesAssumption
  <2>2. 0 \in 0 .. ShutdownTicks /\ NotDue \in 0 .. NotDue
    BY TicksType, PmPeriodAssumption DEF NotDue
  <2> QED
    BY <1>1, <1>2, <1>3, <2>1, <2>2 DEF TypeOK, Looks
<1>5. OneActive
  BY DEF OneActive, Active, ControlInit
<1>6. EventsTaken
  BY DEF EventsTaken, ControlInit
<1> QED
  BY <1>4, <1>5, <1>6 DEF Typing

LEMMA TickTyping == Typing /\ SysTick => Typing'
<1> SUFFICES ASSUME Typing, SysTick PROVE Typing'
  OBVIOUS
<1> USE DEF Typing, TypeOK
<1>1. PICK down \in SUBSET Keys, other \in {"none", "knob", "matrix"} :
        /\ HidScan(down, other)
        /\ phase' = (phase + 1) % PmPeriod
        /\ RunPeriodic(dont_sleep \/ InUse(other), down)
        /\ Observe(down, other)
  BY DEF SysTick
<1>2. lag' = AtMost(lag + 1, LongPress) /\ stepped' = (pc \notin Prompt)
      /\ UNCHANGED <<kvars, pc, lastVal>>
  BY DEF SysTick
<1>3. DriverTypeOK'
  BY <1>1, DriverType DEF HidScan
<1>4. ControlTypeOK' /\ Active' = Active
  BY <1>2 DEF ControlTypeOK, Active, kvars
<1>5. lag' \in 0 .. LongPress
  <2>1. lag + 1 \in Nat /\ LongPress \in Nat
    BY TimesAssumption
  <2> QED
    BY <1>2, <2>1, AtMostType
<1>6. phase' \in 0 .. PmPeriod - 1
  BY <1>1, PmPeriodAssumption
<1>7. MtxKeyVal' \in BOOLEAN /\ stepped' \in BOOLEAN
  BY <1>1, <1>2 DEF HidScan
<1>8. found' \in Looks
  <2>1. Cardinality(FoundDown(down)) \in 0 .. 1
    BY FoundDownSize
  <2>2. AtMost(found + 1, 2) \in 0 .. 2
    BY DEF Looks, AtMost
  <2> QED
    BY <1>1, <2>1, <2>2 DEF Observe, Looks
<1>9. quiet' \in 0 .. ShutdownTicks
  <2>1. AtMost(quiet + 1, ShutdownTicks) \in 0 .. ShutdownTicks
    <3>1. quiet + 1 \in Nat /\ ShutdownTicks \in Nat
      BY TicksType
    <3> QED
      BY <3>1, AtMostType
  <2> QED
    BY <1>1, <2>1, TicksType DEF Observe
<1>10. due' \in 0 .. NotDue
  <2>1. NotDue \in Nat /\ due + 1 \in Nat
    BY PmPeriodAssumption DEF NotDue
  <2>2. AtMost(due + 1, NotDue) \in 0 .. NotDue
    BY <2>1, AtMostType
  <2> QED
    BY <1>1, <2>1, <2>2 DEF Observe
<1>11. PowerTypeOK' /\ powered' \in BOOLEAN
  <2> DEFINE operated == dont_sleep \/ InUse(other)
  <2>1. operated \in BOOLEAN
    BY <1>7 DEF PowerTypeOK, InUse
  <2> HIDE DEF operated
  <2>2. IdleAge(operated) \in 0 .. ShutdownPeriod + 1
    BY PeriodsAssumption DEF IdleAge, AtMost, PowerTypeOK, NotSet
  <2>3. ChordAge(down) \in 0 .. ChordPeriod + 1
    BY PeriodsAssumption DEF ChordAge, AtMost, PowerTypeOK, NotSet
  <2>4. IdleRequest(operated) \in 0 .. 1
    BY <2>1 DEF IdleRequest, PowerTypeOK
  <2>5. RunPeriodic(operated, down)
    BY <1>1 DEF operated
  <2>6. CASE RunPer10ms(operated, down) /\ UNCHANGED powered
    <3>1. idle' \in NotSet .. ShutdownPeriod + 1 /\ chord' \in NotSet .. ChordPeriod + 1
      BY <2>2, <2>3, <2>6, PeriodsAssumption DEF RunPer10ms, NotSet
    <3>2. pm_req' \in 0 .. 1
      BY <2>4, <2>6 DEF RunPer10ms
    <3>3. dont_sleep' \in BOOLEAN
      BY <2>6 DEF RunPer10ms
    <3> QED
      BY <1>2, <2>6, <3>1, <3>2, <3>3 DEF PowerTypeOK
  <2>7. CASE UNCHANGED <<pm_req, idle, chord>> /\ powered' \in BOOLEAN /\ dont_sleep' \in BOOLEAN
    BY <1>2, <2>7 DEF PowerTypeOK
  <2> QED
    BY <2>1, <2>5, <2>6, <2>7 DEF RunPeriodic, SwitchOff, pvars, PowerTypeOK
<1>12. OneActive'
  BY <1>4 DEF OneActive
<1>13. EventsTaken'
  BY <1>2 DEF EventsTaken, kvars
<1> QED
  BY <1>3, <1>4, <1>5, <1>6, <1>7, <1>8, <1>9, <1>10, <1>11, <1>12, <1>13

LEMMA ValsType ==
  ASSUME MtxKeyVal \in BOOLEAN
  PROVE  Vals \in [funkey : BOOLEAN, mtxkey : BOOLEAN]
BY DEF Vals

LEMMA MainTyping == Typing /\ MainLoop => Typing'
<1> SUFFICES ASSUME Typing, MainLoop PROVE Typing'
  OBVIOUS
<1> USE DEF Typing, TypeOK
<1>1. MainStep
  BY DEF MainLoop, Loop, Scan, HandleEvents, Handler, HandlerShutdown, HandlerResume
<1>2. DriverTypeOK' /\ phase' = phase /\ MtxKeyVal' = MtxKeyVal /\ stepped' \in BOOLEAN
      /\ FunKeyVal' = FunKeyVal
  BY <1>1 DEF MainStep, dvars, DriverTypeOK
<1>3. FunKeyVal \in Keys \cup {NoneDown}
  BY DEF DriverTypeOK
<1>4. 0 \in 0 .. LongPress /\ 0 \in 0 .. ShutdownTicks
  BY TimesAssumption, TicksType
<1>5. CASE Loop
  <2>1. PowerTypeOK'
    BY <1>5 DEF Loop, Goto, PowerTypeOK, pvars
  <2>2. key_contexts' = [k \in Keys |-> Later(key_contexts[k], lag)] /\ event_queue' = event_queue
    BY <1>5 DEF Loop
  <2>3. \A k \in Keys : /\ Later(key_contexts[k], lag) \in Context
                        /\ key_contexts[k] = Idle => Later(key_contexts[k], lag) = Idle
    BY LaterType DEF ControlTypeOK
  <2>4. ControlTypeOK'
    BY <2>2, <2>3 DEF ControlTypeOK
  <2>5. Active' \subseteq Active
    BY <2>2, <2>3 DEF Active
  <2>6. OneActive'
    BY <2>5 DEF OneActive
  <2>7. EventsTaken'
    BY <1>5, <2>2 DEF EventsTaken, Loop
  <2>8. UNCHANGED <<powered, found, quiet, due>> /\ lag' = 0
    BY <1>5 DEF Loop, history
  <2> QED
    BY <1>2, <1>4, <2>1, <2>4, <2>6, <2>7, <2>8
<1>6. CASE Scan
  <2>1. PowerTypeOK'
    BY <1>6 DEF Scan, Goto, PowerTypeOK, pvars
  <2>2. UpdateContexts(FunKeyVal) /\ event_queue = << >>
    BY <1>6 DEF Scan, EventsTaken
  <2>3. /\ key_contexts' \in [Keys -> Context]
        /\ \A k \in Keys : k # FunKeyVal => key_contexts'[k] = Idle
        /\ \/ event_queue' = << >>
           \/ \E e \in Event : event_queue' = <<e>>
    BY <1>3, <2>2, ScanResult
  <2>4. << >> \in Seq(Event) /\ \A e \in Event : <<e>> \in Seq(Event) /\ Len(<<e>>) = 1
    OBVIOUS
  <2>5. ControlTypeOK'
    <3>1. Len(<< >>) <= QueueSize /\ 1 <= QueueSize
      BY QueueAssumption
    <3> QED
      BY <2>3, <2>4, <3>1 DEF ControlTypeOK
  <2>6. OneActive'
    BY <2>3 DEF OneActive, Active
  <2>7. EventsTaken'
    BY <1>6 DEF EventsTaken, Scan, Goto
  <2>8. found' \in Looks
    BY <1>6 DEF Scan, Looks
  <2>9. UNCHANGED <<powered, lag, quiet, due>>
    BY <1>6 DEF Scan
  <2> QED
    BY <1>2, <2>1, <2>5, <2>6, <2>7, <2>8, <2>9
<1>7. CASE HandleEvents
  <2>1. PowerTypeOK'
    BY <1>7 DEF HandleEvents, Goto, PowerTypeOK, pvars
  <2>2. event_queue' = << >> /\ key_contexts' = key_contexts
    BY <1>7 DEF HandleEvents, DrainEvents
  <2>3. ControlTypeOK'
    BY <2>2, QueueAssumption DEF ControlTypeOK
  <2>4. OneActive' /\ EventsTaken'
    BY <2>2 DEF OneActive, Active, EventsTaken
  <2>5. UNCHANGED <<powered, lag, found, quiet, due>>
    BY <1>7 DEF HandleEvents, history
  <2> QED
    BY <1>2, <2>1, <2>3, <2>4, <2>5
<1>8. CASE Handler
  <2>1. PowerTypeOK'
    <3>1. UNCHANGED pvars
      BY <1>8 DEF Handler, Check, Suspend, FallAsleep, Poll, Wake
    <3>2. pc' \in {"loop", "switch", "suspend", "asleep", "resume"}
      BY <1>8 DEF Handler, Check, Suspend, FallAsleep, Poll, Wake, Goto
    <3>3. lastVal' \in {lastVal, Vals, NoVal}
      BY <1>8 DEF Handler, Check, Suspend, FallAsleep, Poll, Wake
    <3>4. lastVal' \in [funkey : BOOLEAN, mtxkey : BOOLEAN]
      <4>1. Vals \in [funkey : BOOLEAN, mtxkey : BOOLEAN]
        BY ValsType
      <4>2. NoVal \in [funkey : BOOLEAN, mtxkey : BOOLEAN]
        BY DEF NoVal
      <4>3. lastVal \in [funkey : BOOLEAN, mtxkey : BOOLEAN]
        BY DEF PowerTypeOK
      <4> QED
        BY <3>3, <4>1, <4>2, <4>3
    <3> QED
      BY <3>1, <3>2, <3>4 DEF PowerTypeOK, pvars
  <2>2. UNCHANGED <<powered, lag, found, quiet, due, key_contexts, event_queue>>
    BY <1>8 DEF Handler, kvars, history
  <2>3. pc # "events" /\ pc' # "events"
    BY <1>8 DEF Handler, Check, Suspend, FallAsleep, Poll, Wake, Goto
  <2>4. ControlTypeOK' /\ OneActive' /\ EventsTaken'
    BY <2>2, <2>3 DEF ControlTypeOK, OneActive, Active, EventsTaken
  <2> QED
    BY <1>2, <2>1, <2>2, <2>4
<1>9. CASE HandlerShutdown
  <2>1. /\ UNCHANGED <<lag, found, quiet, due, key_contexts, event_queue, pc>>
        /\ powered' = FALSE
    BY <1>9 DEF HandlerShutdown, SwitchOff, kvars, history
  <2>2. PowerTypeOK'
    BY <1>9 DEF HandlerShutdown, SwitchOff, PowerTypeOK, pvars
  <2>3. ControlTypeOK' /\ OneActive' /\ EventsTaken'
    BY <2>1 DEF ControlTypeOK, OneActive, Active, EventsTaken
  <2> QED
    BY <1>2, <2>1, <2>2, <2>3
<1>10. CASE HandlerResume
  <2>1. /\ UNCHANGED <<powered, lag, found, quiet, key_contexts, event_queue>>
        /\ due' = NotDue /\ NotDue \in 0 .. NotDue
    BY <1>10, PmPeriodAssumption DEF HandlerResume, kvars, NotDue
  <2>2. pc = "resume" /\ pc' = "loop" /\ pm_req' = 0 /\ UNCHANGED <<dont_sleep, idle, chord, lastVal>>
    BY <1>10 DEF HandlerResume, Resume, Goto
  <2>3. PowerTypeOK'
    BY <2>2 DEF PowerTypeOK
  <2>4. ControlTypeOK' /\ OneActive' /\ EventsTaken'
    BY <2>1, <2>2 DEF ControlTypeOK, OneActive, Active, EventsTaken
  <2> QED
    BY <1>2, <2>1, <2>3, <2>4
<1> QED
  BY <1>5, <1>6, <1>7, <1>8, <1>9, <1>10 DEF MainLoop

LEMMA StutterTyping == Typing /\ UNCHANGED vars => Typing'
BY DEF Typing, TypeOK, DriverTypeOK, ControlTypeOK, PowerTypeOK, OneActive, Active,
       EventsTaken, vars, dvars, kvars, pvars, main, history

LEMMA StepTyping == Typing /\ [Next]_vars => Typing'
BY TickTyping, MainTyping, StutterTyping DEF Next

LEMMA TypingInvariant == Spec => []Typing
BY InitTyping, StepTyping, PTL DEF Spec

(* Every variable keeps its type, the queue of events its limit.             *)
THEOREM TypeCorrect == Spec => []TypeOK
BY TypingInvariant, PTL DEF Typing
-----------------------------------------------------------------------------
(* The stream of events.                                                     *)

KeyIsPressed ==
  \A k \in PressedKeys :
    key = [key |-> key_mapping[k], long |-> key_contexts[k].state = "LONG_PRESSED"]

LEMMA PressedIsActive == Typing => PressedKeys \subseteq Active /\ KeyIsPressed
<1> SUFFICES ASSUME Typing PROVE PressedKeys \subseteq Active /\ KeyIsPressed
  OBVIOUS
<1>1. PressedKeys \subseteq Active
  BY DEF PressedKeys, IsPressed, Active, Idle
<1>2. ASSUME NEW k \in PressedKeys
      PROVE  key = [key |-> key_mapping[k], long |-> key_contexts[k].state = "LONG_PRESSED"]
  <2>1. PressedKeys # {} /\ PressedKey \in PressedKeys
    BY <1>2 DEF PressedKey
  <2>2. PressedKey = k
    BY <1>1, <1>2, <2>1 DEF Typing, OneActive
  <2> QED
    BY <2>1, <2>2 DEF key
<1> QED
  BY <1>1, <1>2 DEF KeyIsPressed

LEMMA SameStream ==
  ASSUME \A k \in Keys : key_contexts'[k].state = key_contexts[k].state
  PROVE  key' = key
<1>1. PressedKeys' = PressedKeys
  BY DEF PressedKeys, IsPressed
<1>2. PressedKey' = PressedKey
  BY <1>1 DEF PressedKey
<1>3. PressedKeys # {} => PressedKey \in Keys
  BY DEF PressedKey, PressedKeys
<1> QED
  BY <1>1, <1>2, <1>3 DEF key

LEMMA ScanStreams ==
  Typing /\ Typing' /\ Scan => [Stream!Next]_<<key, event>>
<1> SUFFICES ASSUME Typing, Typing', Scan PROVE Stream!Scan
  BY DEF Stream!Next
<1> DEFINE raw == FunKeyVal
<1>1. /\ ControlTypeOK /\ OneActive /\ event_queue = << >> /\ UpdateContexts(raw)
      /\ raw \in Keys \cup {NoneDown}
  BY DEF Typing, TypeOK, EventsTaken, Scan, DriverTypeOK
<1>2. /\ \A k \in Keys : key_contexts'[k] = NextContext(key_contexts[k], k = raw)
      /\ \/ Reporting(raw) = {} /\ event_queue' = << >>
         \/ \E k \in Active : Reporting(raw) = {k} /\ event_queue' = <<EventOf(k, raw)>>
  BY <1>1, ScanResult
<1>3. event = NoEvent
  BY <1>1 DEF event
<1>4. Reporting(raw) = {} => event' = NoEvent
  BY <1>2 DEF event
<1>5. \A k \in Keys : Reporting(raw) = {k} => event' = EventOf(k, raw)
  BY <1>2 DEF event
<1>6. PressedKeys \subseteq Active /\ KeyIsPressed
  BY PressedIsActive
<1>7. KeyIsPressed'
  BY PressedIsActive, PTL
<1>8. \A k \in Keys : /\ k \in PressedKeys <=> IsPressed(k)
                      /\ k \in PressedKeys' <=> key_contexts'[k].state \in {"HELD", "LONG_PRESSED"}
  BY DEF PressedKeys, IsPressed
<1>9. \A k \in Keys : key_mapping[k] \in FunKeys /\ key_mapping[k] # "NONE"
  BY MappingType
<1>10. PressedKeys' = {} => key' = NoKey
  BY DEF key
<1>11. CASE PressedKeys = {}
  <2>1. \A k \in Keys : EventType(key_contexts[k], k = raw) = "NONE"
    BY <1>8, <1>11 DEF EventType, IsPressed
  <2>2. event' = NoEvent
    BY <1>4, <2>1 DEF Reporting
  <2>3. key = NoKey
    BY <1>11 DEF key
  <2>4. \A k \in PressedKeys' : key_contexts'[k].state = "HELD"
    <3> SUFFICES ASSUME NEW k \in Keys, key_contexts'[k].state \in {"HELD", "LONG_PRESSED"}
                 PROVE  key_contexts'[k].state = "HELD"
      BY <1>8 DEF PressedKeys
    <3>1. ~IsPressed(k) /\ key_contexts[k] \in Context /\ EventType(key_contexts[k], k = raw) = "NONE"
      BY <1>1, <1>8, <1>11, <2>1 DEF ControlTypeOK
    <3>2. PICK down \in BOOLEAN : key_contexts'[k] = NextContext(key_contexts[k], down)
      <4>1. (k = raw) \in BOOLEAN
        OBVIOUS
      <4> QED
        BY <1>2, <4>1
    <3>3. \/ key_contexts'[k].state # "LONG_PRESSED"
          \/ key_contexts[k].state \in {"HELD", "LONG_PRESSED"}
      BY <3>1, <3>2, NextState
    <3> QED
      BY <3>1, <3>3 DEF IsPressed
  <2>5. CASE PressedKeys' = {}
    BY <1>3, <1>10, <2>2, <2>3, <2>5 DEF Stream!Scan, Stream!ScanKeys, Stream!KeyScan,
       Stream!NoEvent, NoEvent
  <2>6. CASE PressedKeys' # {}
    <3>1. PICK k \in Keys : k \in PressedKeys'
      BY <2>6 DEF PressedKeys
    <3>2. key' = [key |-> key_mapping[k], long |-> FALSE]
      BY <1>7, <2>4, <3>1 DEF KeyIsPressed
    <3> QED
      BY <1>3, <1>9, <2>2, <2>3, <3>2 DEF Stream!Scan, Stream!ScanKeys, Stream!KeyScan,
         Stream!NoEvent, NoEvent, Stream!NoKey, NoKey
  <2> QED
    BY <2>5, <2>6
<1>12. ASSUME NEW k \in PressedKeys
       PROVE  Stream!Scan
  <2>1. k \in Keys /\ IsPressed(k) /\ key_contexts[k] \in Context
    BY <1>1, <1>12 DEF PressedKeys, ControlTypeOK
  <2>2. key = [key |-> key_mapping[k], long |-> key_contexts[k].state = "LONG_PRESSED"]
    BY <1>6, <1>12 DEF KeyIsPressed
  <2>3. \A j \in Keys : j # k => key_contexts[j] = Idle
    BY <1>1, <1>6, <1>12 DEF OneActive, Active
  <2>4. \A j \in Keys : j # k => EventType(key_contexts[j], j = raw) = "NONE"
    BY <2>3 DEF EventType, Idle
  <2>5. Reporting(raw) = IF EventType(key_contexts[k], k = raw) = "NONE" THEN {} ELSE {k}
    BY <2>1, <2>4 DEF Reporting
  <2>6. \A j \in Keys : j # k => j \notin PressedKeys'
    <3> SUFFICES ASSUME NEW j \in Keys, j # k
                 PROVE  key_contexts'[j].state \in {"IDLE", "PRESSED"}
      BY <1>8
    <3>1. key_contexts[j] = Idle /\ Idle \in Context
      BY <2>3, IdleType
    <3> QED
      BY <1>2, <3>1, NextState
  <2>7. key # NoKey /\ key.long = (key_contexts[k].state = "LONG_PRESSED")
        /\ key.key = key_mapping[k]
    BY <1>9, <2>1, <2>2 DEF NoKey
  <2>8. CASE raw # k
    <3>1. PressedKeys' = {}
      <4>1. PICK down \in BOOLEAN : ~down /\ key_contexts'[k] = NextContext(key_contexts[k], down)
        <5>1. (k = raw) \in BOOLEAN /\ ~(k = raw)
          BY <2>8
        <5> QED
          BY <1>2, <2>1, <5>1
      <4>2. key_contexts'[k].state = "IDLE"
        BY <2>1, <4>1, NextState
      <4>3. k \notin PressedKeys'
        BY <1>8, <2>1, <4>2
      <4> QED
        BY <2>6, <4>3 DEF PressedKeys
    <3>2. key' = NoKey
      BY <1>10, <3>1
    <3>3. CASE key_contexts[k].state = "HELD"
      <4>1. event' = [type |-> "PRESS", key |-> key_mapping[k]]
        BY <1>5, <2>1, <2>5, <2>8, <3>3 DEF EventOf, EventType
      <4> QED
        BY <1>3, <2>7, <3>2, <3>3, <4>1 DEF Stream!Scan, Stream!ScanKeys, Stream!KeyScan,
           Stream!NoEvent, NoEvent, Stream!NoKey, NoKey
    <3>4. CASE key_contexts[k].state = "LONG_PRESSED"
      <4>1. event' = NoEvent
        BY <1>4, <2>1, <2>5, <2>8, <3>4 DEF EventType
      <4> QED
        BY <1>3, <2>7, <3>2, <3>4, <4>1 DEF Stream!Scan, Stream!ScanKeys, Stream!KeyScan,
           Stream!NoEvent, NoEvent, Stream!NoKey, NoKey
    <3> QED
      BY <2>1, <3>3, <3>4 DEF IsPressed
  <2>9. CASE raw = k
    <3>1. key_contexts'[k] = NextContext(key_contexts[k], TRUE)
      BY <1>2, <2>1, <2>9
    <3>2. key_contexts'[k].state \in {"HELD", "LONG_PRESSED"}
      BY <2>1, <3>1 DEF NextContext, EventType, IsPressed, Context
    <3>3. key' = [key |-> key_mapping[k], long |-> key_contexts'[k].state = "LONG_PRESSED"]
      BY <1>7, <1>8, <2>1, <3>2 DEF KeyIsPressed
    <3>4. CASE EventType(key_contexts[k], TRUE) = "NONE"
      <4>1. event' = NoEvent
        BY <1>4, <2>5, <2>9, <3>4
      <4>2. key_contexts'[k].state = key_contexts[k].state
        BY <2>1, <3>1, <3>4 DEF NextContext, IsPressed
      <4> QED
        BY <1>3, <2>2, <3>3, <4>1, <4>2 DEF Stream!Scan, Stream!ScanKeys, Stream!KeyScan,
           Stream!NoEvent, NoEvent
    <3>5. CASE EventType(key_contexts[k], TRUE) = "LONG_PRESS"
      <4>1. event' = [type |-> "LONG_PRESS", key |-> key_mapping[k]]
        BY <1>5, <2>1, <2>5, <2>9, <3>5 DEF EventOf
      <4>2. key_contexts[k].state = "HELD" /\ key_contexts'[k].state = "LONG_PRESSED"
        BY <2>1, <3>1, <3>5 DEF NextContext, EventType, Context
      <4>3. key' = [key |-> key_mapping[k], long |-> TRUE] /\ key = [key |-> key_mapping[k], long |-> FALSE]
        BY <2>2, <3>3, <4>2
      <4>4. key' = [key |-> key.key, long |-> TRUE]
        BY <4>3
      <4> QED
        BY <1>3, <2>7, <4>1, <4>2, <4>4 DEF Stream!Scan, Stream!ScanKeys, Stream!KeyScan,
           Stream!NoEvent, NoEvent, Stream!NoKey, NoKey
    <3>6. CASE EventType(key_contexts[k], TRUE) = "REPEAT"
      <4>1. event' = [type |-> "REPEAT", key |-> key_mapping[k]]
        BY <1>5, <2>1, <2>5, <2>9, <3>6 DEF EventOf
      <4>2. key_contexts[k].state = "LONG_PRESSED" /\ key_contexts'[k].state = "LONG_PRESSED"
        BY <2>1, <3>1, <3>6 DEF NextContext, EventType, Context
      <4>3. key' = key
        BY <2>2, <3>3, <4>2
      <4> QED
        BY <1>3, <2>7, <4>1, <4>2, <4>3 DEF Stream!Scan, Stream!ScanKeys, Stream!KeyScan,
           Stream!NoEvent, NoEvent, Stream!NoKey, NoKey
    <3>7. EventType(key_contexts[k], TRUE) \in {"NONE", "PRESS", "LONG_PRESS", "REPEAT"}
      BY <2>1, EventTypeType DEF EventTypes
    <3>8. EventType(key_contexts[k], TRUE) # "PRESS"
      BY DEF EventType
    <3> QED
      BY <3>4, <3>5, <3>6, <3>7, <3>8
  <2> QED
    BY <2>8, <2>9
<1> QED
  BY <1>11, <1>12

LEMMA TickStreams == SysTick => UNCHANGED <<key, event>>
<1> SUFFICES ASSUME SysTick PROVE UNCHANGED <<key, event>>
  OBVIOUS
<1>1. key_contexts' = key_contexts /\ event_queue' = event_queue
  BY DEF SysTick, kvars
<1>2. key' = key
  BY <1>1, SameStream
<1> QED
  BY <1>1, <1>2 DEF event

LEMMA MainStreams ==
  Typing /\ Typing' /\ MainLoop => [Stream!Next]_<<key, event>>
<1> SUFFICES ASSUME Typing, Typing', MainLoop PROVE [Stream!Next]_<<key, event>>
  OBVIOUS
<1>1. CASE Loop
  <2>1. /\ key_contexts' = [k \in Keys |-> Later(key_contexts[k], lag)]
        /\ event_queue' = event_queue
    BY <1>1 DEF Loop
  <2>2. lag \in Nat
    BY TimesAssumption DEF Typing, TypeOK
  <2>3. \A k \in Keys : key_contexts'[k].state = key_contexts[k].state
    BY <2>1, <2>2, LaterType DEF Typing, TypeOK, ControlTypeOK
  <2>4. key' = key
    BY <2>3, SameStream
  <2> QED
    BY <2>1, <2>4 DEF event
<1>2. CASE Scan
  BY <1>2, ScanStreams
<1>3. CASE HandleEvents
  <2>1. key_contexts' = key_contexts /\ event_queue' = << >>
    BY <1>3 DEF HandleEvents, DrainEvents
  <2>2. key' = key /\ event' = NoEvent
    BY <2>1, SameStream DEF event
  <2>3. CASE event = NoEvent
    BY <2>2, <2>3
  <2>4. CASE event # NoEvent
    BY <2>2, <2>4 DEF Stream!Next, Stream!Consume, Stream!KeyScan, Stream!NoEvent, NoEvent
  <2> QED
    BY <2>3, <2>4
<1>4. CASE Handler \/ HandlerShutdown \/ HandlerResume
  <2>1. key_contexts' = key_contexts /\ event_queue' = event_queue
    BY <1>4 DEF Handler, HandlerShutdown, HandlerResume, kvars
  <2>2. key' = key
    BY <2>1, SameStream
  <2> QED
    BY <2>1, <2>2 DEF event
<1> QED
  BY <1>1, <1>2, <1>3, <1>4 DEF MainLoop

LEMMA StutterStreams == UNCHANGED vars => UNCHANGED <<key, event>>
<1> SUFFICES ASSUME UNCHANGED vars PROVE UNCHANGED <<key, event>>
  OBVIOUS
<1>1. key_contexts' = key_contexts /\ event_queue' = event_queue
  BY DEF vars, kvars
<1>2. key' = key
  BY <1>1, SameStream
<1> QED
  BY <1>1, <1>2 DEF event

LEMMA InitStreams == Init => Stream!Init
<1> SUFFICES ASSUME Init PROVE Stream!Init
  OBVIOUS
<1>1. PressedKeys = {} /\ event_queue = << >>
  BY DEF Init, ControlInit, Idle, PressedKeys, IsPressed
<1> QED
  BY <1>1 DEF key, event, Stream!Init, Stream!NoKey, Stream!NoEvent, NoKey, NoEvent

(* The events the menu takes are those of KeyStream: one key at a time, a    *)
(* PRESS or one LONG_PRESS with its repeats, none lost to a full queue,      *)
(* wherever the interrupt comes and however long the panel sleeps.           *)
THEOREM StreamImplemented == Spec => ImplementsKeyStream
<1>1. Typing /\ Typing' /\ [Next]_vars => [Stream!Next]_<<key, event>>
  BY TickStreams, MainStreams, StutterStreams DEF Next
<1> QED
  BY <1>1, InitStreams, TypingInvariant, PTL DEF Spec, ImplementsKeyStream, Stream!Spec
-----------------------------------------------------------------------------
(* Why the panel sleeps. dont_sleep remembers that the panel was operated in *)
(* the current period, idle counts the periods in which it was not, and a    *)
(* request is made when the panel is due to sleep and outlives that until    *)
(* the end of the period in which the panel is operated again.               *)
Remembered ==
  powered => IF dont_sleep THEN quiet < phase ELSE quiet >= phase

IdleSince ==
  powered /\ ~dont_sleep /\ idle # NotSet =>
    quiet >= AtMost(idle * PmPeriod + phase, ShutdownTicks)

RequestMeant ==
  powered /\ pm_req = 1 => due = 0 \/ (dont_sleep /\ due <= phase)

Power == Typing /\ Remembered /\ IdleSince /\ RequestMeant

LEMMA PhaseStep ==
  ASSUME NEW p \in 0 .. PmPeriod - 1
  PROVE  (p + 1) % PmPeriod = IF p = PmPeriod - 1 THEN 0 ELSE p + 1
BY PmPeriodAssumption

(* the bound idle * PmPeriod + phase grows by one a tick *)
LEMMA Periods ==
  ASSUME NEW n \in Nat, NEW i \in Nat, i <= n + 1
  PROVE  /\ n * PmPeriod \in Nat /\ i * PmPeriod \in Nat
         /\ i * PmPeriod <= n * PmPeriod + PmPeriod
<1>1. PmPeriod \in Nat
  BY PmPeriodAssumption
<1>2. \A a, b, c \in Nat : a * c \in Nat /\ (a <= b => a * c <= b * c)
  OBVIOUS
<1>3. (n + 1) * PmPeriod = n * PmPeriod + PmPeriod
  BY <1>1
<1> QED
  BY <1>1, <1>2, <1>3

LEMMA InitPower == Init => Power
<1> SUFFICES ASSUME Init PROVE Power
  OBVIOUS
<1>1. Typing
  BY InitTyping
<1>2. dont_sleep = FALSE /\ pm_req = 0 /\ idle = NotSet
  BY DEF Init, PowerInit
<1>3. quiet = 0 /\ phase = 0 /\ pc = "loop"
  BY DEF Init
<1> QED
  BY <1>1, <1>2, <1>3 DEF Power, Remembered, IdleSince, RequestMeant

(* What a tick does to the times, whether or not it ends a period. *)
LEMMA TickTimes ==
  ASSUME Typing, Remembered, IdleSince, SysTick
  PROVE  \E operated \in BOOLEAN, down \in SUBSET Keys :
           /\ RunPeriodic(operated, down)
           /\ operated <=> dont_sleep \/ quiet' = 0
           /\ quiet' \in Nat
           /\ quiet' = 0 \/ quiet' = AtMost(quiet + 1, ShutdownTicks)
           /\ phase' = IF phase = PmPeriod - 1 THEN 0 ELSE phase + 1
           /\ due' = IF DueToSleep(down) \/ (due = 0 /\ quiet' # 0) THEN 0
                     ELSE AtMost(due + 1, NotDue)
           /\ pc' = pc /\ powered
<1>1. PICK down \in SUBSET Keys, other \in {"none", "knob", "matrix"} :
        /\ phase' = (phase + 1) % PmPeriod
        /\ RunPeriodic(dont_sleep \/ InUse(other), down)
        /\ Observe(down, other)
  BY DEF SysTick
<1> DEFINE operated == dont_sleep \/ InUse(other)
<1>2. phase \in 0 .. PmPeriod - 1 /\ quiet \in Nat /\ dont_sleep \in BOOLEAN
  BY TicksType DEF Typing, TypeOK, PowerTypeOK
<1>3. phase' = IF phase = PmPeriod - 1 THEN 0 ELSE phase + 1
  BY <1>1, <1>2, PhaseStep
<1>4. quiet' = IF InUse(other) THEN 0 ELSE AtMost(quiet + 1, ShutdownTicks)
  BY <1>1 DEF Observe
<1>5. AtMost(quiet + 1, ShutdownTicks) \in Nat /\ AtMost(quiet + 1, ShutdownTicks) # 0
  BY <1>2, TicksType, PmPeriodAssumption DEF AtMost
<1>6. operated \in BOOLEAN /\ (operated <=> dont_sleep \/ quiet' = 0)
  BY <1>2, <1>4, <1>5 DEF InUse
<1>7. pc' = pc /\ powered
  BY DEF SysTick
<1>8. due' = IF DueToSleep(down) \/ (due = 0 /\ quiet' # 0) THEN 0
             ELSE AtMost(due + 1, NotDue)
  <2>1. InUse(other) <=> quiet' = 0
    BY <1>4, <1>5
  <2> QED
    BY <1>1, <2>1 DEF Observe
<1>9. quiet' \in Nat /\ (quiet' = 0 \/ quiet' = AtMost(quiet + 1, ShutdownTicks))
  BY <1>4, <1>5
<1>10. RunPeriodic(operated, down)
  BY <1>1
<1> HIDE DEF operated
<1> QED
  BY <1>3, <1>6, <1>7, <1>8, <1>9, <1>10

(* A panel that was not operated for n periods in a row was quiet as long.   *)
LEMMA QuietPeriods ==
  ASSUME Typing, Remembered, IdleSince, powered, phase = PmPeriod - 1,
         ~dont_sleep, quiet' = AtMost(quiet + 1, ShutdownTicks),
         idle # NotSet, NEW i \in Nat, i <= idle + 1
  PROVE  quiet' >= AtMost(i * PmPeriod, ShutdownTicks)
<1>1. idle \in Nat /\ quiet \in Nat /\ ShutdownTicks \in Nat /\ PmPeriod \in Nat
  BY TicksType, PeriodsAssumption, PmPeriodAssumption DEF Typing, TypeOK, PowerTypeOK, NotSet
<1>2. /\ idle * PmPeriod \in Nat /\ i * PmPeriod \in Nat
      /\ i * PmPeriod <= idle * PmPeriod + PmPeriod
  BY <1>1, Periods
<1> DEFINE n == idle * PmPeriod
           m == i * PmPeriod
<1>3. quiet >= AtMost(n + phase, ShutdownTicks)
  BY DEF IdleSince
<1>4. n \in Nat /\ m \in Nat /\ m <= n + PmPeriod
  BY <1>2
<1> HIDE DEF n, m
<1>5. quiet' >= AtMost(m, ShutdownTicks)
  BY <1>1, <1>3, <1>4, PmPeriodAssumption DEF AtMost
<1> QED
  BY <1>5 DEF m

LEMMA TickPower == Power /\ Typing' /\ SysTick => Power'
<1> SUFFICES ASSUME Power, Typing', SysTick PROVE Power'
  OBVIOUS
<1> USE DEF Power
<1>1. PICK operated \in BOOLEAN, down \in SUBSET Keys :
           /\ RunPeriodic(operated, down)
           /\ operated <=> dont_sleep \/ quiet' = 0
           /\ quiet' \in Nat
           /\ quiet' = 0 \/ quiet' = AtMost(quiet + 1, ShutdownTicks)
           /\ phase' = IF phase = PmPeriod - 1 THEN 0 ELSE phase + 1
           /\ due' = IF DueToSleep(down) \/ (due = 0 /\ quiet' # 0) THEN 0
                     ELSE AtMost(due + 1, NotDue)
           /\ pc' = pc /\ powered
  BY TickTimes
<1>2. /\ phase \in 0 .. PmPeriod - 1 /\ quiet \in 0 .. ShutdownTicks
      /\ idle \in NotSet .. ShutdownPeriod + 1
  BY DEF Typing, TypeOK, PowerTypeOK
<1>3. dont_sleep \in BOOLEAN /\ pm_req \in 0 .. 1
  BY DEF Typing, TypeOK, PowerTypeOK
<1>4. /\ PmPeriod \in Nat \ {0} /\ ShutdownTicks \in Nat /\ SuspendTicks \in Nat
      /\ SuspendTicks <= ShutdownTicks /\ PmPeriod <= ShutdownTicks
  BY TicksType, PmPeriodAssumption
<1>5. /\ dont_sleep => quiet < phase
      /\ ~dont_sleep => quiet >= phase
  BY <1>1, <1>3 DEF Remembered
<1>6. /\ operated => quiet' <= PmPeriod
      /\ ~operated => quiet' = AtMost(quiet + 1, ShutdownTicks) /\ ~dont_sleep
  BY <1>1, <1>2, <1>3, <1>4, <1>5 DEF AtMost
<1>7. CASE phase # PmPeriod - 1
  <2>1. phase' = phase + 1 /\ phase' # 0 /\ phase + 1 < PmPeriod
    BY <1>1, <1>2, <1>4, <1>7
  <2>2. dont_sleep' = operated /\ UNCHANGED <<powered, pm_req, idle, chord>>
    BY <1>1, <2>1 DEF RunPeriodic
  <2>3. Remembered'
    <3>1. operated => quiet' < phase + 1
      BY <1>1, <1>2, <1>3, <1>4, <1>5 DEF AtMost
    <3>2. ~operated => quiet' >= phase + 1
      BY <1>2, <1>4, <1>5, <1>6, <2>1 DEF AtMost
    <3> QED
      BY <2>1, <2>2, <3>1, <3>2 DEF Remembered
  <2>4. IdleSince'
    <3> SUFFICES ASSUME ~operated, idle # NotSet
                 PROVE  quiet' >= AtMost(idle * PmPeriod + (phase + 1), ShutdownTicks)
      BY <2>1, <2>2 DEF IdleSince, ShutdownTicks, AtMost
    <3>1. quiet >= AtMost(idle * PmPeriod + phase, ShutdownTicks)
      BY <1>1, <1>6 DEF IdleSince
    <3>2. idle \in Nat
      BY <1>2, PeriodsAssumption DEF NotSet
    <3> DEFINE n == idle * PmPeriod
    <3>3. n \in Nat
      BY <1>4, <3>2, Periods
    <3>4. quiet >= AtMost(n + phase, ShutdownTicks)
      BY <3>1
    <3> HIDE DEF n
    <3>5. quiet' >= AtMost(n + (phase + 1), ShutdownTicks)
      BY <1>2, <1>4, <1>6, <3>3, <3>4 DEF AtMost
    <3> QED
      BY <3>5 DEF n
  <2>5. RequestMeant'
    <3> SUFFICES ASSUME pm_req = 1
                 PROVE  due' = 0 \/ (operated /\ due' <= phase + 1)
      BY <2>1, <2>2 DEF RequestMeant
    <3>1. due = 0 \/ (dont_sleep /\ due <= phase)
      BY <1>1 DEF RequestMeant
    <3>2. due' = 0 \/ (due' = AtMost(due + 1, NotDue) /\ (due # 0 \/ quiet' = 0))
      BY <1>1
    <3>3. /\ due \in Nat /\ AtMost(due + 1, NotDue) \in Nat
          /\ AtMost(due + 1, NotDue) <= due + 1
      BY PmPeriodAssumption DEF Typing, TypeOK, AtMost, NotDue
    <3>4. due = 0 /\ quiet' = 0 => operated
      BY <1>1
    <3>5. CASE due = 0
      <4>1. due' # 0 => quiet' = 0 /\ due' <= 1
        <5>1. AtMost(0 + 1, NotDue) <= 1
          BY <3>3, <3>5
        <5> QED
          BY <3>2, <3>5, <5>1
      <4>2. due' \in Nat
        BY <3>2, <3>3
      <4> QED
        BY <1>2, <1>4, <3>3, <3>4, <3>5, <4>1, <4>2
    <3>6. CASE dont_sleep /\ due <= phase
      <4>1. operated
        BY <1>6, <3>6
      <4>2. due' <= phase + 1
        BY <1>2, <3>2, <3>3, <3>6
      <4> QED
        BY <4>1, <4>2
    <3> QED
      BY <3>1, <3>5, <3>6
  <2> QED
    BY <2>3, <2>4, <2>5
<1>8. CASE phase = PmPeriod - 1
  <2>1. phase' = 0
    BY <1>1, <1>8
  <2>2. CASE powered' = FALSE
    BY <2>2 DEF Remembered, IdleSince, RequestMeant
  <2>3. CASE RunPer10ms(operated, down)
    <3>1. Remembered'
      BY <1>1, <2>1, <2>3 DEF Remembered, RunPer10ms
    <3>2. IdleSince'
      <4>1. idle' = IdleAge(operated) /\ IdleAge(operated) \in Nat
        <5>1. IdleAge(operated) \in Nat
          BY <1>2, PeriodsAssumption DEF IdleAge, AtMost, NotSet
        <5> QED
          BY <2>3, <5>1 DEF RunPer10ms
      <4>2. quiet' >= AtMost(IdleAge(operated) * PmPeriod, ShutdownTicks)
        <5>1. CASE operated \/ idle = NotSet
          <6>1. IdleAge(operated) = 0
            BY <5>1 DEF IdleAge
          <6>2. AtMost(0 * PmPeriod, ShutdownTicks) = 0
            BY <1>4 DEF AtMost
          <6> QED
            BY <1>1, <6>1, <6>2
        <5>2. CASE ~operated /\ idle # NotSet
          <6>1. IdleAge(operated) <= idle + 1
            BY <1>2, <5>2, PeriodsAssumption DEF IdleAge, AtMost, NotSet
          <6> QED
            BY <1>1, <1>6, <1>8, <4>1, <5>2, <6>1, QuietPeriods
        <5> QED
          BY <5>1, <5>2
      <4>3. IdleAge(operated) * PmPeriod + 0 = IdleAge(operated) * PmPeriod
        BY <1>4, <4>1
      <4> QED
        BY <2>1, <4>1, <4>2, <4>3 DEF IdleSince, ShutdownTicks, AtMost
    <3>3. RequestMeant'
      <4> SUFFICES ASSUME pm_req' = 1
                   PROVE  due' = 0
        BY DEF RequestMeant
      <4>1. CASE ChordSuspend(down)
        BY <1>1, <2>1, <4>1 DEF DueToSleep
      <4>2. CASE ~ChordSuspend(down)
        <5>1. quiet' >= SuspendTicks => due' = 0
          BY <1>1 DEF DueToSleep
        <5>2. IdleRequest(operated) = 1
          BY <2>3, <4>2 DEF RunPer10ms
        <5>3. ~operated
          BY <1>1, <5>2 DEF IdleRequest
        <5>4. CASE IdleAge(operated) > SuspendPeriod
          <6>1. idle # NotSet
            BY <5>4, PeriodsAssumption DEF IdleAge
          <6>2. SuspendPeriod + 1 \in Nat /\ SuspendPeriod + 1 <= idle + 1
            BY <1>2, <5>3, <5>4, <6>1, PeriodsAssumption DEF IdleAge, AtMost, NotSet
          <6>3. quiet' >= AtMost((SuspendPeriod + 1) * PmPeriod, ShutdownTicks)
            BY <1>1, <1>6, <1>8, <5>3, <6>1, <6>2, QuietPeriods
          <6>4. quiet' >= SuspendTicks
            BY <1>1, <1>4, <6>3 DEF AtMost, SuspendTicks
          <6> QED
            BY <5>1, <6>4
        <5>5. CASE IdleAge(operated) <= SuspendPeriod
          <6>1. pm_req = 1
            <7>1. IdleAge(operated) \in Nat
              BY <1>2, PeriodsAssumption DEF IdleAge, AtMost, NotSet
            <7> QED
              BY <5>2, <5>3, <5>5, <7>1, PeriodsAssumption DEF IdleRequest
          <6>2. due = 0
            BY <1>1, <1>6, <5>3, <6>1 DEF RequestMeant
          <6>3. quiet' # 0
            BY <1>1, <5>3
          <6> QED
            BY <1>1, <6>2, <6>3
        <5>6. IdleAge(operated) \in Nat /\ SuspendPeriod \in Nat
          BY <1>2, PeriodsAssumption DEF IdleAge, AtMost, NotSet
        <5> QED
          BY <5>4, <5>5, <5>6
      <4> QED
        BY <4>1, <4>2
    <3> QED
      BY <3>1, <3>2, <3>3
  <2> QED
    BY <1>1, <2>1, <2>2, <2>3 DEF RunPeriodic, SwitchOff
<1> QED
  BY <1>7, <1>8

LEMMA MainPower == Power /\ Typing' /\ MainLoop => Power'
<1> SUFFICES ASSUME Power, Typing', MainLoop PROVE Power'
  OBVIOUS
<1>1. UNCHANGED phase /\ powered /\ UNCHANGED quiet
  BY DEF MainLoop, Loop, Scan, HandleEvents, Handler, HandlerShutdown, HandlerResume,
         MainStep, history
<1>2. CASE HandlerShutdown
  <2>1. powered' = FALSE
    BY <1>2 DEF HandlerShutdown, SwitchOff
  <2> QED
    BY <2>1 DEF Power, Remembered, IdleSince, RequestMeant
<1>3. CASE HandlerResume
  <2>1. pm_req' = 0 /\ pc' = "loop" /\ UNCHANGED <<powered, dont_sleep, idle>>
    BY <1>3 DEF HandlerResume, Resume, Goto
  <2> QED
    BY <1>1, <2>1 DEF Power, Remembered, IdleSince, RequestMeant,
       ShutdownTicks, AtMost
<1>4. CASE Loop \/ Scan \/ HandleEvents \/ Handler
  <2>1. UNCHANGED <<powered, dont_sleep, pm_req, idle, due>>
    BY <1>4 DEF Loop, Scan, HandleEvents, Handler, Check, Suspend, FallAsleep, Poll, Wake,
                pvars, history
  <2> QED
    BY <1>1, <2>1 DEF Power, Remembered, IdleSince, RequestMeant,
       ShutdownTicks, AtMost
<1> QED
  BY <1>2, <1>3, <1>4 DEF MainLoop

LEMMA StutterPower == Power /\ Typing' /\ UNCHANGED vars => Power'
BY DEF Power, Remembered, IdleSince, RequestMeant,
       ShutdownTicks, SuspendTicks, AtMost, vars, pvars, main, history

LEMMA PowerInvariant == Spec => []Power
<1>1. Power /\ Typing' /\ [Next]_vars => Power'
  BY TickPower, MainPower, StutterPower DEF Next
<1> QED
  BY <1>1, InitPower, TypingInvariant, PTL DEF Spec

LEMMA MainSleeps == Power /\ MainLoop /\ GoesToSleep => due < PmPeriod
<1> SUFFICES ASSUME Power, MainLoop, GoesToSleep PROVE due < PmPeriod
  OBVIOUS
<1>1. powered
  BY DEF MainLoop, Loop, Scan, HandleEvents, Handler, HandlerShutdown, HandlerResume, MainStep
<1>2. pm_req = 1
  BY DEF GoesToSleep, MainLoop, Loop, Scan, HandleEvents, Handler, HandlerShutdown,
         HandlerResume, Check, Suspend, FallAsleep, Poll, Wake, Resume, Goto
<1>3. due \in Nat /\ phase \in 0 .. PmPeriod - 1
  BY PmPeriodAssumption DEF Power, Typing, TypeOK, NotDue
<1> QED
  BY <1>1, <1>2, <1>3, PmPeriodAssumption DEF Power, RequestMeant

(* The panel sleeps for a reason only, and a fresh one, whatever the times   *)
(* are and wherever the interrupt comes.                                     *)
THEOREM SleepsOnlyForAReason == Spec => SleepsForAReason
<1>1. Power /\ [Next]_vars => [GoesToSleep => due < PmPeriod]_vars
  <2> SUFFICES ASSUME Power, Next PROVE GoesToSleep => due < PmPeriod
    OBVIOUS
  <2>1. CASE SysTick
    BY <2>1 DEF SysTick, GoesToSleep
  <2>2. CASE MainLoop
    BY <2>2, MainSleeps
  <2> QED
    BY <2>1, <2>2 DEF Next
<1> QED
  BY <1>1, PowerInvariant, PTL DEF Spec, SleepsForAReason
-----------------------------------------------------------------------------
(* No event from one bounce. While the driver has found the key down only    *)
(* once, its context is PRESSED and younger than what the driver needs to    *)
(* find it down again or to give it up, so the debounce time is not over.    *)
Bound ==
  CASE FunKeyState = "FILTER0"   -> lastTick + 1
    [] FunKeyState = "SCAN_KEY"  -> Filter + 2
    [] FunKeyState = "KEY_PRSED" -> 1
    [] FunKeyState = "FILTER1"   -> lastTick + 2

ScanFresh == pc = "scan" => lag <= 1 /\ (stepped => lag = 0)

FoundAtLeastOnce == FunKeyVal # NoneDown \/ Active # {} => found >= 1

Unconfirmed ==
  \A k \in Keys : key_contexts[k] # Idle /\ found < 2 =>
    /\ key_contexts[k].state = "PRESSED"
    /\ k = FunKeyVal => key_contexts[k].pressed + lag <= Bound

Bounce == Typing /\ ScanFresh /\ FoundAtLeastOnce /\ Unconfirmed

BoundOK == Bound \in 1 .. Filter + 2

LEMMA BoundType == DriverTypeOK => BoundOK
BY FilterAssumption DEF BoundOK, DriverTypeOK, FunKeyStates, Bound

(* The driver finds the key it reports down, or the bound grows with time.   *)
LEMMA DriverBound ==
  ASSUME DriverTypeOK, NEW down \in SUBSET Keys, ScanFunKey(down)
  PROVE  /\ \A k \in Keys : k = FunKeyVal' =>
              k \in FoundDown(down) \/ (FunKeyVal = k /\ Bound + 1 <= Bound')
         /\ FunKeyVal' # NoneDown /\ FunKeyVal' # FunKeyVal => FoundDown(down) = {FunKeyVal'}
<1>1. FirstDown(down) \in down \cup {NoneDown}
  BY FirstDownType
<1>2. \A k \in Keys : k # NoneDown
  BY KeysAssumption DEF NoneDown
<1>3. Filter \in Nat /\ lastTick \in 0 .. Filter
  BY FilterAssumption DEF DriverTypeOK
<1>4. CASE FunKeyState = "SCAN_KEY"
  <2>1. FunKeyVal' = FirstDown(down) /\ FoundDown(down) = {FirstDown(down)} \ {NoneDown}
    BY <1>4 DEF ScanFunKey, FoundDown
  <2> QED
    BY <1>1, <1>2, <2>1
<1>5. CASE FunKeyState = "KEY_PRSED"
  <2>1. /\ FunKeyVal' = FunKeyVal /\ lastTick' = 0
        /\ FunKeyState' = IF FunKeyVal \in down THEN "KEY_PRSED" ELSE "FILTER1"
        /\ FoundDown(down) = {FunKeyVal} \cap down
    BY <1>5 DEF ScanFunKey, ToState, FoundDown
  <2>2. FunKeyVal \notin down => Bound + 1 <= Bound'
    BY <1>5, <2>1 DEF Bound
  <2> QED
    BY <2>1, <2>2
<1>6. CASE FunKeyState \in {"FILTER0", "FILTER1"} /\ lastTick < Filter
  <2>1. UNCHANGED <<FunKeyState, FunKeyVal>> /\ lastTick' = lastTick + 1
    BY <1>3, <1>6 DEF ScanFunKey
  <2>2. Bound + 1 <= Bound'
    BY <1>3, <1>6, <2>1 DEF Bound
  <2> QED
    BY <2>1, <2>2
<1>7. CASE FunKeyState = "FILTER0" /\ lastTick = Filter
  <2>1. /\ FunKeyVal' = FunKeyVal
        /\ FunKeyState' = IF FunKeyVal \in down THEN "KEY_PRSED" ELSE "SCAN_KEY"
        /\ FoundDown(down) = {FunKeyVal} \cap down
    BY <1>3, <1>7 DEF ScanFunKey, ToState, FoundDown
  <2>2. FunKeyVal \notin down => Bound + 1 <= Bound'
    BY <1>3, <1>7, <2>1 DEF Bound
  <2> QED
    BY <2>1, <2>2
<1>8. CASE FunKeyState = "FILTER1" /\ lastTick = Filter
  <2>1. /\ FunKeyVal' = IF FunKeyVal \in down THEN FunKeyVal ELSE NoneDown
        /\ FoundDown(down) = {FunKeyVal} \cap down
    BY <1>3, <1>8 DEF ScanFunKey, FoundDown
  <2> QED
    BY <1>2, <2>1
<1> QED
  BY <1>3, <1>4, <1>5, <1>6, <1>7, <1>8 DEF DriverTypeOK, FunKeyStates

LEMMA InitBounce == Init => Bounce
<1> SUFFICES ASSUME Init PROVE Bounce
  OBVIOUS
<1>1. Typing
  BY InitTyping
<1>2. \A k \in Keys : key_contexts[k] = Idle
  BY DEF Init, ControlInit
<1>3. FunKeyVal = NoneDown /\ pc = "loop"
  BY DEF Init, DriverInit
<1> QED
  BY <1>1, <1>2, <1>3 DEF Bounce, ScanFresh, FoundAtLeastOnce, Unconfirmed, Active

LEMMA TickBounce == Bounce /\ Typing' /\ SysTick => Bounce'
<1> SUFFICES ASSUME Bounce, Typing', SysTick PROVE Bounce'
  OBVIOUS
<1> USE DEF Bounce
<1>1. PICK down \in SUBSET Keys, other \in {"none", "knob", "matrix"} :
        ScanFunKey(down) /\ Observe(down, other)
  BY DEF SysTick, HidScan
<1>2. /\ lag' = AtMost(lag + 1, LongPress) /\ pc' = pc /\ key_contexts' = key_contexts
      /\ pc = "scan" => stepped /\ ~stepped'
  BY DEF SysTick, Prompt, kvars
<1>3. /\ DriverTypeOK /\ ControlTypeOK
      /\ lag \in 0 .. LongPress /\ found \in 0 .. 2 /\ LongPress \in Nat
  BY TimesAssumption DEF Typing, TypeOK, Looks
<1>4. lag' \in Nat /\ lag' <= lag + 1
  BY <1>2, <1>3 DEF AtMost
<1>5. Active' = Active
  BY <1>2 DEF Active
<1>6. /\ \A k \in Keys : k = FunKeyVal' =>
           k \in FoundDown(down) \/ (FunKeyVal = k /\ Bound + 1 <= Bound')
      /\ FunKeyVal' # NoneDown /\ FunKeyVal' # FunKeyVal => FoundDown(down) = {FunKeyVal'}
  BY <1>1, <1>3, DriverBound
<1>7. found' = IF Active = {} /\ FunKeyVal' # FunKeyVal THEN Cardinality(FoundDown(down))
               ELSE IF FoundDown(down) \cap Followed # {} THEN AtMost(found + 1, 2)
               ELSE found
  BY <1>1 DEF Observe
<1>8. ScanFresh'
  BY <1>2, <1>3, <1>4 DEF ScanFresh
<1>9. ~(Active = {} /\ FunKeyVal' # FunKeyVal) =>
        /\ found' \in Nat /\ found' >= found
        /\ FoundDown(down) \cap Followed # {} /\ found >= 1 => found' = 2
  <2>1. AtMost(found + 1, 2) \in Nat /\ AtMost(found + 1, 2) >= found
        /\ (found >= 1 => AtMost(found + 1, 2) = 2)
    BY <1>3 DEF AtMost
  <2> QED
    BY <1>3, <1>7, <2>1
<1>10. FoundAtLeastOnce'
  <2>1. CASE Active = {} /\ FunKeyVal' # FunKeyVal
    <3>1. FunKeyVal' # NoneDown => found' = 1
      <4>1. \A k : Cardinality({k}) = 1
        BY FS_Singleton
      <4> QED
        BY <1>6, <1>7, <2>1, <4>1
    <3> QED
      BY <1>5, <2>1, <3>1 DEF FoundAtLeastOnce
  <2>2. CASE ~(Active = {} /\ FunKeyVal' # FunKeyVal)
    BY <1>3, <1>5, <1>9, <2>2 DEF FoundAtLeastOnce
  <2> QED
    BY <2>1, <2>2
<1>11. Unconfirmed'
  <2> SUFFICES ASSUME NEW k \in Keys, key_contexts[k] # Idle, found' < 2
               PROVE  /\ key_contexts[k].state = "PRESSED"
                      /\ k = FunKeyVal' => key_contexts[k].pressed + lag' <= Bound'
    BY <1>2 DEF Unconfirmed, Idle
  <2>1. k \in Active /\ Followed = Active /\ found >= 1
    BY DEF Active, Followed, FoundAtLeastOnce
  <2>2. found < 2 /\ k \notin FoundDown(down)
    BY <1>3, <1>9, <2>1
  <2>3. /\ key_contexts[k].state = "PRESSED"
        /\ k = FunKeyVal => key_contexts[k].pressed + lag <= Bound
    BY <2>2 DEF Unconfirmed
  <2>4. ASSUME k = FunKeyVal'
        PROVE  key_contexts[k].pressed + lag' <= Bound'
    <3>1. FunKeyVal = k /\ Bound + 1 <= Bound'
      BY <1>6, <2>2, <2>4
    <3>2. key_contexts[k].pressed \in Nat
      BY <1>3, TimesAssumption DEF ControlTypeOK, Context
    <3>3. Bound \in Nat
      BY <1>3, BoundType, FilterAssumption DEF BoundOK
    <3>4. Bound' \in Nat
      <4>1. DriverTypeOK'
        BY <1>1, <1>3, DriverType
      <4>2. BoundOK'
        BY <4>1, BoundType, PTL
      <4> QED
        BY <4>2, FilterAssumption DEF BoundOK
    <3> QED
      BY <1>3, <1>4, <2>3, <3>1, <3>2, <3>3, <3>4
  <2> QED
    BY <2>3, <2>4
<1> QED
  BY <1>8, <1>10, <1>11

LEMMA MainBounce == Bounce /\ Typing' /\ MainLoop => Bounce'
<1> SUFFICES ASSUME Bounce, Typing', MainLoop PROVE Bounce'
  OBVIOUS
<1> USE DEF Bounce
<1>1. UNCHANGED <<FunKeyState, FunKeyVal, lastTick>> /\ stepped'
  BY DEF MainLoop, Loop, Scan, HandleEvents, Handler, HandlerShutdown, HandlerResume,
         MainStep, dvars
<1>2. Bound' = Bound
  BY <1>1 DEF Bound
<1>3. /\ ControlTypeOK /\ DriverTypeOK
      /\ lag \in 0 .. LongPress /\ found \in 0 .. 2 /\ LongPress \in Nat
  BY TimesAssumption DEF Typing, TypeOK, Looks
<1>4. \A k \in Keys : key_contexts[k] \in Context /\ key_contexts[k].pressed \in Nat
  BY <1>3, TimesAssumption DEF ControlTypeOK, Context
<1>5. Bound \in Nat /\ 1 <= Bound /\ Bound <= Filter + 2
  BY <1>3, BoundType, FilterAssumption DEF BoundOK
<1>6. CASE Loop
  <2>1. /\ key_contexts' = [k \in Keys |-> Later(key_contexts[k], lag)]
        /\ lag' = 0 /\ found' = found
    BY <1>6 DEF Loop, history
  <2>2. \A k \in Keys : /\ key_contexts'[k].state = key_contexts[k].state
                        /\ key_contexts[k] = Idle => key_contexts'[k] = Idle
    BY <1>3, <1>4, <2>1, LaterType
  <2>3. \A k \in Keys : key_contexts[k].state = "PRESSED" =>
          key_contexts'[k].pressed \in Nat /\ key_contexts'[k].pressed <= key_contexts[k].pressed + lag
    BY <1>3, <1>4, <2>1 DEF Later, AtMost
  <2>4. Active' \subseteq Active
    BY <2>2 DEF Active
  <2>5. ScanFresh' /\ FoundAtLeastOnce'
    BY <1>1, <2>1, <2>4 DEF ScanFresh, FoundAtLeastOnce
  <2>6. Unconfirmed'
    <3> SUFFICES ASSUME NEW k \in Keys, key_contexts'[k] # Idle, found < 2
                 PROVE  /\ key_contexts'[k].state = "PRESSED"
                        /\ k = FunKeyVal => key_contexts'[k].pressed + 0 <= Bound
      BY <1>1, <1>2, <2>1 DEF Unconfirmed
    <3>1. /\ key_contexts[k].state = "PRESSED"
          /\ k = FunKeyVal => key_contexts[k].pressed + lag <= Bound
      BY <2>2 DEF Unconfirmed
    <3> QED
      BY <1>3, <1>4, <1>5, <2>2, <2>3, <3>1
  <2> QED
    BY <2>5, <2>6
<1>7. CASE Scan
  <2>1. /\ UpdateContexts(FunKeyVal) /\ lag' = lag /\ pc = "scan" /\ pc' = "events"
        /\ found' = IF FunKeyVal = NoneDown THEN 0
                    ELSE IF FunKeyVal \in Followed THEN found ELSE 1
    BY <1>7 DEF Scan, Goto
  <2>2. \A k \in Keys : key_contexts'[k] = NextContext(key_contexts[k], k = FunKeyVal)
    BY <2>1 DEF UpdateContexts
  <2>3. \A k \in Keys : k # FunKeyVal => key_contexts'[k] = Idle
    BY <2>2 DEF NextContext
  <2>4. NoneDown \notin Keys
    BY KeysAssumption DEF NoneDown
  <2>5. lag <= 1
    BY <2>1 DEF ScanFresh
  <2>6. FunKeyVal # NoneDown => found' >= 1 /\ found' \in Nat
    <3>1. FunKeyVal \in Followed /\ FunKeyVal # NoneDown => found >= 1
      BY DEF FoundAtLeastOnce
    <3> QED
      BY <1>3, <2>1, <3>1
  <2>7. ScanFresh' /\ FoundAtLeastOnce'
    <3>1. FunKeyVal = NoneDown => Active' = {}
      BY <2>3, <2>4 DEF Active
    <3> QED
      BY <1>1, <2>1, <2>6, <3>1 DEF ScanFresh, FoundAtLeastOnce
  <2>8. Unconfirmed'
    <3> SUFFICES ASSUME NEW k \in Keys, key_contexts'[k] # Idle, found' < 2
                 PROVE  /\ key_contexts'[k].state = "PRESSED"
                        /\ key_contexts'[k].pressed + lag <= Bound
      BY <1>1, <1>2, <2>1 DEF Unconfirmed
    <3>1. k = FunKeyVal /\ FunKeyVal # NoneDown
      BY <2>3, <2>4
    <3>2. PICK down \in BOOLEAN : down /\ key_contexts'[k] = NextContext(key_contexts[k], down)
      <4>1. (k = FunKeyVal) \in BOOLEAN /\ (k = FunKeyVal)
        BY <3>1
      <4> QED
        BY <2>2, <4>1
    <3>3. CASE key_contexts[k] = Idle
      <4>1. key_contexts'[k] = [Idle EXCEPT !.state = "PRESSED"]
        BY <3>2, <3>3 DEF NextContext, EventType, Idle
      <4> QED
        BY <1>3, <1>5, <2>5, <4>1 DEF Idle
    <3>4. CASE key_contexts[k] # Idle
      <4>1. k \in Followed
        BY <3>4 DEF Followed, Active
      <4>2. found < 2
        BY <2>1, <3>1, <4>1
      <4>3. key_contexts[k].state = "PRESSED" /\ key_contexts[k].pressed + lag <= Bound
        BY <3>1, <3>4, <4>2 DEF Unconfirmed
      <4>4. ~(key_contexts[k].pressed >= Debounce)
        BY <1>3, <1>4, <1>5, <4>3, DebounceAssumption, TimesAssumption, FilterAssumption
      <4>5. key_contexts'[k] = key_contexts[k]
        BY <3>2, <4>3, <4>4 DEF NextContext, EventType
      <4> QED
        BY <4>3, <4>5
    <3> QED
      BY <3>3, <3>4
  <2> QED
    BY <2>7, <2>8
<1>8. CASE HandleEvents \/ Handler \/ HandlerShutdown \/ HandlerResume
  <2>1. UNCHANGED <<key_contexts, lag, found>>
    BY <1>8 DEF HandleEvents, Handler, HandlerShutdown, HandlerResume, kvars, history
  <2>2. pc' # "scan"
    BY <1>8 DEF HandleEvents, Handler, Check, Suspend, FallAsleep, Poll, Wake,
                HandlerShutdown, SwitchShutdown, HandlerResume, Resume, Goto
  <2>3. Active' = Active
    BY <2>1 DEF Active
  <2> QED
    BY <1>1, <1>2, <2>1, <2>2, <2>3 DEF ScanFresh, FoundAtLeastOnce, Unconfirmed
<1> QED
  BY <1>6, <1>7, <1>8 DEF MainLoop

LEMMA StutterBounce == Bounce /\ Typing' /\ UNCHANGED vars => Bounce'
<1> SUFFICES ASSUME Bounce, Typing', UNCHANGED vars PROVE Bounce'
  OBVIOUS
<1>1. UNCHANGED <<FunKeyState, FunKeyVal, lastTick, key_contexts, lag, found, pc, stepped>>
  BY DEF vars, dvars, kvars, main, history
<1>2. Bound' = Bound /\ Active' = Active
  BY <1>1 DEF Bound, Active
<1> QED
  BY <1>1, <1>2 DEF Bounce, ScanFresh, FoundAtLeastOnce, Unconfirmed

LEMMA BounceInvariant == Spec => []Bounce
<1>1. Bounce /\ Typing' /\ [Next]_vars => Bounce'
  BY TickBounce, MainBounce, StutterBounce DEF Next
<1> QED
  BY <1>1, InitBounce, TypingInvariant, PTL DEF Spec

(* An event is reported only for a key the driver found down twice at least, *)
(* for every filter time and every debounce time longer by three ticks.      *)
THEOREM OneBounceIsSilent == Spec => NoEventFromOneBounce
<1>1. ASSUME Bounce
      PROVE  [\A k \in Keys : Scan /\ Reports(k) => found = 2]_vars
  <2>1. ASSUME NEW k \in Keys, Reports(k)
        PROVE  found = 2
    <3>1. key_contexts[k].state \in {"HELD", "LONG_PRESSED"}
      BY <2>1 DEF Reports, EventType
    <3>2. key_contexts[k] # Idle
      BY <3>1 DEF Idle
    <3>3. ~(found < 2)
      BY <1>1, <3>1, <3>2 DEF Bounce, Unconfirmed
    <3> QED
      BY <1>1, <3>3 DEF Bounce, Typing, TypeOK, Looks
  <2> QED
    BY <2>1
<1> QED
  BY <1>1, BounceInvariant, PTL DEF NoEventFromOneBounce
=============================================================================
