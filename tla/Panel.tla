------------------------------- MODULE Panel --------------------------------
(***************************************************************************)
(* The keys and the power of the wired panel: the tick interrupt (SysTick: *)
(* keyboard driver and power saver) against the main loop (key control,    *)
(* the menu taking the events, pm_handler). The interrupt comes between    *)
(* any two steps of the main loop, which may take as long as it likes over *)
(* a pass; but the steps that follow one another at once are less than a   *)
(* tick apart.                                                             *)
(***************************************************************************)
EXTENDS KeyControl, PowerManager

CONSTANT PmPeriod   (* ticks between two calls of bsp_RunPer10ms: 10 *)

ASSUME PmPeriodAssumption == PmPeriod \in Nat \ {0}
ASSUME DebounceAssumption == Filter + 2 < Debounce

VARIABLES
  powered,
  phase,       (* _ulSysDelay % PmPeriod                                    *)
  lag,         (* ticks since the tick of the last scan, as far as it counts *)
  MtxKeyVal,   (* is a key of the matrix keyboard reported                  *)
  stepped,     (* has the main loop moved since the last tick               *)
  found,       (* history: how often the driver has found Followed down     *)
  quiet,       (* history: ticks since the panel was operated               *)
  due          (* history: ticks since the panel, last due to sleep, is in  *)
               (* use again, 0 while it is due                              *)

main    == <<pc, lag, lastVal, stepped>>
history == <<found, quiet, due>>
vars == <<powered, phase, MtxKeyVal, dvars, kvars, pvars, main, history>>

(* how long a suspend and a shutdown take, in ticks *)
SuspendTicks  == (SuspendPeriod + 1) * PmPeriod
ShutdownTicks == (ShutdownPeriod + 1) * PmPeriod

Looks == 0 .. 2

NotDue == PmPeriod + 1

TypeOK ==
  /\ DriverTypeOK /\ ControlTypeOK /\ PowerTypeOK
  /\ powered \in BOOLEAN
  /\ phase \in 0 .. PmPeriod - 1
  /\ lag \in 0 .. LongPress
  /\ MtxKeyVal \in BOOLEAN
  /\ stepped \in BOOLEAN
  /\ found \in Looks
  /\ quiet \in 0 .. ShutdownTicks
  /\ due \in 0 .. NotDue

Init ==
  /\ powered = TRUE
  /\ DriverInit /\ ControlInit /\ PowerInit
  /\ phase = 0 /\ lag = 0 /\ MtxKeyVal = FALSE
  /\ pc = "loop" /\ lastVal = NoVal /\ stepped = TRUE
  /\ found = 0 /\ quiet = 0 /\ due = NotDue
-----------------------------------------------------------------------------
(* The interrupt. Where the main loop goes from one step to the next at once *)
(* there is no second tick before it has moved.                              *)
Prompt == {"scan", "switch", "asleep"}

(* bsp_RunPer1ms: the keys, then whether any of them, or the knob, is in use *)
HidScan(down, other) == ScanFunKey(down) /\ MtxKeyVal' = (other = "matrix")

InUse(other) == FunKeyVal' # NoneDown \/ other # "none"

SwitchOff == powered' = FALSE /\ UNCHANGED pvars

(* bsp_RunPer10ms at every PmPeriod-th tick *)
RunPeriodic(operated, down) ==
  \/ /\ phase' # 0
     /\ dont_sleep' = operated
     /\ UNCHANGED <<powered, pm_req, idle, chord>>
  \/ /\ phase' = 0
     /\ \E vbus \in BOOLEAN : SwitchesOff(operated, down, vbus)
     /\ SwitchOff
  \/ /\ phase' = 0
     /\ \E vbus \in BOOLEAN : ~SwitchesOff(operated, down, vbus)
     /\ RunPer10ms(operated, down)
     /\ UNCHANGED powered

(* The key whose context is active, or else the one the driver reports *)
Active == {k \in Keys : key_contexts[k] # Idle}
Followed == IF Active = {} THEN {FunKeyVal} ELSE Active

DueToSleep(down) == quiet' >= SuspendTicks \/ (phase' = 0 /\ ChordSuspend(down))

Observe(down, other) ==
  /\ found' = IF Active = {} /\ FunKeyVal' # FunKeyVal THEN Cardinality(FoundDown(down))
              ELSE IF FoundDown(down) \cap Followed # {} THEN AtMost(found + 1, 2)
              ELSE found
  /\ quiet' = IF InUse(other) THEN 0 ELSE AtMost(quiet + 1, ShutdownTicks)
  /\ due' = IF DueToSleep(down) \/ (due = 0 /\ ~InUse(other)) THEN 0
            ELSE AtMost(due + 1, NotDue)

SysTick ==
  /\ powered
  /\ pc \in Prompt => stepped
  /\ \E down \in SUBSET Keys, other \in {"none", "knob", "matrix"} :
       /\ HidScan(down, other)
       /\ phase' = (phase + 1) % PmPeriod
       /\ RunPeriodic(dont_sleep \/ InUse(other), down)
       /\ Observe(down, other)
  /\ lag' = AtMost(lag + 1, LongPress)
  /\ stepped' = (pc \notin Prompt)
  /\ UNCHANGED <<kvars, pc, lastVal>>
-----------------------------------------------------------------------------
(* The main loop: main.c, key_menu_loop *)
MainStep ==
  /\ powered
  /\ stepped' = TRUE
  /\ UNCHANGED <<phase, MtxKeyVal, dvars>>

(* a scan is due once a tick has passed; it works with this tick *)
Loop ==
  /\ pc = "loop"
  /\ Goto(IF lag = 0 THEN "check" ELSE "scan")
  /\ key_contexts' = [k \in Keys |-> Later(key_contexts[k], lag)]
  /\ lag' = 0
  /\ MainStep
  /\ UNCHANGED <<powered, event_queue, pvars, lastVal, history>>

(* key_control_scan *)
Scan ==
  /\ pc = "scan"
  /\ Goto("events")
  /\ UpdateContexts(FunKeyVal)
  /\ found' = IF FunKeyVal = NoneDown THEN 0
              ELSE IF FunKeyVal \in Followed THEN found
              ELSE 1
  /\ MainStep
  /\ UNCHANGED <<powered, lag, pvars, lastVal, quiet, due>>

(* menu_handle_key_event *)
HandleEvents ==
  /\ pc = "events"
  /\ Goto("check")
  /\ DrainEvents
  /\ MainStep
  /\ UNCHANGED <<powered, key_contexts, lag, pvars, lastVal, history>>

Vals == [funkey |-> FunKeyVal # NoneDown, mtxkey |-> MtxKeyVal]

(* pm_handler *)
Handler ==
  /\ Check \/ Suspend \/ FallAsleep(Vals) \/ Poll(Vals) \/ Wake(Vals)
  /\ MainStep
  /\ UNCHANGED <<powered, kvars, lag, history>>

HandlerShutdown ==
  /\ SwitchShutdown
  /\ MainStep
  /\ SwitchOff
  /\ UNCHANGED <<kvars, pc, lag, lastVal, history>>

HandlerResume ==
  /\ Resume
  /\ MainStep
  /\ due' = NotDue
  /\ UNCHANGED <<powered, kvars, lag, found, quiet>>

MainLoop == Loop \/ Scan \/ HandleEvents \/ Handler \/ HandlerShutdown \/ HandlerResume

Next == SysTick \/ MainLoop

Fairness == WF_vars(SysTick) /\ WF_vars(MainLoop)

Spec == Init /\ [][Next]_vars /\ Fairness
-----------------------------------------------------------------------------
(* Properties.                                                               *)

(* A contact that closes once, however briefly, and then opens for good      *)
(* gives no event, whatever the main loop is doing meanwhile: the driver has *)
(* found the key down twice at least (bsp_ucScanFunKey reports a key for the *)
(* filter time before it confirms it; the main loop asks for a longer time). *)
Reports(k) == EventType(key_contexts[k], k = FunKeyVal) # "NONE"

NoEventFromOneBounce == [][\A k \in Keys : Scan /\ Reports(k) => found = 2]_vars

(* The panel goes to sleep only when it is due to: nobody operated it for as *)
(* long as a suspend takes, or F5 was pressed with F2 held, and it has not   *)
(* been in use again for a period of 10 ms since then, nor has it slept. The *)
(* interrupt asks for the suspend, the main loop carries it out: a request   *)
(* that is stale by more than that never hits.                               *)
GoesToSleep == pc = "switch" /\ pc' = "suspend"

SleepsForAReason == [][GoesToSleep => due < PmPeriod]_vars

Asleep == pc = "asleep"

(* A sleeping panel does not sleep for ever while a function key goes down   *)
(* and up again and again (pm_suspend sees every press, whatever was down    *)
(* when it started).                                                         *)
KeyWakes ==
  []<>(FunKeyVal = NoneDown) /\ []<>(FunKeyVal # NoneDown) => []<>(~Asleep \/ ~powered)

(* A panel that nobody operates any more ends up asleep, or off, whatever    *)
(* was pending and wherever pm_handler lost a request.                       *)
IdleEnds == <>[](quiet > 0) => []<>(Asleep \/ ~powered)

(* What the menu is given is the stream of events KeyStream promises: the    *)
(* keys come one at a time, no event is refused by a full queue, and each is *)
(* taken before the next scan, however long the main loop takes and however  *)
(* long the panel slept with a key down.                                     *)
PressedKeys == {k \in Keys : IsPressed(k)}
PressedKey  == CHOOSE k \in PressedKeys : TRUE

NoKey   == [key |-> "NONE", long |-> FALSE]
NoEvent == [type |-> "NONE", key |-> "NONE"]

key ==
  IF PressedKeys = {} THEN NoKey
  ELSE [key |-> key_mapping[PressedKey],
        long |-> key_contexts[PressedKey].state = "LONG_PRESSED"]
event == IF event_queue = << >> THEN NoEvent ELSE Head(event_queue)

Stream == INSTANCE KeyStream

ImplementsKeyStream == Stream!Spec
=============================================================================
