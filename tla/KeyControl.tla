----------------------------- MODULE KeyControl -----------------------------
(***************************************************************************)
(* key_control.c: one state machine per function key, which the main loop  *)
(* steps with the key the driver reports, and the queue of events for the  *)
(* menu. Times are kept as ages: what the code computes as the difference  *)
(* between the tick of the scan and a stored tick, as far as the           *)
(* comparisons of process_key_state_machine can tell.                      *)
(***************************************************************************)
EXTENDS KeyDriver, Sequences, FiniteSets

CONSTANTS
  Debounce,        (* key_config, in ticks: 20, 1000, 500 and 100           *)
  LongPress,
  RepeatDelay,
  RepeatInterval,
  QueueSize        (* EVENT_QUEUE_SIZE                                      *)

ASSUME TimesAssumption ==
  /\ LongPress \in Nat
  /\ Debounce \in 1 .. LongPress /\ RepeatInterval \in 1 .. LongPress
  /\ RepeatDelay \in 0 .. LongPress
ASSUME QueueAssumption == QueueSize \in Nat \ {0}

VARIABLES
  key_contexts,   (* for each key: its state and ages                       *)
  event_queue

kvars == <<key_contexts, event_queue>>

(* what each key means to the menu *)
key_mapping == <<"LEFT", "RIGHT", "ESC", "DOWN", "UP", "ENTER">>

FunKeys == {key_mapping[k] : k \in Keys}

KeyStates  == {"IDLE", "PRESSED", "HELD", "LONG_PRESSED"}
EventTypes == {"PRESS", "LONG_PRESS", "REPEAT"}

(* pressed: the age of press_start_time, repeated: of last_repeat_time; both *)
(* stop where no comparison can tell them from an older time.                *)
Context == [state : KeyStates, pressed : 0 .. LongPress, repeated : 0 .. RepeatInterval]
Idle    == [state |-> "IDLE", pressed |-> 0, repeated |-> 0]

Event == [type : EventTypes, key : FunKeys]

ControlTypeOK ==
  /\ key_contexts \in [Keys -> Context]
  /\ event_queue \in Seq(Event) /\ Len(event_queue) <= QueueSize

(* key_control_init *)
ControlInit ==
  /\ key_contexts = [k \in Keys |-> Idle]
  /\ event_queue = << >>

(* The tick the main loop works with moves on by d. *)
Later(c, d) ==
  IF c.state = "IDLE" THEN c
  ELSE [state    |-> c.state,
        pressed  |-> AtMost(c.pressed + d, LongPress),
        repeated |-> IF c.state = "LONG_PRESSED"
                     THEN AtMost(c.repeated + d, RepeatInterval) ELSE 0]

EventTypeOnRelease(c, down) ==
  CASE c.state \in {"HELD", "LONG_PRESSED"} /\ ~down -> "PRESS"
    [] c.state = "HELD" /\ down /\ c.pressed >= LongPress -> "LONG_PRESS"
    [] OTHER -> "NONE"

EventTypeReleased(c, down) ==
  CASE c.state = "HELD" /\ ~down -> "PRESS"
    [] c.state = "LONG_PRESSED" /\ ~down -> "RELEASE"
    [] c.state = "HELD" /\ down /\ c.pressed >= LongPress -> "LONG_PRESS"
    [] OTHER -> "NONE"

(* process_key_state_machine, with long presses and repeats enabled: nothing *)
(* in the program disables them. down says whether the driver reports the    *)
(* key. It is in two parts, the event ...                                    *)
EventType(c, down) ==
  CASE c.state = "HELD" /\ ~down -> "PRESS"
    [] c.state = "HELD" /\ down /\ c.pressed >= LongPress -> "LONG_PRESS"
    [] /\ c.state = "LONG_PRESSED" /\ down
       /\ c.pressed >= RepeatDelay /\ c.repeated >= RepeatInterval -> "REPEAT"
    [] OTHER -> "NONE"

NextContextUnfiltered(c, down) ==
  CASE ~down -> Idle
    [] down /\ c.state = "IDLE" -> [Idle EXCEPT !.state = "HELD"]
    [] down /\ EventType(c, down) = "LONG_PRESS" -> [c EXCEPT !.state = "LONG_PRESSED"]
    [] OTHER -> c

(* ... and the next state *)
NextContext(c, down) ==
  CASE ~down -> Idle
    [] down /\ c.state = "IDLE" -> [Idle EXCEPT !.state = "PRESSED"]
    [] down /\ c.state = "PRESSED" /\ c.pressed >= Debounce -> [c EXCEPT !.state = "HELD"]
    [] down /\ EventType(c, down) = "LONG_PRESS" -> [c EXCEPT !.state = "LONG_PRESSED"]
    [] down /\ EventType(c, down) = "REPEAT" -> [c EXCEPT !.repeated = 0]
    [] OTHER -> c

(* The keys that report an event when the driver reports raw, in the order   *)
(* of the loop over the contexts                                             *)
Reporting(raw) == {k \in Keys : EventType(key_contexts[k], k = raw) # "NONE"}

InOrder(S) ==
  CHOOSE s \in [1 .. Cardinality(S) -> S] : \A i, j \in DOMAIN s : i < j => s[i] < s[j]

EventOf(k, raw) == [type |-> EventType(key_contexts[k], k = raw), key |-> key_mapping[k]]

(* event_queue_push, for each event in turn: a full queue refuses *)
Pushed(q, events) == SubSeq(q \o events, 1, AtMost(Len(q \o events), QueueSize))

(* update_key_contexts *)
UpdateContexts(raw) ==
  /\ key_contexts' = [k \in Keys |-> NextContext(key_contexts[k], k = raw)]
  /\ event_queue' =
       LET reporting == InOrder(Reporting(raw))
       IN Pushed(event_queue, [i \in DOMAIN reporting |-> EventOf(reporting[i], raw)])

(* menu_handle_key_event takes what is in the queue, one event after the     *)
(* other; what the menu does with each is in Menu                            *)
DrainEvents == event_queue' = << >>

(* key_control_is_key_pressed *)
IsPressed(k) == key_contexts[k].state \in {"HELD", "LONG_PRESSED"}
=============================================================================
