----------------------------- MODULE KeyStream ------------------------------
(***************************************************************************)
(* What the keypad promises the menu (key_control.c as menu_system.c uses  *)
(* it): at most one key is down at a time; a key that is let go early gives*)
(* one PRESS, a key held for long gives one LONG_PRESS while it is down,   *)
(* then REPEATs, and nothing when it is let go. The menu takes every event *)
(* before the keys are looked at again.                                    *)
(***************************************************************************)
CONSTANT FunKeys

VARIABLES
  key,     (* the key that is down, and whether its LONG_PRESS was reported *)
  event    (* the event the menu has not handled yet                        *)

NoKey   == [key |-> "NONE", long |-> FALSE]
NoEvent == [type |-> "NONE", key |-> "NONE"]

KeyScan(k, e) == key' = k /\ event' = e

ScanKeys ==
  \/ KeyScan(key, NoEvent)
  \/ /\ key = NoKey
     /\ \E f \in FunKeys : KeyScan([key |-> f, long |-> FALSE], NoEvent)
  \/ /\ key # NoKey /\ ~key.long
     /\ \/ KeyScan(NoKey, [type |-> "PRESS", key |-> key.key])
        \/ KeyScan([key |-> key.key, long |-> TRUE], [type |-> "LONG_PRESS", key |-> key.key])
  \/ /\ key.long
     /\ \/ KeyScan(NoKey, NoEvent)
        \/ KeyScan(key, [type |-> "REPEAT", key |-> key.key])
-----------------------------------------------------------------------------
Init == key = NoKey /\ event = NoEvent

Scan == event = NoEvent /\ ScanKeys

Consume == event # NoEvent /\ KeyScan(key, NoEvent)

Next == Scan \/ Consume

Spec == Init /\ [][Next]_<<key, event>>
=============================================================================
