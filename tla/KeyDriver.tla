----------------------------- MODULE KeyDriver ------------------------------
(***************************************************************************)
(* The function keys in drv_hid.c: bsp_ucScanFunKey, which hid_scan calls  *)
(* from the SysTick interrupt, once a tick. A key that is found down is    *)
(* looked at again after the filter time, and so is a key that is let go.  *)
(* The keys are numbered in the order in which ucScanAllFunKey looks.      *)
(*                                                                         *)
(* Each operator takes the pins as an argument: down is the set of keys    *)
(* whose contacts are closed at this tick, bounces included.               *)
(***************************************************************************)
EXTENDS Naturals

CONSTANTS
  Keys,     (* the keys there are, of F1 to F6                              *)
  Filter    (* ticks a change must last: 10                                 *)

ASSUME KeysAssumption   == Keys \subseteq 1 .. 6
ASSUME FilterAssumption == Filter \in Nat \ {0}

VARIABLES
  FunKeyState,   (* state of the scanner                                    *)
  FunKeyVal,     (* what hid_get_funkey returns: key_cur after each scan    *)
  lastTick       (* scans since the state was entered, in FILTER0 and 1     *)

dvars == <<FunKeyState, FunKeyVal, lastTick>>

NoneDown == 0
F2 == 2
F5 == 5
F6 == 6

AtMost(a, limit) == IF a < limit THEN a ELSE limit

FunKeyStates == {"SCAN_KEY", "FILTER0", "KEY_PRSED", "FILTER1"}

DriverTypeOK ==
  /\ FunKeyState \in FunKeyStates
  /\ FunKeyVal \in Keys \cup {NoneDown}
  /\ lastTick \in 0 .. Filter

DriverInit ==
  /\ FunKeyState = "SCAN_KEY"
  /\ FunKeyVal = NoneDown
  /\ lastTick = 0

(* ucScanAllFunKey: the first key in the order of the scan *)
FirstDown(down) ==
  IF down = {} THEN NoneDown ELSE CHOOSE k \in down : \A j \in down : k <= j

ToState(s) == FunKeyState' = s /\ lastTick' = 0

(* bsp_ucScanFunKey. A change that did not last leaves key_cur as it is: the *)
(* next scan overwrites it.                                                  *)
ScanFunKey(down) ==
  \/ /\ FunKeyState = "SCAN_KEY"
     /\ FunKeyVal' = FirstDown(down)
     /\ ToState(IF FirstDown(down) = NoneDown THEN "SCAN_KEY" ELSE "FILTER0")
  \/ /\ FunKeyState = "KEY_PRSED"
     /\ ToState(IF FunKeyVal \in down THEN "KEY_PRSED" ELSE "FILTER1")
     /\ UNCHANGED FunKeyVal
  \/ /\ FunKeyState \in {"FILTER0", "FILTER1"} /\ lastTick < Filter
     /\ lastTick' = lastTick + 1
     /\ UNCHANGED <<FunKeyState, FunKeyVal>>
  \/ /\ FunKeyState = "FILTER0" /\ lastTick = Filter
     /\ ToState(IF FunKeyVal \in down THEN "KEY_PRSED" ELSE "SCAN_KEY")
     /\ UNCHANGED FunKeyVal
  \/ /\ FunKeyState = "FILTER1" /\ lastTick = Filter
     /\ ToState(IF FunKeyVal \in down THEN "KEY_PRSED" ELSE "SCAN_KEY")
     /\ FunKeyVal' = IF FunKeyVal \in down THEN FunKeyVal ELSE NoneDown

(* The keys this scan finds down: it looks at the key it follows, if any. *)
FoundDown(down) ==
  IF FunKeyState = "SCAN_KEY" THEN {FirstDown(down)} \ {NoneDown}
  ELSE IF FunKeyState = "KEY_PRSED" \/ lastTick = Filter THEN {FunKeyVal} \cap down
  ELSE {}
=============================================================================
