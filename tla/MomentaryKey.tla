---------------------------- MODULE MomentaryKey ----------------------------
(***************************************************************************)
(* A momentary item over the scheduler: ENTER down asks for a 1 in its coil, *)
(* ENTER up for a 0 (the menu itself is Menu). The requests wait among other *)
(* writes in the ring of MBController; the slave carries out what reaches it *)
(* and what it carries out may be answered or not.                           *)
(***************************************************************************)
EXTENDS Naturals, Sequences

CONSTANTS
  QueueSlots, RetryLimit, CounterMod, AddrSpace, Word, Answers, MaxRequests,
  Others     (* the other writes the panel makes *)

VARIABLES
  priority_queue, normal_queue, mb_state, current_req, answer, timeoutcnt,
  rs_err, cache, calls, ended, attempts,
  momentary_enter_active,
  coil       (* the coil in the slave *)

cvars == <<priority_queue, normal_queue, mb_state, current_req, answer,
           timeoutcnt, rs_err, cache, calls, ended, attempts>>
vars  == <<cvars, momentary_enter_active, coil>>

WriteCoil(v) == [op |-> "WRITE_SINGLE_COIL", addr |-> 0, words |-> <<v>>, len |-> 0]
KeyWrites == {WriteCoil(0), WriteCoil(1)}

C == INSTANCE MBController WITH Commands <- KeyWrites \cup Others

Init == C!Init /\ momentary_enter_active = FALSE /\ coil = 0

(* menu_item_set_momentary_state, by menu_update_momentary_enter_state, which *)
(* does not look at what it returns when the key is released.                *)
PressOrRelease ==
  /\ momentary_enter_active' = ~momentary_enter_active
  /\ C!MBController_Request(WriteCoil(IF momentary_enter_active' THEN 1 ELSE 0))
  /\ UNCHANGED coil

OtherWrite ==
  /\ \E c \in Others : C!MBController_Request(c)
  /\ UNCHANGED <<momentary_enter_active, coil>>

(* The request in progress goes to the slave. Without an answer nobody knows *)
(* whether it was carried out.                                               *)
Reaches(a) ==
  LET c == current_req'.cmd
  IN \/ a.code = "SUCESS" /\ coil' = IF c \in KeyWrites THEN c.words[1] ELSE coil
     \/ a.code # "SUCESS" /\ UNCHANGED coil
     \/ a.code = "NACK" /\ c \in KeyWrites /\ coil' = c.words[1]

Transmit ==
  /\ \E a \in Answers : (C!Take("OK", a) \/ C!Continue("OK", a)) /\ Reaches(a)
  /\ UNCHANGED momentary_enter_active

HandleAnswer == C!Answered /\ UNCHANGED <<momentary_enter_active, coil>>

Next == PressOrRelease \/ OtherWrite \/ Transmit \/ HandleAnswer

Spec == Init /\ [][Next]_vars
-----------------------------------------------------------------------------
(* A released key is off: when the key is up and no write is left to be      *)
(* sent, the coil is off, whatever the line did meanwhile.                   *)
CoilFollowsKey ==
  mb_state = "IDLE" /\ priority_queue = << >> => (~momentary_enter_active => coil = 0)
=============================================================================
