------------------------ MODULE ModbusMaster_proofs ------------------------
(***************************************************************************)
(* Proofs about the RTU master, for every timeout, every set of commands   *)
(* and whatever the slave sends at whatever time.                          *)
(***************************************************************************)
EXTENDS ModbusMaster, TLAPS

(* No tick can be counted before the next byte or command: the timer only    *)
(* runs if a byte has come, which ends a frame.                              *)
Expired ==
  /\ tim_isr # "COUNTING"
  /\ timer => rx.n > 0
  /\ rx.n = 0 => errLatch # "ACKERR"

(* The tick that times out stops the timer. One more can be counted, when a  *)
(* command is sent after a timeout that came between two commands, because   *)
(* timeoutCnt is only cleared with the handle.                               *)
TicksBounded ==
  /\ timeoutCnt = RspTicks + 1 => tx_state # "IDLE" /\ Expired
  /\ timeoutCnt = RspTicks /\ tx_state = "IDLE" => Expired

(* The timer interrupt is inside a frame end only if something was received, *)
(* and counts only while the timer runs.                                     *)
InterruptOK ==
  /\ tim_isr = "ENDING" => rx.n > 0
  /\ tim_isr = "COUNTING" => timer

MInv == TypeOK /\ TicksBounded /\ InterruptOK /\ NeverStuck

LEMMA WithType ==
  ASSUME NEW r \in Received, NEW k \in Chunk
  PROVE  With(r, k) \in Received /\ With(r, k).n > 0
BY DEF With, Received, Chunk

LEMMA InitMaster == Init => MInv
<1>1. Empty \in Received /\ Empty.n = 0
  BY DEF Empty, Received
<1>2. Nothing.code \in Codes
  BY DEF Nothing, Codes, Latches
<1> SUFFICES ASSUME Init PROVE MInv
  OBVIOUS
<1>3. exe \in BOOLEAN /\ ~exe /\ timer \in BOOLEAN /\ ~timer
  BY Zenon DEF Init
<1>4. /\ tx_state = "IDLE" /\ cmd = NoCmd /\ errLatch = "DEFAULT" /\ rx = Empty /\ crc = Empty
      /\ timeoutCnt = 0 /\ tim_isr = "OUT" /\ result = Nothing
  BY DEF Init
<1>5. TypeOK
  BY <1>1, <1>2, <1>3, <1>4, TicksAssumption DEF TypeOK, Latches
<1>. QED BY <1>1, <1>3, <1>4, <1>5, TicksAssumption
     DEF MInv, TicksBounded, Expired, InterruptOK, NeverStuck

LEMMA SendStep ==
  ASSUME MInv, NEW c \in Commands, Send(c)
  PROVE  MInv'
BY TicksAssumption
DEF Send, InMain, MInv, TypeOK, TicksBounded, Expired, InterruptOK, NeverStuck

LEMMA TakeAnswerStep ==
  ASSUME MInv, TakeAnswer
  PROVE  MInv'
<1>1. \A lucky \in BOOLEAN : Evaluate(errLatch, cmd, rx, lucky).code \in Codes
  BY DEF Evaluate, Codes, Latches, MInv, TypeOK
<1>2. result'.code \in Codes
  BY <1>1 DEF TakeAnswer
<1>. QED BY <1>2, TicksAssumption
     DEF TakeAnswer, InMain, MInv, TypeOK, TicksBounded, Expired, InterruptOK, NeverStuck

LEMMA ResetSteps ==
  ASSUME MInv, ResetErr \/ ResetCrc \/ ResetRx
  PROVE  MInv'
<1>1. Empty \in Received /\ Empty.n = 0
  BY DEF Empty, Received
<1>2. CASE ResetErr
  BY <1>2, TicksAssumption
  DEF ResetErr, InMain, MInv, TypeOK, TicksBounded, Expired, InterruptOK, NeverStuck, Latches
<1>3. CASE ResetCrc
  BY <1>1, <1>3, TicksAssumption
  DEF ResetCrc, InMain, MInv, TypeOK, TicksBounded, Expired, InterruptOK, NeverStuck
<1>4. CASE ResetRx
  BY <1>1, <1>4, TicksAssumption
  DEF ResetRx, InMain, MInv, TypeOK, TicksBounded, Expired, InterruptOK, NeverStuck
<1>. QED BY <1>2, <1>3, <1>4

LEMMA ReceiveStep ==
  ASSUME MInv, NEW k \in Chunk, UartRxISR(k)
  PROVE  MInv'
<1>1. /\ With(rx, k) \in Received /\ With(rx, k).n > 0
      /\ With(crc, k) \in Received
  BY WithType DEF MInv, TypeOK
<1>2. Verdict(rx, k) \in {"ACKERR", "ERRACK", "DEFAULT"}
  BY DEF Verdict
<1>3. TypeOK'
  BY <1>1, <1>2 DEF UartRxISR, MInv, TypeOK, Latches
<1>4. (rx' = rx /\ errLatch' = errLatch /\ errLatch = "ACKERR") \/ rx'.n > 0
  BY <1>1 DEF UartRxISR
<1>5. timer' /\ UNCHANGED <<tx_state, cmd, exe, timeoutCnt, tim_isr, result>>
  BY DEF UartRxISR
<1>6. rx.n \in 0 .. 4 /\ rx'.n \in 0 .. 4
  BY <1>3 DEF MInv, TypeOK, Received
<1>. QED BY <1>3, <1>4, <1>5, <1>6
     DEF MInv, TicksBounded, Expired, InterruptOK, NeverStuck

LEMMA TimerSteps ==
  ASSUME MInv, TimISR
  PROVE  MInv'
<1>1. rx.n \in 0 .. 4
  BY DEF MInv, TypeOK, Received
<1>2. CASE TimISREntry
  BY <1>1, <1>2, TicksAssumption
  DEF TimISREntry, MInv, TypeOK, TicksBounded, Expired, InterruptOK, NeverStuck
<1>3. CASE FrameEnds
  BY <1>1, <1>3, TicksAssumption
  DEF FrameEnds, MInv, TypeOK, TicksBounded, Expired, InterruptOK, NeverStuck, Latches
<1>4. CASE Tick
  <2>1. /\ timeoutCnt \in 0 .. RspTicks /\ timeoutCnt' = timeoutCnt + 1
        /\ timeoutCnt = RspTicks => tx_state # "IDLE"
        /\ tim_isr' = "OUT" /\ UNCHANGED <<tx_state, cmd, rx, crc, result>>
    BY <1>4, TicksAssumption DEF Tick, MInv, TypeOK, TicksBounded, Expired
  <2>2. CASE timeoutCnt + 1 >= RspTicks
    <3>1. /\ timer' \in BOOLEAN /\ ~timer' /\ exe' \in BOOLEAN /\ exe'
          /\ errLatch' = "NACK"
      BY <1>4, <2>2, Zenon DEF Tick
    <3>2. TypeOK'
      BY <2>1, <3>1, TicksAssumption DEF MInv, TypeOK, Latches
    <3>. QED BY <2>1, <3>1, <3>2, TicksAssumption
         DEF MInv, TicksBounded, Expired, InterruptOK, NeverStuck
  <2>3. CASE timeoutCnt + 1 < RspTicks
    <3>0. ~(timeoutCnt + 1 >= RspTicks)
      BY <2>1, <2>3, TicksAssumption
    <3>1. timer' = timer /\ errLatch' = errLatch /\ exe' = exe /\ timer
      BY <1>4, <3>0, Zenon DEF Tick, MInv, InterruptOK
    <3>2. TypeOK'
      BY <2>1, <2>3, <3>1, TicksAssumption DEF MInv, TypeOK
    <3>. QED BY <2>1, <2>3, <3>1, <3>2, TicksAssumption
         DEF MInv, TicksBounded, Expired, InterruptOK, NeverStuck
  <2>. QED BY <2>1, <2>2, <2>3, TicksAssumption
<1>. QED BY <1>2, <1>3, <1>4 DEF TimISR

LEMMA MasterInvariant == SafetySpec => []MInv
<1>1. ASSUME MInv, [Next]_mvars PROVE MInv'
  <2>1. CASE UNCHANGED mvars
    BY <1>1, <2>1 DEF mvars, MInv, TypeOK, TicksBounded, Expired, InterruptOK, NeverStuck
  <2>. QED BY <1>1, <2>1, SendStep, TakeAnswerStep, ResetSteps, ReceiveStep, TimerSteps DEF Next
<1>. QED BY <1>1, InitMaster, PTL DEF SafetySpec

(* Every field of the master's handle keeps its type; in particular          *)
(* timeoutCnt goes at most one beyond the timeout.                           *)
THEOREM TypeCorrect == SafetySpec => []TypeOK
<1>1. MInv => TypeOK
  BY DEF MInv
<1>. QED BY <1>1, MasterInvariant, PTL

(* A command that was sent always has a way to end, wherever the interrupts  *)
(* hit: its outcome is ready, or the timer runs, or its interrupt does.      *)
THEOREM WaysToEnd == SafetySpec => []NeverStuck
<1>1. MInv => NeverStuck
  BY DEF MInv
<1>. QED BY <1>1, MasterInvariant, PTL
=============================================================================
