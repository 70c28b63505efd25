---------------------------- MODULE ModbusMaster ----------------------------
(***************************************************************************)
(* The RTU master of the panel (bsp_gd32f303xx_modbus.c). The main loop    *)
(* polls bsp_MBMasterTransmitCommand, which sends a command and later      *)
(* evaluates the answer; the receive interrupt of USART1 collects the      *)
(* answer byte by byte; the interrupt of the 10 ms timer TIMER4 ends a     *)
(* frame, or gives up after RspTicks ticks without a byte. The interrupts  *)
(* may come between any two steps of the main loop, also inside            *)
(* vResetMasterState, and the receive interrupt also inside the other one, *)
(* between its look at RxCnt and what it does then.                        *)
(*                                                                         *)
(* A frame is received in three chunks: the address byte, the function     *)
(* byte and the rest. CRCRx is zero exactly when what it was fed since its *)
(* last reset is one whole undamaged frame; two frames in a row or a part  *)
(* of one leave it different from zero. The flag busy is left out: it is   *)
(* set from sending to the end of the reset, and one main loop is the only *)
(* caller. So is the flag pass, which a master never sets.                 *)
(***************************************************************************)
EXTENDS Naturals, Sequences

CONSTANTS
  RspTicks,  (* MODBUS_RSP_TIMEOUT / 10: 15 in the code                    *)
  Commands,  (* the commands the controller sends                          *)
  Frames     (* the frames a slave may send                                *)

ASSUME TicksAssumption == RspTicks \in Nat \ {0}

Singles == {"WRITE_SINGLE_COIL", "WRITE_SINGLE_REGISTER"}
Writes  == Singles \cup {"WRITE_MULTIPLE_REGISTERS"}
Reads   == {"READ_COILS", "READ_HOLDING_REGISTERS"}

(* A command has op, addr, words and len. A frame has a kind: "data" (the   *)
(* answer to a read: bytes of data), "echo" (the answer to a write: an      *)
(* address and a word) or "exception"; an op, its function code; and "bad", *)
(* the chunk that was damaged on the line, or 0.                            *)
Kinds   == {"data", "echo", "exception"}
Chunk   == [frame : Frames, pos : 1 .. 3]

(* What was received: n chunks, 4 standing for more than three, and the frame *)
(* they are the beginning of, or Junk if they are not that of any.           *)
Junk     == [kind |-> "junk"]
Received == [n : 0 .. 4, frame : Frames \cup {Junk}]
Empty    == [n |-> 0, frame |-> Junk]

With(r, k) ==
  [n |-> IF r.n < 4 THEN r.n + 1 ELSE 4,
   frame |-> IF k.pos = r.n + 1 /\ (r.n = 0 \/ k.frame = r.frame) THEN k.frame ELSE Junk]

ASSUME FrameAssumption ==
  \A f \in Frames : f.kind \in Kinds /\ f.op \in Reads \cup Writes /\ f.bad \in 0 .. 3

VARIABLES
  tx_state,    (* where bsp_MBMasterTransmitCommand is: "IDLE", "WAIT_RSP", *)
               (* or in vResetMasterState: "RST_ERR", "RST_CRC", "RST_RX"  *)
  cmd,         (* the command sent last: CmdIndex and pcTxBuffer           *)
  exe,         (* an answer (or its absence) is ready for the main loop    *)
  errLatch,    (* ErrLatch                                                 *)
  rx,          (* pcRxBuffer and RxCnt: what was received                  *)
  crc,         (* CRCRx: what it was fed                                   *)
  timeoutCnt,  (* TimeoutCnt                                               *)
  timer,       (* is TIMER4 running                                        *)
  tim_isr,     (* where vMBMasterTimISR is: "OUT", "ENDING" or "COUNTING"  *)
  result       (* eErrorCode and the data handed to the caller             *)

mvars == <<tx_state, cmd, exe, errLatch, rx, crc, timeoutCnt, timer, tim_isr, result>>

(* The main loop runs only while no interrupt does.                         *)
InMain == tim_isr = "OUT"

Latches == {"SUCESS", "DEFAULT", "NACK", "ERRACK", "ACKERR"}
Codes   == Latches \cup {"EXCEPTION"}

Nothing == [code |-> "SUCESS", data |-> << >>]
NoCmd   == [op |-> "UNSUPPORTED", addr |-> 0, words |-> << >>, len |-> 0]
-----------------------------------------------------------------------------
Init ==
  /\ tx_state = "IDLE"
  /\ cmd = NoCmd
  /\ exe = FALSE
  /\ errLatch = "DEFAULT"
  /\ rx = Empty /\ crc = Empty
  /\ timeoutCnt = 0
  /\ timer = FALSE /\ tim_isr = "OUT"
  /\ result = Nothing

(* MB_IDLE, MB_SEND_CMD: SendMessage waits until the frame is on the line.   *)
(* Nothing that was received since the last reset is discarded.              *)
Send(c) ==
  /\ InMain /\ tx_state = "IDLE"
  /\ cmd' = c
  /\ timer' = TRUE
  /\ tx_state' = "WAIT_RSP"
  /\ UNCHANGED <<exe, errLatch, rx, crc, timeoutCnt, tim_isr, result>>
-----------------------------------------------------------------------------
(* Is what was received one whole frame, and is it undamaged (CRCRx = 0)?    *)
Whole(r) == r.n = 3 /\ r.frame # Junk
CrcGood(fed) == Whole(fed) /\ fed.frame.bad = 0

(* eCmdRSP01, 03, 05, 06 and 10: does frame f answer the command c? A read   *)
(* looks only at the length the frame itself declares; a single write wants  *)
(* its own bytes back, checksum included; a multiple write wants its address *)
(* and its number of registers, which it finds in the word of an echo. The   *)
(* length checks of 01, 03 and 10 add CRCRx & 2: of a damaged frame that     *)
(* comes so far they pass some and fail some ("lucky").                      *)
EchoWord(c) == IF c.op = "WRITE_MULTIPLE_REGISTERS" THEN Len(c.words) ELSE c.words[1]

FitsHeaderOnly(c, f, lucky) ==
  \/ c.op = "READ_COILS" /\ f.kind = "data"
  \/ c.op = "READ_HOLDING_REGISTERS" /\ f.kind = "data" /\ f.size % 2 = 0
  \/ c.op \in Writes /\ f.kind = "echo" /\ f.addr = c.addr

Fits(c, f, lucky) ==
  /\ f.bad # 0 => lucky /\ c.op \notin Singles
  /\ \/ c.op = "READ_COILS" /\ f.kind = "data"
     \/ c.op = "READ_HOLDING_REGISTERS" /\ f.kind = "data" /\ f.size % 2 = 0
     \/ /\ c.op \in Writes /\ f.kind = "echo"
        /\ f.addr = c.addr /\ f.word = EchoWord(c)
        /\ c.op \in Singles => f.op = c.op

(* The data of a read: what matters of it here is how much there is.         *)
DataOf(c, f) ==
  IF c.op = "READ_COILS" THEN [i \in 1 .. 8 * f.size |-> 1]
  ELSE IF c.op = "READ_HOLDING_REGISTERS" THEN [i \in 1 .. f.size \div 2 |-> 1]
  ELSE << >>

(* eMBMasterNormalRSP and eMBMasterExceptionRSP: the code and the data that  *)
(* the caller gets. An answer that grew after exe was set has a wrong length. *)
EvaluateForgetsLatch(latch, c, r, lucky) ==
  IF latch = "SUCESS" /\ ~(Whole(r) /\ Fits(c, r.frame, lucky))
  THEN [code |-> "ACKERR", data |-> << >>]
  ELSE [code |-> "SUCESS", data |-> << >>]

Evaluate(latch, c, r, lucky) ==
  LET accepted == Whole(r) /\ Fits(c, r.frame, lucky)
      Failed(code) == [code |-> code, data |-> << >>]
  IN IF latch = "SUCESS" THEN
       IF accepted THEN [code |-> "SUCESS", data |-> DataOf(c, r.frame)] ELSE Failed("ACKERR")
     ELSE IF latch = "ERRACK" THEN Failed(IF Whole(r) THEN "EXCEPTION" ELSE "ACKERR")
     ELSE Failed(latch)

(* MB_WAIT_RSP: evaluate the answer, then vResetMasterState clears the       *)
(* fields of the handle one after the other. The timer keeps its state.      *)
TakeAnswer ==
  /\ InMain /\ tx_state = "WAIT_RSP" /\ exe
  /\ \E lucky \in BOOLEAN : result' = Evaluate(errLatch, cmd, rx, lucky)
  /\ exe' = FALSE
  /\ tx_state' = "RST_ERR"
  /\ UNCHANGED <<cmd, errLatch, rx, crc, timeoutCnt, timer, tim_isr>>

ResetErr ==
  /\ InMain /\ tx_state = "RST_ERR"
  /\ errLatch' = "DEFAULT"
  /\ tx_state' = "RST_CRC"
  /\ UNCHANGED <<cmd, exe, rx, crc, timeoutCnt, timer, tim_isr, result>>

ResetCrc ==
  /\ InMain /\ tx_state = "RST_CRC"
  /\ crc' = Empty
  /\ tx_state' = "RST_RX"
  /\ UNCHANGED <<cmd, exe, errLatch, rx, timeoutCnt, timer, tim_isr, result>>

ResetRxOnly ==
  /\ InMain /\ tx_state = "RST_RX"
  /\ rx' = Empty
  /\ tx_state' = "IDLE"
  /\ UNCHANGED <<cmd, exe, errLatch, crc, timeoutCnt, timer, tim_isr, result>>

ResetRx ==
  /\ InMain /\ tx_state = "RST_RX"
  /\ rx' = Empty
  /\ timeoutCnt' = 0
  /\ tx_state' = "IDLE"
  /\ UNCHANGED <<cmd, exe, errLatch, crc, timer, tim_isr, result>>
-----------------------------------------------------------------------------
(* eMBMasterReceive: the first byte must be the slave's address, the second  *)
(* the function code of the command, or that code marked as an exception.    *)
Verdict(r, k) ==
  LET address == k.pos = 1 /\ k.frame.bad # 1
      command == k.pos = 2 /\ k.frame.bad # 2 /\ k.frame.op = cmd.op
  IN IF (r.n = 0 /\ ~address) \/ (r.n = 1 /\ ~command) THEN "ACKERR"
     ELSE IF r.n = 1 /\ k.frame.kind = "exception" THEN "ERRACK"
     ELSE "DEFAULT"

UartRxISRStopsTimer(k) ==
  /\ timer' = (errLatch # "ACKERR")
  /\ IF errLatch = "ACKERR" THEN UNCHANGED <<rx, crc, errLatch>>
     ELSE /\ rx' = With(rx, k) /\ crc' = With(crc, k)
          /\ errLatch' = IF Verdict(rx, k) = "DEFAULT" THEN errLatch ELSE Verdict(rx, k)
  /\ UNCHANGED <<tx_state, cmd, exe, timeoutCnt, tim_isr, result>>

(* vMBMasterUartRxISR: after a format error the rest of the frame is ignored. *)
UartRxISR(k) ==
  /\ timer' = TRUE
  /\ IF errLatch = "ACKERR" THEN UNCHANGED <<rx, crc, errLatch>>
     ELSE /\ rx' = With(rx, k) /\ crc' = With(crc, k)
          /\ errLatch' = IF Verdict(rx, k) = "DEFAULT" THEN errLatch ELSE Verdict(rx, k)
  /\ UNCHANGED <<tx_state, cmd, exe, timeoutCnt, tim_isr, result>>

(* vMBMasterTimISR looks at RxCnt: something was received, so the frame is   *)
(* over and the timer stops; or the interrupt counts one more tick of silence. *)
TimISREntry ==
  /\ timer /\ tim_isr = "OUT"
  /\ IF rx.n > 0 THEN timer' = FALSE /\ tim_isr' = "ENDING"
     ELSE tim_isr' = "COUNTING" /\ UNCHANGED timer
  /\ UNCHANGED <<tx_state, cmd, exe, errLatch, rx, crc, timeoutCnt, result>>

FrameEnds ==
  /\ tim_isr = "ENDING" /\ tim_isr' = "OUT"
  /\ exe' = TRUE
  /\ errLatch' = IF ~CrcGood(crc) THEN "ACKERR"
                 ELSE IF errLatch = "DEFAULT" THEN "SUCESS" ELSE errLatch
  /\ UNCHANGED <<tx_state, cmd, rx, crc, timeoutCnt, timer, result>>

(* The last tick is the timeout, also if a byte has come meanwhile.          *)
Tick ==
  /\ tim_isr = "COUNTING" /\ tim_isr' = "OUT"
  /\ timeoutCnt' = timeoutCnt + 1
  /\ IF timeoutCnt + 1 >= RspTicks
     THEN timer' = FALSE /\ errLatch' = "NACK" /\ exe' = TRUE
     ELSE UNCHANGED <<timer, errLatch, exe>>
  /\ UNCHANGED <<tx_state, cmd, rx, crc, result>>

TimISR == TimISREntry \/ FrameEnds \/ Tick
-----------------------------------------------------------------------------
(* The master on its own: any chunk may come at any time. *)
Next ==
  \/ \E c \in Commands : Send(c)
  \/ TakeAnswer \/ ResetErr \/ ResetCrc \/ ResetRx
  \/ \E k \in Chunk : UartRxISR(k)
  \/ TimISR

(* The main loop polls the master, and the interrupts leave it its turns; a  *)
(* running timer fires, so the line is not busy for ever.                    *)
Fairness == SF_mvars(TakeAnswer \/ ResetErr \/ ResetCrc \/ ResetRx) /\ WF_mvars(TimISR)

(* Without its fairness: what the proofs need.                               *)
SafetySpec == Init /\ [][Next]_mvars

Spec == SafetySpec /\ Fairness
-----------------------------------------------------------------------------
TypeOK ==
  /\ tx_state \in {"IDLE", "WAIT_RSP", "RST_ERR", "RST_CRC", "RST_RX"}
  /\ cmd \in Commands \cup {NoCmd}
  /\ exe \in BOOLEAN /\ timer \in BOOLEAN
  /\ errLatch \in Latches
  /\ tim_isr \in {"OUT", "ENDING", "COUNTING"}
  /\ rx \in Received /\ crc \in Received
  /\ timeoutCnt \in 0 .. RspTicks + 1
  /\ result.code \in Codes

(* A command that was sent is never left without a way to end: either its    *)
(* outcome is ready or the timer is running, whatever bytes the interrupts   *)
(* see and wherever they hit the main loop.                                  *)
NeverStuck == tx_state = "WAIT_RSP" => exe \/ timer \/ tim_isr # "OUT"

(* Every command ends, whatever comes over the line.                         *)
CommandsEnd == tx_state = "WAIT_RSP" ~> tx_state = "IDLE"

(* An answer is only accepted if it is one whole frame whose checksum was    *)
(* right: a damaged answer is MODBUS_ACKERR.                                 *)
OnlyWholeAnswers ==
  [][tx_state' = "RST_ERR" /\ tx_state # tx_state' /\ result'.code = "SUCESS"
       => CrcGood(crc)]_mvars
=============================================================================
