----------------------------- MODULE Rs485Link ------------------------------
(***************************************************************************)
(* The RS485 link: the request scheduler (MBController), the RTU master    *)
(* (ModbusMaster) with its two interrupts, the line and the slave. One     *)
(* main loop runs the first two: MBController_Process calls                *)
(* bsp_MBMasterTransmitCommand, so nothing else of the loop happens while  *)
(* the master is inside vResetMasterState. The interrupts come at any time.*)
(*                                                                         *)
(* The slave and the line are outside the repository. A request may be     *)
(* lost, carried out, or refused; an answer may be lost, damaged, or come  *)
(* so late that the panel has already gone on.                             *)
(***************************************************************************)
EXTENDS Naturals, Sequences

CONSTANTS
  QueueSlots, RetryLimit, CounterMod, AddrSpace, Word, Commands, Answers,
  MaxRequests,  (* see MBController                                        *)
  RspTicks,     (* see ModbusMaster                                        *)
  Damages,      (* which chunks of an answer the line may damage, 0: none  *)
  MaxPending    (* bound of the model: answers the slave has yet to send   *)

ASSUME PendingAssumption == MaxPending \in Nat /\ Damages \subseteq 0 .. 3

VARIABLES
  priority_queue, normal_queue, mb_state, current_req, answer, timeoutcnt,
  rs_err, cache, calls, ended, attempts,
  tx_state, cmd, exe, errLatch, rx, crc, timeoutCnt, timer, tim_isr, result,
  line,      (* answers the slave has not sent completely yet              *)
  chunks,    (* how many chunks of the first one are sent                  *)
  overdue,   (* how many of them answer a command that is already over     *)
  late,      (* history: has a chunk come after the outcome of its command *)
  executed   (* history: the writes the slave has carried out              *)

cvars == <<priority_queue, normal_queue, mb_state, current_req, answer,
           timeoutcnt, rs_err, cache, calls, ended, attempts>>
mvars == <<tx_state, cmd, exe, errLatch, rx, crc, timeoutCnt, timer, tim_isr, result>>
svars == <<line, chunks, overdue, late, executed>>
vars  == <<cvars, mvars, svars>>

(* What goes over the line of a command: a coil is switched on by any word   *)
(* but 0, and a write has no length of its own.                              *)
OnWire(c) ==
  IF c.op = "WRITE_SINGLE_COIL" /\ c.words[1] # 0 THEN [c EXCEPT !.words = <<1>>] ELSE c

Frame(kind, c, word, size, bad) ==
  [kind |-> kind, op |-> c.op, addr |-> c.addr, word |-> word, size |-> size,
   bad |-> bad, by |-> c]

(* A frame carries, beside what is on the line, the command it answers.      *)
AnswerTo(c, bad) ==
  CASE c.op = "READ_COILS" -> Frame("data", c, 0, (c.len + 7) \div 8, bad)
    [] c.op = "READ_HOLDING_REGISTERS" -> Frame("data", c, 0, 2 * c.len, bad)
    [] c.op = "WRITE_MULTIPLE_REGISTERS" -> Frame("echo", c, Len(c.words), 0, bad)
    [] OTHER -> Frame("echo", c, c.words[1], 0, bad)
RefusalOf(c) == Frame("exception", c, 0, 0, 0)

C == INSTANCE MBController

WireCommands == {OnWire(c) : c \in Commands}
WireWrites   == {c \in WireCommands : c.op \in C!WriteOps}
LinkFrames   == {AnswerTo(c, bad) : c \in WireCommands, bad \in Damages}
                  \cup {RefusalOf(c) : c \in WireCommands}

M == INSTANCE ModbusMaster WITH Commands <- WireCommands, Frames <- LinkFrames

(* MODBUS_DEFAULT, like an exception, is none of the codes the scheduler     *)
(* knows.                                                                    *)
Report(r) == [code |-> IF r.code = "DEFAULT" THEN "EXCEPTION" ELSE r.code, data |-> r.data]

(* What the scheduler and the master assume of their constants.              *)
ASSUME PartsAssumption ==
  /\ C!QueueAssumption /\ C!RetryAssumption /\ C!SpaceAssumption /\ C!WordAssumption
  /\ C!CommandAssumption /\ C!AnswerAssumption
  /\ M!TicksAssumption /\ M!FrameAssumption

(* A single write has one word and no length.                                *)
ASSUME SingleAssumption ==
  \A c \in Commands : c.op \in M!Singles => Len(c.words) = 1 /\ c.len = 0

(* The scheduler is ready for whatever the master may report.                *)
ASSUME ReportAssumption ==
  \A latch \in M!Latches, c \in WireCommands, r \in M!Received, lucky \in BOOLEAN :
    Report(M!Evaluate(latch, c, r, lucky)) \in Answers
-----------------------------------------------------------------------------
Init ==
  /\ C!Init /\ M!Init
  /\ line = << >> /\ chunks = 0 /\ overdue = 0
  /\ late = FALSE /\ executed = {}

(* The slave gets command c, or does not. *)
SlaveReacts(c) ==
  /\ \/ UNCHANGED <<line, executed>>
     \/ executed' = executed \cup ({c} \cap WireWrites) /\ UNCHANGED line
     \/ /\ Len(line) < MaxPending
        /\ executed' = executed \cup ({c} \cap WireWrites)
        /\ \E bad \in Damages : line' = Append(line, AnswerTo(c, bad))
     \/ /\ Len(line) < MaxPending
        /\ line' = Append(line, RefusalOf(c))
        /\ UNCHANGED executed
  /\ UNCHANGED <<chunks, overdue, late>>

(* The slave sends the next chunk of its first answer. *)
ChunkArrives ==
  /\ line # << >>
  /\ M!UartRxISR([frame |-> Head(line), pos |-> chunks + 1])
  /\ chunks' = (chunks + 1) % 3
  /\ line' = IF chunks = 2 THEN Tail(line) ELSE line
  /\ overdue' = IF chunks = 2 /\ overdue > 0 THEN overdue - 1 ELSE overdue
  /\ late' = (late \/ exe \/ overdue > 0)
  /\ UNCHANGED executed
  /\ UNCHANGED cvars

TimerInterrupt == M!TimISR /\ UNCHANGED <<cvars, svars>>
-----------------------------------------------------------------------------
(* The main loop. A call of MBController_Process that finds no answer yet    *)
(* changes nothing.                                                          *)
InLoop == M!InMain /\ tx_state \in {"IDLE", "WAIT_RSP"}

Request ==
  /\ InLoop
  /\ \E c \in Commands : C!MBController_Request(c)
  /\ UNCHANGED <<mvars, svars>>

StartRequest ==
  /\ C!Take("BUSY", answer)
  /\ M!Send(OnWire(current_req'.cmd))
  /\ SlaveReacts(OnWire(current_req'.cmd))

SendAgain ==
  /\ C!Continue("BUSY", answer)
  /\ M!Send(OnWire(current_req.cmd))
  /\ SlaveReacts(OnWire(current_req.cmd))

(* The answers that come from now on are overdue. *)
EvaluateAnswer ==
  /\ M!TakeAnswer
  /\ overdue' = Len(line)
  /\ UNCHANGED cvars /\ UNCHANGED <<line, chunks, late, executed>>

InReset == (M!ResetErr \/ M!ResetCrc) /\ UNCHANGED <<cvars, svars>>

CallReturns ==
  /\ M!ResetRx
  /\ C!Continue("OK", Report(result))
  /\ UNCHANGED svars

HandleAnswer == InLoop /\ C!Answered /\ UNCHANGED <<mvars, svars>>

MainLoop ==
  StartRequest \/ SendAgain \/ EvaluateAnswer \/ InReset \/ CallReturns \/ HandleAnswer

Next == Request \/ MainLoop \/ TimerInterrupt \/ ChunkArrives

(* The main loop never stops, and the line falls silent at last, so that the *)
(* timer fires. Nothing is assumed of the slave.                             *)
Fairness == WF_vars(MainLoop) /\ WF_vars(TimerInterrupt)

Spec == Init /\ [][Next]_vars /\ Fairness
-----------------------------------------------------------------------------
(* The answer the panel accepts for a command is an answer to that very      *)
(* command.                                                                  *)
Accepting == tx_state = "WAIT_RSP" /\ tx_state' = "RST_ERR" /\ result'.code = "SUCESS"
Matching  == M!Whole(rx) /\ rx.frame.by = cmd /\ rx.frame.bad = 0

AnswerMatchesCommand == [][Accepting => Matching]_vars

(* As long as no chunk of an answer has ever come after the outcome of its   *)
(* command was decided, what the panel accepts as the answer to a command  *)
(* is the undamaged answer to it: whatever was lost, damaged, refused or     *)
(* repeated before, and wherever the interrupts hit the main loop.           *)
MatchesUnlessLate == [][Accepting /\ ~late => Matching]_vars

(* A single write that the panel reports as done has been carried out by the *)
(* slave, even with late answers: only the echo of the same function, address*)
(* and value is accepted for it.                                             *)
DoneSinglesExecuted ==
  \A i \in 1 .. Len(ended) :
    ended[i].outcome = "done" /\ ended[i].req.cmd.op \in M!Singles
      => OnWire(ended[i].req.cmd) \in executed

(* The master keeps what the scheduler relies on: with the interrupts, the   *)
(* line and the slave behind it, the scheduler behaves as its specification  *)
(* says, and every command it hands over comes back with an answer.          *)
ImplementsController == C!Spec
=============================================================================
