-------------------------- MODULE Rs485Link_proofs --------------------------
(***************************************************************************)
(* Proofs about the RS485 link: the scheduler, the master with its two     *)
(* interrupts, the line and the slave, for every queue, every timeout,     *)
(* every set of commands and any number of answers on their way.           *)
(***************************************************************************)
EXTENDS Rs485Link, SequenceTheorems, TLAPS

States == {"IDLE", "WAIT_RSP", "RST_ERR", "RST_CRC", "RST_RX"}

LinkTypes ==
  /\ tx_state \in States
  /\ errLatch \in M!Latches
  /\ rx \in M!Received /\ crc \in M!Received
  /\ line \in Seq(LinkFrames)
  /\ chunks \in 0 .. 2
  /\ overdue \in 0 .. Len(line)
  /\ exe \in BOOLEAN /\ late \in BOOLEAN

(* What waits to be sent, what is being sent and what is over was asked for. *)
Asked ==
  /\ priority_queue \in Seq([id : Nat, cmd : Commands])
  /\ normal_queue \in Seq([id : Nat, cmd : Commands])
  /\ calls \in Seq([cmd : Commands, ok : BOOLEAN])
  /\ ended \in Seq([req : [id : Nat, cmd : Commands], outcome : {"done", "given_up", "refused"},
                    attempts : Nat])
  /\ attempts \in Nat
  /\ mb_state # "IDLE" => current_req \in [id : Nat, cmd : Commands]

(* While the master is busy, the scheduler waits for it, and the command is  *)
(* that of the request in progress.                                          *)
Coupled ==
  tx_state # "IDLE" =>
    /\ mb_state \in {"READING", "WRITING"}
    /\ cmd = OnWire(current_req.cmd)

(* What the master has for the scheduler is an answer the scheduler expects. *)
Resetting == tx_state \in {"RST_ERR", "RST_CRC", "RST_RX"}
ReportOK == Resetting => Report(result) \in Answers

(* An echo shows that its command was carried out.                           *)
Shows(f) == f.kind = "echo" /\ f.by \in WireWrites => f.by \in executed
EchoesShow ==
  /\ \A i \in 1 .. Len(line) : Shows(line[i])
  /\ rx.frame # M!Junk => Shows(rx.frame)

ReportedSingles ==
  /\ Resetting /\ result.code = "SUCESS" /\ cmd.op \in M!Singles => cmd \in executed
  /\ mb_state = "WAITING_RSP" /\ answer.code = "SUCESS" /\ current_req.cmd.op \in M!Singles
       => OnWire(current_req.cmd) \in executed

(* The answers to the command that was sent last come after those that are   *)
(* overdue; when no command is out, all are.                                 *)
Overdue ==
  /\ tx_state # "WAIT_RSP" => overdue = Len(line)
  /\ tx_state = "WAIT_RSP" => \A i \in 1 .. Len(line) : i > overdue => line[i].by = cmd

(* No answer is latched as good before the main loop may take it.            *)
Latched == errLatch = "SUCESS" /\ tx_state # "RST_ERR" => exe

(* As long as no chunk came late: between two commands nothing is left of    *)
(* the answer; what was received is what CRCRx was fed, and a part of an     *)
(* answer to the command sent last; and if it is latched as good, it is one  *)
(* whole undamaged frame.                                                    *)
Prompt ==
  ~late =>
    /\ tx_state = "IDLE" => rx = M!Empty /\ crc = M!Empty
    /\ tx_state = "RST_RX" => crc = M!Empty
    /\ tx_state = "WAIT_RSP" =>
         /\ crc = rx
         /\ rx.frame # M!Junk => rx.frame.by = cmd
         /\ errLatch = "SUCESS" => rx = M!Empty \/ M!CrcGood(rx)

LInv ==
  /\ LinkTypes /\ Asked /\ Coupled /\ ReportOK
  /\ EchoesShow /\ ReportedSingles /\ DoneSinglesExecuted
  /\ Overdue /\ Latched /\ Prompt
-----------------------------------------------------------------------------
(* Commands on the wire and the frames that answer them.                     *)

(* A command keeps its operation, its address and its length on the wire.    *)
LEMMA WireCommand ==
  ASSUME NEW c \in Commands
  PROVE  /\ OnWire(c) \in WireCommands
         /\ OnWire(c).op = c.op
         /\ OnWire(c) \in [op : C!Ops, addr : 0 .. AddrSpace - 1, words : Seq(Word \cup {1}), len : Nat]
         /\ c.op \in M!Singles => Len(OnWire(c).words) = 1 /\ OnWire(c).len = 0
<1>1. c \in C!Command /\ c \in [op : C!Ops, addr : 0 .. AddrSpace - 1, words : Seq(Word), len : Nat]
  BY PartsAssumption DEF C!CommandAssumption, C!Command
<1>2. c.op \in M!Singles => Len(c.words) = 1 /\ c.len = 0
  BY SingleAssumption
<1>3. OnWire(c) \in WireCommands
  BY DEF WireCommands
<1>4. Seq(Word) \subseteq Seq(Word \cup {1}) /\ <<1>> \in Seq(Word \cup {1}) /\ Len(<<1>>) = 1
  OBVIOUS
<1>5. CASE c.op = "WRITE_SINGLE_COIL" /\ c.words[1] # 0
  <2>1. OnWire(c) = [c EXCEPT !.words = <<1>>]
    BY <1>5 DEF OnWire
  <2>2. [c EXCEPT !.words = <<1>>]
          \in [op : C!Ops, addr : 0 .. AddrSpace - 1, words : Seq(Word \cup {1}), len : Nat]
    BY <1>1, <1>4
  <2>3. /\ OnWire(c).op = c.op /\ OnWire(c).len = c.len
        /\ OnWire(c).words = <<1>>
    BY <1>1, <2>1
  <2>. QED BY <1>2, <1>3, <1>4, <2>1, <2>2, <2>3
<1>6. CASE ~(c.op = "WRITE_SINGLE_COIL" /\ c.words[1] # 0)
  <2>1. OnWire(c) = c
    BY <1>6 DEF OnWire
  <2>. QED BY <1>1, <1>2, <1>3, <1>4, <2>1
<1>. QED BY <1>5, <1>6

(* A frame carries the command it answers and that command's operation; the  *)
(* echo of a single write also its address and its word.                     *)
LEMMA FrameOf ==
  ASSUME NEW f \in LinkFrames
  PROVE  /\ f.by \in WireCommands
         /\ f.op = f.by.op /\ f.addr = f.by.addr
         /\ f.kind = "echo" /\ f.op \in M!Singles => f.word = f.by.words[1]
<1>1. CASE \E c \in WireCommands, bad \in Damages : f = AnswerTo(c, bad)
  <2>. PICK c \in WireCommands, bad \in Damages : f = AnswerTo(c, bad)
    BY <1>1
  <2>. QED BY DEF AnswerTo, Frame, M!Singles
<1>2. CASE \E c \in WireCommands : f = RefusalOf(c)
  BY <1>2 DEF RefusalOf, Frame
<1>. QED BY <1>1, <1>2 DEF LinkFrames

LEMMA AnswersTo ==
  ASSUME NEW c \in WireCommands
  PROVE  /\ \A bad \in Damages : AnswerTo(c, bad) \in LinkFrames /\ AnswerTo(c, bad).by = c
         /\ RefusalOf(c) \in LinkFrames /\ RefusalOf(c).by = c /\ RefusalOf(c).kind # "echo"
<1>1. \A bad \in Damages : AnswerTo(c, bad) \in LinkFrames /\ RefusalOf(c) \in LinkFrames
  BY DEF LinkFrames
<1>2. RefusalOf(c) \in LinkFrames
  BY DEF LinkFrames
<1>3. \A bad \in Damages : AnswerTo(c, bad).by = c
  BY DEF AnswerTo, Frame
<1>. QED BY <1>1, <1>2, <1>3 DEF RefusalOf, Frame

(* Two single writes on the wire with the same operation, address and word   *)
(* are the same.                                                             *)
LEMMA SameSingle ==
  ASSUME NEW c \in WireCommands, NEW d \in WireCommands, c.op \in M!Singles,
         d.op = c.op, d.addr = c.addr, d.words[1] = c.words[1]
  PROVE  d = c
<1>1. PICK a \in Commands : c = OnWire(a)
  BY DEF WireCommands
<1>2. PICK b \in Commands : d = OnWire(b)
  BY DEF WireCommands
<1>3. /\ Len(c.words) = 1 /\ c.len = 0
      /\ c \in [op : C!Ops, addr : 0 .. AddrSpace - 1, words : Seq(Word \cup {1}), len : Nat]
  BY <1>1, WireCommand
<1>4. /\ Len(d.words) = 1 /\ d.len = 0
      /\ d \in [op : C!Ops, addr : 0 .. AddrSpace - 1, words : Seq(Word \cup {1}), len : Nat]
  BY <1>2, WireCommand
<1>5. c.words = d.words
  <2>1. c.words \in Seq(Word \cup {1}) /\ d.words \in Seq(Word \cup {1})
    BY <1>3, <1>4
  <2>2. \A i \in 1 .. Len(c.words) : c.words[i] = d.words[i]
    BY <1>3
  <2>. QED BY <1>3, <1>4, <2>1, <2>2, SeqEqual
<1>. QED BY <1>3, <1>4, <1>5

(* What a single write accepts as its echo is its echo.                      *)
LEMMA SingleFits ==
  ASSUME NEW c \in WireCommands, NEW f \in LinkFrames, NEW lucky \in BOOLEAN,
         c.op \in M!Singles, M!Fits(c, f, lucky)
  PROVE  f.kind = "echo" /\ f.by = c /\ f.bad = 0
<1>1. /\ f.kind = "echo" /\ f.addr = c.addr /\ f.op = c.op /\ f.bad = 0
      /\ f.word = c.words[1]
  BY DEF M!Fits, M!EchoWord, M!Singles
<1>. QED BY <1>1, FrameOf, SameSingle

(* The chunk that comes next is one of the first answer.                     *)
LEMMA NextChunk ==
  ASSUME LinkTypes, line # << >>
  PROVE  /\ [frame |-> Head(line), pos |-> chunks + 1] \in M!Chunk
         /\ Head(line) \in LinkFrames /\ Head(line) = line[1] /\ Len(line) > 0
BY DEF LinkTypes, M!Chunk

LEMMA Collected ==
  ASSUME NEW r \in M!Received, NEW k \in M!Chunk
  PROVE  /\ M!With(r, k) \in M!Received /\ M!With(r, k).n > 0
         /\ M!With(r, k).frame \in {M!Junk, k.frame}
BY DEF M!With, M!Received, M!Chunk

LEMMA Appended ==
  ASSUME NEW S, NEW s \in Seq(S), NEW x \in S
  PROVE  /\ Append(s, x) \in Seq(S) /\ Len(Append(s, x)) = Len(s) + 1 /\ Len(s) \in Nat
         /\ \A i \in 1 .. Len(s) : Append(s, x)[i] = s[i]
         /\ Append(s, x)[Len(s) + 1] = x
OBVIOUS

LEMMA UpToNext ==
  ASSUME NEW n \in Nat, NEW i \in 1 .. (n + 1)
  PROVE  i \in 1 .. n \/ i = n + 1
OBVIOUS

LEMMA EmptyReceived == M!Empty \in M!Received /\ M!Empty.frame = M!Junk /\ M!Empty.n = 0
BY DEF M!Empty, M!Received
-----------------------------------------------------------------------------
LEMMA InitLink == Init => LInv
<1> SUFFICES ASSUME Init PROVE LInv
  OBVIOUS
<1>1. /\ tx_state = "IDLE" /\ errLatch = "DEFAULT" /\ rx = M!Empty /\ crc = M!Empty
      /\ line = << >> /\ chunks = 0 /\ overdue = 0 /\ mb_state = "IDLE"
      /\ priority_queue = << >> /\ normal_queue = << >> /\ calls = << >> /\ ended = << >> /\ attempts = 0
  BY DEF Init, C!Init, M!Init
<1>2. exe \in BOOLEAN /\ late \in BOOLEAN
  BY DEF Init, M!Init
<1>3. LinkTypes
  BY <1>1, <1>2, EmptyReceived DEF LinkTypes, States, M!Latches
<1>4. Asked
  BY <1>1 DEF Asked
<1>5. EchoesShow
  BY <1>1, EmptyReceived DEF EchoesShow
<1>6. DoneSinglesExecuted
  BY <1>1 DEF DoneSinglesExecuted
<1>7. Coupled /\ ReportOK /\ ReportedSingles
  BY <1>1 DEF Coupled, ReportOK, ReportedSingles, Resetting
<1>8. Overdue /\ Latched /\ Prompt
  BY <1>1 DEF Overdue, Latched, Prompt
<1>. QED BY <1>3, <1>4, <1>5, <1>6, <1>7, <1>8 DEF LInv

(* The slave's reaction to command c: the answers already on their way and   *)
(* the writes carried out stay, and what is added is an answer to c.         *)
LEMMA Reaction ==
  ASSUME LinkTypes, NEW c \in WireCommands, SlaveReacts(c)
  PROVE  /\ line' \in Seq(LinkFrames) /\ Len(line') >= Len(line)
         /\ \A i \in 1 .. Len(line) : line'[i] = line[i]
         /\ \A i \in 1 .. Len(line') : i > Len(line) => line'[i].by = c
         /\ \A i \in 1 .. Len(line') :
              i > Len(line) /\ line'[i].kind = "echo" /\ c \in WireWrites => c \in executed'
         /\ executed \subseteq executed'
         /\ UNCHANGED <<chunks, overdue, late>>
<1>0. line \in Seq(LinkFrames) /\ Len(line) \in Nat
  BY DEF LinkTypes
<1>1. CASE UNCHANGED line /\ executed \subseteq executed'
  BY <1>0, <1>1 DEF SlaveReacts
<1>2. ASSUME NEW bad \in Damages, line' = Append(line, AnswerTo(c, bad)),
             executed' = executed \cup ({c} \cap WireWrites)
      PROVE  /\ line' \in Seq(LinkFrames) /\ Len(line') >= Len(line)
             /\ \A i \in 1 .. Len(line) : line'[i] = line[i]
             /\ \A i \in 1 .. Len(line') : i > Len(line) => line'[i].by = c
             /\ \A i \in 1 .. Len(line') :
                  i > Len(line) /\ line'[i].kind = "echo" /\ c \in WireWrites => c \in executed'
  <2>1. AnswerTo(c, bad) \in LinkFrames /\ AnswerTo(c, bad).by = c
    BY AnswersTo
  <2>. QED BY <1>0, <1>2, <2>1
<1>3. ASSUME line' = Append(line, RefusalOf(c)), executed' = executed
      PROVE  /\ line' \in Seq(LinkFrames) /\ Len(line') >= Len(line)
             /\ \A i \in 1 .. Len(line) : line'[i] = line[i]
             /\ \A i \in 1 .. Len(line') : i > Len(line) => line'[i].by = c
             /\ \A i \in 1 .. Len(line') :
                  i > Len(line) /\ line'[i].kind = "echo" /\ c \in WireWrites => c \in executed'
  <2>1. RefusalOf(c) \in LinkFrames /\ RefusalOf(c).by = c /\ RefusalOf(c).kind # "echo"
    BY AnswersTo
  <2>. QED BY <1>0, <1>3, <2>1
<1>. QED BY <1>1, <1>2, <1>3 DEF SlaveReacts
(* A command goes out, for the first time or again.                          *)
LEMMA SentStep ==
  ASSUME LInv, Asked', current_req'.cmd \in Commands, mb_state' \in {"READING", "WRITING"},
         M!Send(OnWire(current_req'.cmd)), SlaveReacts(OnWire(current_req'.cmd)),
         UNCHANGED <<answer, ended>>
  PROVE  LInv'
<1> DEFINE c == OnWire(current_req'.cmd)
<1>1. c \in WireCommands
  BY WireCommand
<1>2. /\ tx_state = "IDLE" /\ tx_state' = "WAIT_RSP" /\ cmd' = c
      /\ UNCHANGED <<exe, errLatch, rx, crc, result>>
  BY DEF M!Send
<1>3. LinkTypes /\ SlaveReacts(c)
  BY DEF LInv
<1>4. /\ line' \in Seq(LinkFrames) /\ Len(line') >= Len(line)
      /\ \A i \in 1 .. Len(line) : line'[i] = line[i]
      /\ \A i \in 1 .. Len(line') : i > Len(line) => line'[i].by = c
      /\ \A i \in 1 .. Len(line') :
           i > Len(line) /\ line'[i].kind = "echo" /\ c \in WireWrites => c \in executed'
      /\ executed \subseteq executed'
      /\ UNCHANGED <<chunks, overdue, late>>
  <2> HIDE DEF c
  <2>. QED BY <1>1, <1>3, Reaction
<1>5. cmd' = OnWire(current_req'.cmd)
  BY <1>2
<1> HIDE DEF c
<1>6. Len(line) \in Nat /\ Len(line') \in Nat /\ overdue \in 0 .. Len(line)
  BY <1>3, <1>4 DEF LinkTypes
<1>7. LinkTypes'
  BY <1>2, <1>3, <1>4, <1>6 DEF LinkTypes, States
<1>8. Coupled' /\ ReportOK'
  BY <1>2, <1>5 DEF Coupled, ReportOK, Resetting
<1>9. EchoesShow'
  <2>1. EchoesShow
    BY DEF LInv
  <2>2. ASSUME NEW i \in 1 .. Len(line'), line'[i].kind = "echo", line'[i].by \in WireWrites
        PROVE  line'[i].by \in executed'
    <3>1. CASE i <= Len(line)
      <4>1. i \in 1 .. Len(line) /\ line'[i] = line[i]
        BY <1>4, <1>6, <3>1
      <4>. QED BY <1>4, <2>1, <2>2, <4>1 DEF EchoesShow, Shows
    <3>2. CASE i > Len(line)
      BY <1>4, <2>2, <3>2
    <3>. QED BY <1>6, <3>1, <3>2
  <2>3. ASSUME rx'.frame # M!Junk, rx'.frame.kind = "echo", rx'.frame.by \in WireWrites
        PROVE  rx'.frame.by \in executed'
    BY <2>3, <1>2, <1>4, <2>1 DEF EchoesShow, Shows
  <2>. QED BY <2>2, <2>3 DEF EchoesShow, Shows
<1>10. ReportedSingles' /\ DoneSinglesExecuted'
  <2>1. DoneSinglesExecuted
    BY DEF LInv
  <2>. QED BY <1>2, <1>4, <2>1 DEF ReportedSingles, Resetting, DoneSinglesExecuted
<1>11. Overdue'
  <2>1. overdue = Len(line)
    BY <1>2 DEF LInv, Overdue
  <2>. QED BY <1>2, <1>4, <2>1 DEF Overdue
<1>12. Latched' /\ Prompt'
  BY <1>2, <1>4, EmptyReceived DEF LInv, Latched, Prompt
<1>. QED BY <1>7, <1>8, <1>9, <1>10, <1>11, <1>12 DEF LInv

LEMMA StartStep ==
  ASSUME LInv, StartRequest
  PROVE  LInv'
<1> DEFINE Entry == [id : Nat, cmd : Commands]
<1>1. C!Take("BUSY", answer)
  BY DEF StartRequest
<1>2. current_req' \in Entry /\ priority_queue' \in Seq(Entry) /\ normal_queue' \in Seq(Entry)
  <2>1. priority_queue \in Seq(Entry) /\ normal_queue \in Seq(Entry)
    BY DEF LInv, Asked
  <2> HIDE DEF Entry
  <2>2. CASE /\ priority_queue # << >> /\ current_req' = Head(priority_queue)
             /\ priority_queue' = Tail(priority_queue) /\ normal_queue' = normal_queue
    BY <2>1, <2>2
  <2>3. CASE /\ normal_queue # << >> /\ current_req' = Head(normal_queue)
             /\ normal_queue' = Tail(normal_queue) /\ priority_queue' = priority_queue
    BY <2>1, <2>3
  <2>. QED BY <1>1, <2>2, <2>3 DEF C!Take, C!Popped
<1>3. mb_state' = C!Sending(current_req') /\ UNCHANGED answer
  BY <1>1 DEF C!Take, C!Transmitted
<1>4. UNCHANGED <<calls, ended>> /\ attempts' = 0
  BY <1>1 DEF C!Take
<1>5. Asked'
  BY <1>2, <1>4 DEF LInv, Asked
<1>6. current_req'.cmd \in Commands /\ mb_state' \in {"READING", "WRITING"}
  BY <1>2, <1>3 DEF C!Sending
<1>. QED BY <1>3, <1>4, <1>5, <1>6, SentStep DEF StartRequest

LEMMA AgainStep ==
  ASSUME LInv, SendAgain
  PROVE  LInv'
<1>1. C!Continue("BUSY", answer)
  BY DEF SendAgain
<1>2. /\ mb_state \in {"WRITING", "READING"}
      /\ mb_state' = C!Sending(current_req)
      /\ UNCHANGED <<priority_queue, normal_queue, current_req, calls, answer, ended, attempts>>
  BY <1>1 DEF C!Continue, C!Transmitted, C!hist
<1>3. Asked' /\ current_req'.cmd \in Commands
  BY <1>2 DEF LInv, Asked
<1>4. mb_state' \in {"READING", "WRITING"}
  BY <1>2 DEF C!Sending
<1>. QED BY <1>2, <1>3, <1>4, SentStep DEF SendAgain
(* A request is queued, or refused, while no command is out or while its     *)
(* answer is awaited.                                                        *)
LEMMA RequestStep ==
  ASSUME LInv, Request
  PROVE  LInv'
<1> DEFINE Entry == [id : Nat, cmd : Commands]
           Call  == [cmd : Commands, ok : BOOLEAN]
<1>1. PICK c \in Commands : C!MBController_Request(c)
  BY DEF Request
<1>2. UNCHANGED mvars /\ UNCHANGED svars
  BY DEF Request
<1>3. UNCHANGED <<mb_state, current_req, answer, ended, attempts>>
  BY <1>1 DEF C!MBController_Request
<1>4. Asked'
  <2> DEFINE r == [id |-> Len(calls) + 1, cmd |-> c]
  <2>1. /\ priority_queue \in Seq(Entry) /\ normal_queue \in Seq(Entry)
        /\ calls \in Seq(Call)
        /\ mb_state # "IDLE" => current_req \in Entry
    BY DEF LInv, Asked
  <2>0. /\ attempts' \in Nat
        /\ ended' \in Seq([req : Entry, outcome : {"done", "given_up", "refused"}, attempts : Nat])
    BY <1>3 DEF LInv, Asked
  <2>2. r \in Entry
    BY <2>1
  <2>3. \A ok \in BOOLEAN : [cmd |-> c, ok |-> ok] \in Call
    OBVIOUS
  <2>4. C!Full(normal_queue) \in BOOLEAN
    BY DEF C!Full
  <2>5. /\ priority_queue' \in {priority_queue, Append(priority_queue, r)}
        /\ normal_queue' \in {normal_queue, Append(normal_queue, r)}
        /\ \E ok \in BOOLEAN : calls' = Append(calls, [cmd |-> c, ok |-> ok])
    BY <1>1, <2>4 DEF C!MBController_Request, C!Accept, C!queues
  <2> HIDE DEF r, Entry, Call
  <2>6. priority_queue' \in Seq(Entry) /\ normal_queue' \in Seq(Entry)
    <3>1. Append(priority_queue, r) \in Seq(Entry) /\ Append(normal_queue, r) \in Seq(Entry)
      BY <2>1, <2>2, AppendProperties
    <3>. QED BY <2>1, <2>5, <3>1
  <2>7. calls' \in Seq(Call)
    BY <2>1, <2>3, <2>5
  <2>. QED BY <1>3, <2>0, <2>1, <2>6, <2>7 DEF Asked, Entry, Call
<1>5. LinkTypes' /\ Coupled' /\ ReportOK' /\ EchoesShow' /\ ReportedSingles'
  BY <1>2, <1>3 DEF LInv, LinkTypes, Coupled, ReportOK, EchoesShow, Shows, ReportedSingles,
       Resetting, mvars, svars
<1>6. DoneSinglesExecuted' /\ Overdue' /\ Latched' /\ Prompt'
  BY <1>2, <1>3 DEF LInv, DoneSinglesExecuted, Overdue, Latched, Prompt, mvars, svars
<1>. QED BY <1>4, <1>5, <1>6 DEF LInv

(* The master evaluates the answer: what it reports the scheduler expects,   *)
(* and an accepted single write was carried out.                             *)
LEMMA EvaluateStep ==
  ASSUME LInv, EvaluateAnswer
  PROVE  LInv'
<1>1. /\ tx_state = "WAIT_RSP" /\ tx_state' = "RST_ERR"
      /\ ~exe' /\ exe' \in BOOLEAN /\ exe
      /\ UNCHANGED <<cmd, errLatch, rx, crc>>
  BY DEF EvaluateAnswer, M!TakeAnswer
<1>2. PICK lucky \in BOOLEAN : result' = M!Evaluate(errLatch, cmd, rx, lucky)
  BY DEF EvaluateAnswer, M!TakeAnswer
<1>3. overdue' = Len(line) /\ UNCHANGED <<line, chunks, late, executed>>
  BY DEF EvaluateAnswer
<1>4. UNCHANGED <<priority_queue, normal_queue, calls, mb_state, current_req, answer, ended, attempts>>
  BY DEF EvaluateAnswer, cvars
<1>5. /\ mb_state \in {"READING", "WRITING"} /\ cmd = OnWire(current_req.cmd)
      /\ current_req.cmd \in Commands
  BY <1>1 DEF LInv, Coupled, Asked
<1>6. cmd \in WireCommands
  BY <1>5, WireCommand
<1>7. errLatch \in M!Latches /\ rx \in M!Received /\ Len(line) \in Nat
  BY DEF LInv, LinkTypes
<1>8. LinkTypes' /\ Asked' /\ Coupled'
  <2>1. LinkTypes'
    BY <1>1, <1>3, <1>7 DEF LInv, LinkTypes, States
  <2>2. Asked'
    BY <1>4 DEF LInv, Asked
  <2>. QED BY <1>1, <1>4, <1>5, <2>1, <2>2 DEF Coupled
<1>9. ReportOK'
  BY <1>2, <1>6, <1>7, ReportAssumption DEF ReportOK
<1>10. EchoesShow'
  BY <1>1, <1>3 DEF LInv, EchoesShow, Shows
<1>11. ASSUME result'.code = "SUCESS"
       PROVE  /\ rx.frame # M!Junk /\ rx.frame \in LinkFrames
              /\ M!Fits(cmd, rx.frame, lucky)
  <2>1. rx.frame # M!Junk /\ M!Fits(cmd, rx.frame, lucky)
    BY <1>2, <1>7, <1>11 DEF M!Evaluate, M!Whole, M!Latches
  <2>. QED BY <1>7, <2>1 DEF M!Received
<1>12. ReportedSingles'
  <2>1. ASSUME result'.code = "SUCESS", cmd.op \in M!Singles
        PROVE  cmd \in executed
    <3>1. rx.frame.kind = "echo" /\ rx.frame.by = cmd
      BY <1>6, <1>11, <2>1, SingleFits
    <3>2. cmd \in WireWrites
      BY <1>6, <2>1 DEF WireWrites, C!WriteOps, M!Singles
    <3>. QED BY <1>11, <2>1, <3>1, <3>2 DEF LInv, EchoesShow, Shows
  <2>. QED BY <1>1, <1>3, <1>4, <1>5, <2>1 DEF ReportedSingles
<1>13. DoneSinglesExecuted'
  BY <1>3, <1>4 DEF LInv, DoneSinglesExecuted
<1>14. Overdue' /\ Latched' /\ Prompt'
  BY <1>1, <1>3 DEF Overdue, Latched, Prompt
<1>. QED BY <1>8, <1>9, <1>10, <1>12, <1>13, <1>14 DEF LInv

(* The first two steps of vResetMasterState.                                 *)
LEMMA InResetStep ==
  ASSUME LInv, InReset
  PROVE  LInv'
<1>1. /\ UNCHANGED <<priority_queue, normal_queue, calls, mb_state, current_req, answer, ended, attempts>>
      /\ UNCHANGED <<line, chunks, overdue, late, executed>>
  BY DEF InReset, cvars, svars
<1>2. CASE M!ResetErr
  <2>1. /\ tx_state = "RST_ERR" /\ tx_state' = "RST_CRC" /\ errLatch' = "DEFAULT"
        /\ UNCHANGED <<cmd, exe, rx, crc, result>>
    BY <1>2 DEF M!ResetErr
  <2>2. LinkTypes' /\ Asked' /\ Coupled' /\ ReportOK' /\ EchoesShow' /\ ReportedSingles'
    BY <1>1, <2>1 DEF LInv, LinkTypes, States, M!Latches, Asked, Coupled, ReportOK, Resetting,
         EchoesShow, Shows, ReportedSingles
  <2>3. DoneSinglesExecuted' /\ Overdue' /\ Latched' /\ Prompt'
    BY <1>1, <2>1 DEF LInv, DoneSinglesExecuted, Overdue, Latched, Prompt
  <2>. QED BY <2>2, <2>3 DEF LInv
<1>3. CASE M!ResetCrc
  <2>1. /\ tx_state = "RST_CRC" /\ tx_state' = "RST_RX" /\ crc' = M!Empty
        /\ UNCHANGED <<cmd, exe, rx, errLatch, result>>
    BY <1>3 DEF M!ResetCrc
  <2>2. LinkTypes' /\ Asked' /\ Coupled' /\ ReportOK' /\ EchoesShow' /\ ReportedSingles'
    BY <1>1, <2>1, EmptyReceived DEF LInv, LinkTypes, States, Asked, Coupled, ReportOK, Resetting,
         EchoesShow, Shows, ReportedSingles
  <2>3. DoneSinglesExecuted' /\ Overdue' /\ Latched' /\ Prompt'
    BY <1>1, <2>1 DEF LInv, DoneSinglesExecuted, Overdue, Latched, Prompt
  <2>. QED BY <2>2, <2>3 DEF LInv
<1>. QED BY <1>2, <1>3 DEF InReset

(* The master has cleared its handle and the scheduler has its answer.       *)
LEMMA ReturnStep ==
  ASSUME LInv, CallReturns
  PROVE  LInv'
<1>1. /\ tx_state = "RST_RX" /\ tx_state' = "IDLE" /\ rx' = M!Empty
      /\ UNCHANGED <<cmd, exe, errLatch, crc, result>>
  BY DEF CallReturns, M!ResetRx
<1>2. /\ mb_state' = "WAITING_RSP" /\ answer' = Report(result)
      /\ UNCHANGED <<priority_queue, normal_queue, current_req, calls, ended, attempts>>
      /\ mb_state # "IDLE"
  BY DEF CallReturns, C!Continue, C!Transmitted, C!hist
<1>3. UNCHANGED <<line, chunks, overdue, late, executed>>
  BY DEF CallReturns, svars
<1>4. LinkTypes' /\ Asked' /\ Coupled' /\ ReportOK'
  BY <1>1, <1>2, <1>3, EmptyReceived DEF LInv, LinkTypes, States, Asked, Coupled, ReportOK, Resetting
<1>5. EchoesShow'
  BY <1>1, <1>3, EmptyReceived DEF LInv, EchoesShow, Shows
<1>6. ReportedSingles'
  <2>1. current_req.cmd \in Commands /\ cmd = OnWire(current_req.cmd)
    BY <1>1, <1>2 DEF LInv, Asked, Coupled
  <2>2. cmd.op = current_req.cmd.op
    BY <2>1, WireCommand
  <2>3. answer'.code = "SUCESS" => result.code = "SUCESS"
    BY <1>2 DEF Report
  <2>. QED BY <1>1, <1>2, <1>3, <2>1, <2>2, <2>3 DEF LInv, ReportedSingles, Resetting
<1>7. DoneSinglesExecuted' /\ Overdue' /\ Latched' /\ Prompt'
  BY <1>1, <1>2, <1>3 DEF LInv, DoneSinglesExecuted, Overdue, Latched, Prompt
<1>. QED BY <1>4, <1>5, <1>6, <1>7 DEF LInv
(* The scheduler takes the answer.                                           *)
LEMMA HandleStep ==
  ASSUME LInv, HandleAnswer
  PROVE  LInv'
<1>1. C!Answered /\ UNCHANGED mvars /\ UNCHANGED svars
  BY DEF HandleAnswer
<1>2. /\ mb_state = "WAITING_RSP"
      /\ UNCHANGED <<priority_queue, normal_queue, current_req, answer, calls>>
  BY <1>1 DEF C!Answered
<1>3. tx_state = "IDLE" /\ tx_state' = "IDLE"
  BY <1>1, <1>2 DEF LInv, Coupled, mvars
<1>4. mb_state' \in {"IDLE", "READING", "WRITING"}
  BY <1>1 DEF C!Answered, C!Succeed, C!Retry, C!GiveUp, C!Refused, C!Sending
<1>5. attempts \in Nat /\ attempts' \in Nat
  <2>1. attempts \in Nat
    BY DEF LInv, Asked
  <2>2. attempts' \in {attempts, attempts + 1}
    BY <1>1, Zenon DEF C!Answered
  <2>. QED BY <2>1, <2>2
<1>6. \/ UNCHANGED ended
      \/ \E o \in {"done", "given_up", "refused"} :
           /\ C!End(o)
           /\ o = "done" => answer.code = "SUCESS"
  BY <1>1 DEF C!Answered, C!Succeed, C!Retry, C!GiveUp, C!Refused
<1>7. LinkTypes' /\ Coupled' /\ ReportOK' /\ EchoesShow' /\ ReportedSingles'
  BY <1>1, <1>2, <1>3, <1>4 DEF LInv, LinkTypes, Coupled, ReportOK, Resetting,
       EchoesShow, Shows, ReportedSingles, mvars, svars
<1>8. Asked' /\ DoneSinglesExecuted'
  <2> DEFINE Ended == [req : [id : Nat, cmd : Commands], outcome : {"done", "given_up", "refused"},
                       attempts : Nat]
  <2>1. /\ DoneSinglesExecuted /\ executed' = executed /\ ReportedSingles
        /\ ended \in Seq(Ended) /\ current_req \in [id : Nat, cmd : Commands]
    BY <1>1, <1>2 DEF LInv, Asked, svars
  <2>2. CASE UNCHANGED ended
    BY <1>2, <1>5, <2>1, <2>2 DEF LInv, Asked, DoneSinglesExecuted
  <2>3. ASSUME NEW o \in {"done", "given_up", "refused"}, C!End(o),
               o = "done" => answer.code = "SUCESS"
        PROVE  Asked' /\ DoneSinglesExecuted'
    <3> DEFINE e == [req |-> current_req, outcome |-> o, attempts |-> attempts']
    <3>1. e \in Ended /\ ended' = Append(ended, e) /\ e.req = current_req /\ e.outcome = o
      BY <1>5, <2>1, <2>3 DEF C!End
    <3> HIDE DEF e, Ended
    <3>2. /\ ended' \in Seq(Ended) /\ Len(ended') = Len(ended) + 1 /\ Len(ended) \in Nat
          /\ \A i \in 1 .. Len(ended) : ended'[i] = ended[i]
          /\ ended'[Len(ended) + 1] = e
      <4>1. ended \in Seq(Ended) /\ e \in Ended /\ ended' = Append(ended, e)
        BY <2>1, <3>1 DEF Ended
      <4>. QED BY <4>1, Appended, Zenon
    <3>3. Asked'
      BY <1>2, <1>5, <2>1, <3>2 DEF LInv, Asked, Ended
    <3>4. ASSUME NEW i \in 1 .. Len(ended'), ended'[i].outcome = "done",
                 ended'[i].req.cmd.op \in M!Singles
          PROVE  OnWire(ended'[i].req.cmd) \in executed'
      <4>1. CASE i \in 1 .. Len(ended)
        BY <2>1, <3>2, <3>4, <4>1 DEF DoneSinglesExecuted
      <4>2. CASE i = Len(ended) + 1
        BY <1>2, <2>1, <2>3, <3>1, <3>2, <3>4, <4>2 DEF ReportedSingles
      <4>3. Len(ended') = Len(ended) + 1 /\ Len(ended) \in Nat
        BY <3>2
      <4>. QED BY <4>1, <4>2, <4>3, UpToNext, Zenon
    <3>. QED BY <3>3, <3>4 DEF DoneSinglesExecuted
  <2>. QED BY <1>6, <2>2, <2>3
<1>9. Overdue' /\ Latched' /\ Prompt'
  BY <1>1 DEF LInv, Overdue, Latched, Prompt, mvars, svars
<1>. QED BY <1>7, <1>8, <1>9 DEF LInv

(* The timer interrupt latches an answer as good only when it is one whole   *)
(* undamaged frame.                                                          *)
LEMMA TimerStep ==
  ASSUME LInv, TimerInterrupt
  PROVE  LInv'
<1>1. /\ UNCHANGED <<priority_queue, normal_queue, calls, mb_state, current_req, answer, ended, attempts>>
      /\ UNCHANGED <<line, chunks, overdue, late, executed>>
  BY DEF TimerInterrupt, cvars, svars
<1>2. /\ UNCHANGED <<tx_state, cmd, rx, crc, result>>
      /\ \/ UNCHANGED <<exe, errLatch>>
         \/ /\ exe' = TRUE
            /\ errLatch' \in M!Latches
            /\ errLatch' = "SUCESS" => M!CrcGood(crc)
  BY DEF TimerInterrupt, M!TimISR, M!TimISREntry, M!FrameEnds, M!Tick, LInv, LinkTypes, M!Latches
<1>3. LinkTypes' /\ Asked' /\ Coupled' /\ ReportOK' /\ EchoesShow' /\ ReportedSingles'
  BY <1>1, <1>2 DEF LInv, LinkTypes, Asked, Coupled, ReportOK, Resetting,
       EchoesShow, Shows, ReportedSingles
<1>4. DoneSinglesExecuted' /\ Overdue'
  BY <1>1, <1>2 DEF LInv, DoneSinglesExecuted, Overdue
<1>5. Latched' /\ Prompt'
  BY <1>1, <1>2 DEF LInv, Latched, Prompt
<1>. QED BY <1>3, <1>4, <1>5 DEF LInv

(* A chunk of an answer comes. If it is not late, a command is out and it is *)
(* part of an answer to that command.                                        *)
LEMMA ChunkStep ==
  ASSUME LInv, ChunkArrives
  PROVE  LInv'
<1> DEFINE k == [frame |-> Head(line), pos |-> chunks + 1]
<1>1. /\ k \in M!Chunk /\ k.frame = line[1]
      /\ Head(line) \in LinkFrames /\ Head(line) = line[1] /\ Len(line) > 0
  BY NextChunk DEF LInv, ChunkArrives
<1>2. M!UartRxISR(k)
  BY DEF ChunkArrives
<1> HIDE DEF k
<1>3. /\ UNCHANGED <<priority_queue, normal_queue, calls, mb_state, current_req, answer, ended, attempts>>
      /\ UNCHANGED executed
  BY DEF ChunkArrives, cvars
<1>4. /\ UNCHANGED <<tx_state, cmd, exe, result>>
      /\ \/ UNCHANGED <<rx, crc, errLatch>>
         \/ /\ rx' = M!With(rx, k) /\ crc' = M!With(crc, k)
            /\ errLatch' \in {errLatch, "ACKERR", "ERRACK"}
  BY <1>2 DEF M!UartRxISR, M!Verdict
<1>5. /\ rx \in M!Received /\ crc \in M!Received /\ errLatch \in M!Latches
      /\ line \in Seq(LinkFrames) /\ Len(line) \in Nat /\ chunks \in 0 .. 2
      /\ overdue \in 0 .. Len(line) /\ exe \in BOOLEAN /\ late \in BOOLEAN
  BY DEF LInv, LinkTypes
<1>6. /\ rx' \in M!Received /\ crc' \in M!Received
      /\ rx'.frame \in {rx.frame, M!Junk, line[1]}
  BY <1>1, <1>4, <1>5, Collected
<1>7. \/ /\ line' = line /\ overdue' = overdue
      \/ /\ line' = Tail(line)
         /\ overdue' = IF overdue > 0 THEN overdue - 1 ELSE overdue
  BY DEF ChunkArrives
<1>8. /\ line' \in Seq(LinkFrames) /\ Len(line') \in Nat
      /\ \A i \in 1 .. Len(line') : line'[i] \in {line[i], line[i + 1]}
      /\ \/ line' = line /\ overdue' = overdue
         \/ /\ Len(line') = Len(line) - 1
            /\ \A i \in 1 .. Len(line') : line'[i] = line[i + 1]
            /\ overdue' = IF overdue > 0 THEN overdue - 1 ELSE overdue
  BY <1>1, <1>5, <1>7
<1>9. LinkTypes'
  <2>1. overdue' \in 0 .. Len(line')
    BY <1>1, <1>5, <1>8
  <2>2. chunks' \in 0 .. 2 /\ late' \in BOOLEAN
    BY <1>5 DEF ChunkArrives
  <2>3. errLatch' \in M!Latches
    BY <1>4, <1>5 DEF M!Latches
  <2>. QED BY <1>4, <1>6, <1>8, <2>1, <2>2, <2>3 DEF LInv, LinkTypes
<1>10. Asked' /\ Coupled' /\ ReportOK' /\ ReportedSingles' /\ DoneSinglesExecuted'
  BY <1>3, <1>4 DEF LInv, Asked, Coupled, ReportOK, Resetting, ReportedSingles, DoneSinglesExecuted
<1>11. EchoesShow'
  <2>1. EchoesShow
    BY DEF LInv
  <2>2. ASSUME NEW i \in 1 .. Len(line'), line'[i].kind = "echo", line'[i].by \in WireWrites
        PROVE  line'[i].by \in executed'
    BY <1>1, <1>3, <1>5, <1>8, <2>1, <2>2 DEF EchoesShow, Shows
  <2>3. ASSUME rx'.frame # M!Junk, rx'.frame.kind = "echo", rx'.frame.by \in WireWrites
        PROVE  rx'.frame.by \in executed'
    <3>1. 1 \in 1 .. Len(line)
      BY <1>1, <1>5
    <3>. QED BY <1>3, <1>6, <2>1, <2>3, <3>1 DEF EchoesShow, Shows
  <2>. QED BY <2>2, <2>3 DEF EchoesShow, Shows
<1>12. Overdue'
  <2>1. CASE tx_state # "WAIT_RSP"
    BY <1>1, <1>4, <1>5, <1>8, <2>1 DEF LInv, Overdue
  <2>2. CASE tx_state = "WAIT_RSP"
    <3>1. \A i \in 1 .. Len(line) : i > overdue => line[i].by = cmd
      BY <2>2 DEF LInv, Overdue
    <3>. QED BY <1>1, <1>4, <1>5, <1>8, <2>2, <3>1 DEF Overdue
  <2>. QED BY <2>1, <2>2
<1>13. Latched'
  BY <1>4 DEF LInv, Latched
<1>14. Prompt'
  <2> SUFFICES ASSUME ~late' PROVE Prompt'
    BY DEF Prompt
  <2>1. ~late /\ ~exe /\ ~(overdue > 0)
    BY <1>5 DEF ChunkArrives
  <2>2. tx_state = "WAIT_RSP"
    BY <1>1, <1>5, <2>1 DEF LInv, Overdue
  <2>3. line[1].by = cmd
    BY <1>1, <1>5, <2>1, <2>2 DEF LInv, Overdue
  <2>4. errLatch # "SUCESS" /\ errLatch' # "SUCESS"
    BY <1>4, <2>1, <2>2 DEF LInv, Latched
  <2>5. crc = rx /\ (rx.frame # M!Junk => rx.frame.by = cmd)
    BY <2>1, <2>2 DEF LInv, Prompt
  <2>. QED BY <1>4, <1>6, <2>2, <2>3, <2>4, <2>5 DEF Prompt
<1>. QED BY <1>9, <1>10, <1>11, <1>12, <1>13, <1>14 DEF LInv

LEMMA StutterStep ==
  ASSUME LInv, UNCHANGED vars
  PROVE  LInv'
<1>1. UNCHANGED cvars /\ UNCHANGED mvars /\ UNCHANGED svars
  BY DEF vars
<1>2. LinkTypes' /\ Asked'
  BY <1>1 DEF cvars, mvars, svars, LInv, LinkTypes, Asked
<1>3. Coupled' /\ ReportOK' /\ EchoesShow' /\ ReportedSingles' /\ DoneSinglesExecuted'
  BY <1>1 DEF cvars, mvars, svars, LInv, Coupled, ReportOK, Resetting, EchoesShow, Shows,
     ReportedSingles, DoneSinglesExecuted
<1>4. Overdue' /\ Latched' /\ Prompt'
  BY <1>1 DEF mvars, svars, LInv, Overdue, Latched, Prompt
<1>. QED BY <1>2, <1>3, <1>4 DEF LInv

LEMMA LinkInvariant == Spec => []LInv
<1>1. ASSUME LInv, [Next]_vars PROVE LInv'
  BY <1>1, RequestStep, StartStep, AgainStep, EvaluateStep, InResetStep, ReturnStep, HandleStep,
     TimerStep, ChunkStep, StutterStep DEF Next, MainLoop
<1>. QED BY <1>1, InitLink, PTL DEF Spec
-----------------------------------------------------------------------------
(* A single write the panel reports as done was carried out by the slave,    *)
(* whatever was lost, damaged, repeated, refused or late: its echo carries   *)
(* the same function, address and word.                                      *)
THEOREM DoneSinglesWereExecuted == Spec => []DoneSinglesExecuted
<1>1. LInv => DoneSinglesExecuted
  BY DEF LInv
<1>. QED BY <1>1, LinkInvariant, PTL

(* Unless a chunk came after the outcome of its command, what the panel      *)
(* accepts as the answer to a command is the undamaged answer to it.         *)
THEOREM AcceptsOnlyMatches == Spec => MatchesUnlessLate
<1>1. ASSUME LInv, [Next]_vars, Accepting, ~late
      PROVE  Matching
  <2>1. EvaluateAnswer
    <3>1. tx_state = "WAIT_RSP" /\ tx_state' = "RST_ERR"
      BY <1>1 DEF Accepting
    <3>. QED BY <1>1, <3>1 DEF Next, MainLoop, Request, StartRequest, SendAgain, M!Send, InReset,
      M!ResetErr, M!ResetCrc, CallReturns, M!ResetRx, HandleAnswer, mvars, TimerInterrupt, M!TimISR,
      M!TimISREntry, M!FrameEnds, M!Tick, ChunkArrives, M!UartRxISR, vars
  <2>2. PICK lucky \in BOOLEAN : result' = M!Evaluate(errLatch, cmd, rx, lucky)
    BY <2>1 DEF EvaluateAnswer, M!TakeAnswer
  <2>3. errLatch = "SUCESS" /\ M!Whole(rx)
    BY <1>1, <2>2 DEF Accepting, M!Evaluate, LInv, LinkTypes, M!Latches
  <2>4. rx # M!Empty /\ rx.frame # M!Junk
    BY <2>3, EmptyReceived DEF M!Whole
  <2>. QED BY <1>1, <2>3, <2>4 DEF LInv, Prompt, Accepting, Matching, M!CrcGood
<1>2. LInv /\ [Next]_vars => (Accepting /\ ~late => Matching)
  BY <1>1
<1>. QED BY <1>2, LinkInvariant, PTL DEF Spec, MatchesUnlessLate
-----------------------------------------------------------------------------
(* With the master, the interrupts, the line and the slave behind it, the    *)
(* scheduler makes only the steps its specification allows: what the master  *)
(* returns is always something the scheduler is specified for.               *)
THEOREM ControllerRefined == Spec => C!SafetySpec
<1>1. Init => C!Init
  BY DEF Init
<1>2. ASSUME LInv, [Next]_vars
      PROVE  [C!Next]_cvars
  <2>1. ASSUME NEW c \in Commands
        PROVE  \E a \in Answers : TRUE
    <3>1. OnWire(c) \in WireCommands /\ "NACK" \in M!Latches /\ M!Empty \in M!Received
      BY WireCommand, EmptyReceived DEF M!Latches
    <3>. QED BY <3>1, ReportAssumption
  <2>2. CASE Request
    BY <2>2 DEF Request, C!Next
  <2>3. CASE StartRequest
    <3>1. current_req'.cmd \in Commands
      <4>1. LInv'
        BY <1>2, <2>3, StartStep
      <4>2. mb_state' # "IDLE"
        BY <2>3 DEF StartRequest, C!Take, C!Transmitted, C!Sending
      <4>. QED BY <4>1, <4>2 DEF LInv, Asked
    <3>2. PICK a \in Answers : TRUE
      BY <2>1, <3>1
    <3>3. C!Take("BUSY", a)
      BY <2>3 DEF StartRequest, C!Take, C!Transmitted
    <3>. QED BY <3>3 DEF C!Next, C!MBController_Process
  <2>4. CASE SendAgain
    <3>1. current_req.cmd \in Commands
      BY <1>2, <2>4 DEF SendAgain, C!Continue, LInv, Asked
    <3>2. PICK a \in Answers : TRUE
      BY <2>1, <3>1
    <3>3. C!Continue("BUSY", a)
      BY <2>4 DEF SendAgain, C!Continue, C!Transmitted
    <3>. QED BY <3>3 DEF C!Next, C!MBController_Process
  <2>5. CASE CallReturns
    <3>1. Report(result) \in Answers
      BY <1>2, <2>5 DEF CallReturns, M!ResetRx, LInv, ReportOK, Resetting
    <3>. QED BY <2>5, <3>1 DEF CallReturns, C!Next, C!MBController_Process
  <2>6. CASE HandleAnswer
    BY <2>6 DEF HandleAnswer, C!Next, C!MBController_Process
  <2>7. CASE EvaluateAnswer \/ InReset \/ TimerInterrupt \/ ChunkArrives \/ UNCHANGED vars
    BY <2>7 DEF EvaluateAnswer, InReset, TimerInterrupt, ChunkArrives, vars
  <2>. QED BY <1>2, <2>2, <2>3, <2>4, <2>5, <2>6, <2>7 DEF Next, MainLoop
<1>. QED BY <1>1, <1>2, LinkInvariant, PTL DEF Spec, C!SafetySpec, C!cvars, cvars

(* The master in the link makes only the steps its specification allows: the *)
(* scheduler gives it only commands, and the line only chunks of frames, it  *)
(* is specified for, and it is never called in the middle of a reset.        *)
THEOREM MasterRefined == Spec => M!SafetySpec
<1>1. Init => M!Init
  BY DEF Init
<1>2. ASSUME LInv, [Next]_vars
      PROVE  [M!Next]_mvars
  <2>1. CASE StartRequest
    <3>1. current_req'.cmd \in Commands
      <4>1. LInv'
        BY <1>2, <2>1, StartStep
      <4>2. mb_state' # "IDLE"
        BY <2>1 DEF StartRequest, C!Take, C!Transmitted, C!Sending
      <4>. QED BY <4>1, <4>2 DEF LInv, Asked
    <3>2. OnWire(current_req'.cmd) \in WireCommands
      BY <3>1, WireCommand
    <3>. QED BY <2>1, <3>2 DEF StartRequest, M!Next
  <2>2. CASE SendAgain
    <3>1. current_req.cmd \in Commands
      BY <1>2, <2>2 DEF SendAgain, C!Continue, LInv, Asked
    <3>2. OnWire(current_req.cmd) \in WireCommands
      BY <3>1, WireCommand
    <3>. QED BY <2>2, <3>2 DEF SendAgain, M!Next
  <2>3. CASE ChunkArrives
    <3>1. [frame |-> Head(line), pos |-> chunks + 1] \in M!Chunk
      BY <1>2, <2>3, NextChunk DEF LInv, ChunkArrives
    <3>. QED BY <2>3, <3>1 DEF ChunkArrives, M!Next
  <2>4. CASE EvaluateAnswer \/ InReset \/ CallReturns \/ TimerInterrupt
    BY <2>4 DEF EvaluateAnswer, InReset, CallReturns, TimerInterrupt, M!Next
  <2>5. CASE Request \/ HandleAnswer \/ UNCHANGED vars
    BY <2>5 DEF Request, HandleAnswer, vars
  <2>. QED BY <1>2, <2>1, <2>2, <2>3, <2>4, <2>5 DEF Next, MainLoop
<1>. QED BY <1>1, <1>2, LinkInvariant, PTL DEF Spec, M!SafetySpec, M!mvars, mvars
-----------------------------------------------------------------------------
(* What was proved of the scheduler and the master on their own.             *)
CP == INSTANCE MBController_proofs
MP == INSTANCE ModbusMaster_proofs WITH Commands <- WireCommands, Frames <- LinkFrames

(* Their assumptions are among those of the link.                            *)
LEMMA PartsAssumptions ==
  /\ CP!QueueAssumption /\ CP!RetryAssumption /\ CP!SpaceAssumption /\ CP!WordAssumption
  /\ CP!CommandAssumption /\ CP!AnswerAssumption
  /\ MP!TicksAssumption /\ MP!FrameAssumption
<1>1. CP!QueueAssumption /\ CP!RetryAssumption /\ CP!SpaceAssumption /\ CP!WordAssumption
  BY PartsAssumption DEF CP!QueueAssumption, CP!RetryAssumption, CP!SpaceAssumption,
    CP!WordAssumption, C!QueueAssumption, C!RetryAssumption, C!SpaceAssumption, C!WordAssumption
<1>2. CP!CommandAssumption /\ CP!AnswerAssumption
  BY PartsAssumption DEF CP!CommandAssumption, CP!AnswerAssumption, C!CommandAssumption,
    C!AnswerAssumption, C!Command, CP!Command, C!Ops, CP!Ops, C!WriteOps, CP!WriteOps,
    C!ReadOps, CP!ReadOps, C!Answer, CP!Answer, C!Codes, CP!Codes
<1>3. MP!TicksAssumption /\ MP!FrameAssumption
  BY PartsAssumption DEF MP!TicksAssumption, MP!FrameAssumption, M!TicksAssumption,
    M!FrameAssumption, M!Kinds, MP!Kinds, M!Reads, MP!Reads, M!Writes, MP!Writes,
    M!Singles, MP!Singles
<1>. QED BY <1>1, <1>2, <1>3

(* The scheduler of the proofs is the scheduler of the link.                 *)
LEMMA SameController == C!SafetySpec => CP!SafetySpec
<1>1. C!Init => CP!Init
  BY DEF C!Init, CP!Init, C!None, CP!None, C!Idle, CP!Idle, C!Key, CP!Key
<1>2. ASSUME NEW c, C!MBController_Request(c) PROVE CP!MBController_Request(c)
  BY <1>2 DEF C!MBController_Request, CP!MBController_Request, C!WriteOps, CP!WriteOps, C!ReadOps,
    CP!ReadOps, C!Accept, CP!Accept, C!Full, CP!Full, C!queues, CP!queues
<1>3. ASSUME NEW status, NEW a, C!Take(status, a) PROVE CP!Take(status, a)
  BY <1>3 DEF C!Take, CP!Take, C!ReadsTurn, CP!ReadsTurn, C!Popped, CP!Popped, C!Transmitted,
    CP!Transmitted, C!Sending, CP!Sending, C!WriteOps, CP!WriteOps
<1>4. ASSUME NEW status, NEW a, C!Continue(status, a) PROVE CP!Continue(status, a)
  BY <1>4 DEF C!Continue, CP!Continue, C!Transmitted, CP!Transmitted, C!hist, CP!hist, C!Sending,
    CP!Sending, C!WriteOps, CP!WriteOps
<1>5. C!Answered => CP!Answered
  BY DEF C!Answered, CP!Answered, C!Succeed, CP!Succeed, C!Retry, CP!Retry, C!GiveUp, CP!GiveUp,
    C!Refused, CP!Refused, C!End, CP!End, C!Failures, CP!Failures, C!ErrorCode, CP!ErrorCode,
    C!Sending, CP!Sending, C!WriteOps, CP!WriteOps, C!AttemptsCap, CP!AttemptsCap,
    C!CacheAfter, CP!CacheAfter, C!Key, CP!Key, C!Stored, CP!Stored, C!Offset, CP!Offset
<1>6. C!Next => CP!Next
  BY <1>2, <1>3, <1>4, <1>5 DEF C!Next, CP!Next, C!MBController_Process, CP!MBController_Process
<1>. QED BY <1>1, <1>6, PTL DEF C!SafetySpec, CP!SafetySpec, C!cvars, CP!cvars

(* And so is the master.                                                     *)
LEMMA SameMaster == M!SafetySpec => MP!SafetySpec
<1>1. M!Init => MP!Init
  BY DEF M!Init, MP!Init, M!NoCmd, MP!NoCmd, M!Nothing, MP!Nothing, M!Empty, MP!Empty, M!Junk, MP!Junk
<1>2. ASSUME NEW c, M!Send(c) PROVE MP!Send(c)
  BY <1>2 DEF M!Send, MP!Send, M!InMain, MP!InMain
<1>3. M!TakeAnswer => MP!TakeAnswer
  BY DEF M!TakeAnswer, MP!TakeAnswer, M!InMain, MP!InMain, M!Evaluate, MP!Evaluate, M!Whole, MP!Whole,
    M!Junk, MP!Junk, M!Fits, MP!Fits, M!Singles, MP!Singles, M!Writes, MP!Writes,
    M!EchoWord, MP!EchoWord, M!DataOf, MP!DataOf
<1>4. M!ResetErr \/ M!ResetCrc \/ M!ResetRx => MP!ResetErr \/ MP!ResetCrc \/ MP!ResetRx
  BY DEF M!ResetErr, MP!ResetErr, M!ResetCrc, MP!ResetCrc, M!ResetRx, MP!ResetRx, M!InMain, MP!InMain,
    M!Empty, MP!Empty, M!Junk, MP!Junk
<1>5. ASSUME NEW k, M!UartRxISR(k) PROVE MP!UartRxISR(k)
  BY <1>5 DEF M!UartRxISR, MP!UartRxISR, M!With, MP!With, M!Junk, MP!Junk, M!Verdict, MP!Verdict
<1>6. M!TimISR => MP!TimISR
  BY DEF M!TimISR, MP!TimISR, M!TimISREntry, MP!TimISREntry, M!FrameEnds, MP!FrameEnds, M!Tick, MP!Tick,
    M!CrcGood, MP!CrcGood, M!Whole, MP!Whole, M!Junk, MP!Junk
<1>7. M!Next => MP!Next
  BY <1>2, <1>3, <1>4, <1>5, <1>6 DEF M!Next, MP!Next, M!Chunk, MP!Chunk
<1>. QED BY <1>1, <1>7, PTL DEF M!SafetySpec, MP!SafetySpec, M!mvars, MP!mvars

(* On the real master, requests are served in the order in which they were   *)
(* made but for writes that overtake reads, each at most once, and no        *)
(* accepted read is lost, wherever the interrupts come and whatever the line *)
(* and the slave do.                                                         *)
THEOREM LinkServesInOrder == Spec => [](C!ServedInOrder /\ C!AcceptedReadsKept)
<1>1. CP!SafetySpec => []CP!ServedInOrder
  BY PartsAssumptions, CP!InOrder
<1>2. CP!SafetySpec => []CP!AcceptedReadsKept
  BY PartsAssumptions, CP!ReadsKept
<1>3. CP!ServedInOrder => C!ServedInOrder
  BY DEF C!ServedInOrder, CP!ServedInOrder, C!Increasing, CP!Increasing, C!Ahead, CP!Ahead, C!Made,
    CP!Made, C!Over, CP!Over, C!InProgress, CP!InProgress, C!Before, CP!Before,
    C!Overtakes, CP!Overtakes, C!WriteOps, CP!WriteOps
<1>4. CP!AcceptedReadsKept => C!AcceptedReadsKept
  BY DEF C!AcceptedReadsKept, CP!AcceptedReadsKept, C!Over, CP!Over, C!InProgress, CP!InProgress,
    C!In, CP!In, C!ReadOps, CP!ReadOps
<1>. QED BY <1>1, <1>2, <1>3, <1>4, ControllerRefined, SameController, PTL

(* On the real master, no request is tried for ever, none is given up for    *)
(* failures before the last success, and the error shown is that of the last *)
(* request that ended.                                                       *)
THEOREM LinkGivesUp == Spec => [](C!AttemptsBounded /\ C!GivenUpAfterFailures /\ C!ErrorShown)
<1>1. CP!SafetySpec => []CP!AttemptsBounded
  BY PartsAssumptions, CP!BoundedAttempts
<1>2. CP!SafetySpec => []CP!ErrorShown
  BY PartsAssumptions, CP!ErrorIsLast
<1>3. CP!SafetySpec => []CP!GivenUpAfterFailures
  BY PartsAssumptions, CP!GivenUpForAReason
<1>4. CP!AttemptsBounded /\ CP!ErrorShown => C!AttemptsBounded /\ C!ErrorShown
  BY DEF C!AttemptsBounded, CP!AttemptsBounded, C!ErrorShown, CP!ErrorShown
<1>5. CP!GivenUpAfterFailures => C!GivenUpAfterFailures
  BY DEF C!GivenUpAfterFailures, CP!GivenUpAfterFailures, C!FailedAnswers, CP!FailedAnswers,
    C!SumFunctionOnSet, CP!SumFunctionOnSet, C!FoldFunctionOnSet, CP!FoldFunctionOnSet,
    C!MapThenFoldSet, CP!MapThenFoldSet
<1>. QED BY <1>1, <1>2, <1>3, <1>4, <1>5, ControllerRefined, SameController, PTL

(* Under the scheduler, a command that was sent always has a way to end, and *)
(* TimeoutCnt goes at most one beyond the timeout.                           *)
THEOREM LinkNeverStuck == Spec => [](M!TypeOK /\ M!NeverStuck)
<1>1. MP!SafetySpec => []MP!NeverStuck
  BY PartsAssumptions, MP!WaysToEnd
<1>2. MP!SafetySpec => []MP!TypeOK
  BY PartsAssumptions, MP!TypeCorrect
<1>3. MP!NeverStuck => M!NeverStuck
  BY DEF M!NeverStuck, MP!NeverStuck
<1>4. MP!TypeOK => M!TypeOK
  BY DEF M!TypeOK, MP!TypeOK, M!Latches, MP!Latches, M!Received, MP!Received, M!Junk, MP!Junk,
    M!NoCmd, MP!NoCmd, M!Codes, MP!Codes
<1>. QED BY <1>1, <1>2, <1>3, <1>4, MasterRefined, SameMaster, PTL
=============================================================================
