---------------------------- MODULE MBController ----------------------------
(***************************************************************************)
(* The request scheduler of the RS485 link (user_mb_controller.c). Writes  *)
(* and reads wait in two ring queues; MBController_Process, called in      *)
(* every pass of the main loop, takes one request at a time (writes        *)
(* first), hands it to the Modbus master until an answer is there, and     *)
(* then stores it in the register cache, retries it or gives it up.        *)
(*                                                                         *)
(* The operators take what the Modbus master returns as a parameter. Here  *)
(* it returns anything it is declared to return; Rs485Link composes this   *)
(* module with the master itself.                                          *)
(***************************************************************************)
EXTENDS Naturals, Sequences, SequencesExt

CONSTANTS
  QueueSlots,   (* MAX_PRIORITY_QUEUE_SIZE = MAX_NORMAL_QUEUE_SIZE = 8      *)
  RetryLimit,   (* retries before a request is given up: 5                  *)
  CounterMod,   (* timeoutcnt is a uint8_t: 256                             *)
  AddrSpace,    (* addresses wrap: 2^16                                     *)
  Word,         (* values of a register                                     *)
  Commands,     (* the requests the panel makes                             *)
  Answers,      (* what the Modbus master may report for a command          *)
  MaxRequests   (* bound of the model: how many requests are made           *)

ASSUME QueueAssumption == QueueSlots \in Nat /\ QueueSlots >= 2
ASSUME RetryAssumption == RetryLimit \in Nat /\ CounterMod \in Nat /\ RetryLimit + 1 < CounterMod
ASSUME SpaceAssumption == AddrSpace \in Nat \ {0} /\ MaxRequests \in Nat
ASSUME WordAssumption  == {0, 1} \subseteq Word

WriteOps == {"WRITE_SINGLE_COIL", "WRITE_SINGLE_REGISTER", "WRITE_MULTIPLE_REGISTERS"}
ReadOps  == {"READ_COILS", "READ_HOLDING_REGISTERS"}
Ops      == WriteOps \cup ReadOps \cup {"UNSUPPORTED"}

(* MB_Request without the slave's address: "words" is the payload of a write *)
(* and "len" the number of coils or registers of a read.                     *)
Command == [op : Ops, addr : 0 .. AddrSpace - 1, words : Seq(Word), len : Nat]
Codes   == {"SUCESS", "NACK", "ACKERR", "ERRACK", "EXCEPTION"}
Answer  == [code : Codes, data : Seq(Word)]

ASSUME CommandAssumption == Commands \subseteq Command
ASSUME AnswerAssumption  == Answers \subseteq Answer

VARIABLES
  priority_queue,  (* write requests that wait                              *)
  normal_queue,    (* read requests that wait                               *)
  mb_state,        (* MB_State                                              *)
  current_req,     (* the request in progress                               *)
  answer,          (* mb_error and rx_buffer after the master returned BSP_OK *)
  timeoutcnt,      (* failures since the last success, modulo CounterMod    *)
  rs_err,          (* the error shown to the user                           *)
  cache,           (* coils and registers known to the panel                *)
  calls,           (* history: every request made, in order, and its reply  *)
  ended,           (* history: requests that are over, with their outcome   *)
  attempts         (* history: answers received for the current request,    *)
                   (* counted up to AttemptsCap                             *)

queues == <<priority_queue, normal_queue>>
hist   == <<calls, ended, attempts>>
cvars  == <<priority_queue, normal_queue, mb_state, current_req, answer,
            timeoutcnt, rs_err, cache, calls, ended, attempts>>

(* Bound of the model, one more than AttemptsBounded allows. *)
AttemptsCap == RetryLimit + 3

Key  == (0 .. AddrSpace - 1) \X BOOLEAN
None == [id |-> 0, cmd |-> [op |-> "UNSUPPORTED", addr |-> 0, words |-> << >>, len |-> 0]]
Idle == [code |-> "SUCESS", data |-> << >>]
-----------------------------------------------------------------------------
Init ==
  /\ priority_queue = << >> /\ normal_queue = << >>
  /\ mb_state = "IDLE"
  /\ current_req = None
  /\ answer = Idle
  /\ timeoutcnt = 0
  /\ rs_err = 0
  /\ cache = [k \in Key |-> 0]
  /\ calls = << >> /\ ended = << >> /\ attempts = 0

(* A ring of QueueSlots slots is full when one slot is left. *)
FullOneLate(q) == Len(q) = QueueSlots
Full(q) == Len(q) = QueueSlots - 1

AcceptOverFull(q, r) == Append(IF Full(q) THEN Tail(q) ELSE q, r)
Accept(q, r) == IF Full(q) THEN q ELSE Append(q, r)

(* A write that finds its queue full is dropped, yet reported as accepted;   *)
(* a read that finds its queue full is refused.                              *)
MBController_Request(cmd) ==
  LET r == [id |-> Len(calls) + 1, cmd |-> cmd]
      Reply(ok) == calls' = Append(calls, [cmd |-> cmd, ok |-> ok])
  IN /\ Len(calls) < MaxRequests
     /\ \/ /\ cmd.op \in WriteOps
           /\ priority_queue' = Accept(priority_queue, r)
           /\ Reply(TRUE)
           /\ UNCHANGED normal_queue
        \/ /\ cmd.op \in ReadOps
           /\ normal_queue' = Accept(normal_queue, r)
           /\ Reply(~Full(normal_queue))
           /\ UNCHANGED priority_queue
        \/ /\ cmd.op \notin WriteOps \cup ReadOps
           /\ Reply(FALSE)
           /\ UNCHANGED queues
     /\ UNCHANGED <<mb_state, current_req, answer, timeoutcnt, rs_err, cache, ended, attempts>>
-----------------------------------------------------------------------------
(* The states in which a request is with the Modbus master. *)
Sending(r) == IF r.cmd.op \in WriteOps THEN "WRITING" ELSE "READING"

(* The master returned "status"; a is its answer if the status is BSP_OK.    *)
(* Any other status leaves the request where it is: it is sent again.        *)
Transmitted(r, status, a) ==
  IF status = "OK" THEN mb_state' = "WAITING_RSP" /\ answer' = a
  ELSE mb_state' = Sending(r) /\ UNCHANGED answer

(* MB_IDLE: the oldest write, or the oldest read if no write waits. *)
Popped(q) == <<Head(q), Tail(q)>>

ReadsTurnAlways == TRUE
ReadsTurn == priority_queue = << >>

Take(status, a) ==
  /\ mb_state = "IDLE"
  /\ \/ /\ priority_queue # << >>
        /\ current_req' = Popped(priority_queue)[1] /\ priority_queue' = Popped(priority_queue)[2]
        /\ UNCHANGED normal_queue
     \/ /\ ReadsTurn /\ normal_queue # << >>
        /\ current_req' = Popped(normal_queue)[1] /\ normal_queue' = Popped(normal_queue)[2]
        /\ UNCHANGED priority_queue
  /\ attempts' = 0
  /\ Transmitted(current_req', status, a)
  /\ UNCHANGED <<timeoutcnt, rs_err, cache, calls, ended>>

(* MB_WRITING, MB_READING: hand the request to the master (again). *)
Continue(status, a) ==
  /\ mb_state \in {"WRITING", "READING"}
  /\ Transmitted(current_req, status, a)
  /\ UNCHANGED <<priority_queue, normal_queue, current_req, timeoutcnt, rs_err, cache>>
  /\ UNCHANGED hist
-----------------------------------------------------------------------------
(* What a successful request leaves in the cache. The data of a read goes to *)
(* the addresses asked for; a coil for which no data came reads as off, and  *)
(* registers are stored as many as came. A write stores what it wrote.       *)
Offset(a, i) == (a + i) % AddrSpace

Stored(cmd, data) ==
  IF cmd.op = "READ_COILS" THEN
    [i \in {j \in 0 .. cmd.len - 1 : j \div 16 < (Len(data) + 7) \div 8} |->
       IF i < Len(data) /\ data[i + 1] # 0 THEN 1 ELSE 0]
  ELSE IF cmd.op = "WRITE_SINGLE_COIL" THEN
    [i \in {0} |-> IF cmd.words[1] # 0 THEN 1 ELSE 0]
  ELSE
    LET words == IF cmd.op = "READ_HOLDING_REGISTERS" THEN data ELSE cmd.words
    IN [i \in 0 .. Len(words) - 1 |-> words[i + 1]]

CacheAfter(c, cmd, data) ==
  LET bit == cmd.op \in {"READ_COILS", "WRITE_SINGLE_COIL"}
      new == Stored(cmd, data)
      Hit(k) == {i \in DOMAIN new : k = <<Offset(cmd.addr, i), bit>>}
  IN [k \in Key |-> IF Hit(k) = {} THEN c[k]
                    ELSE new[CHOOSE i \in Hit(k) : \A j \in Hit(k) : j <= i]]

End(outcome) ==
  ended' = Append(ended, [req |-> current_req, outcome |-> outcome, attempts |-> attempts'])

(* MB_WAITING_RSP, by the code of the answer. *)
SucceedKeepsError ==
  /\ answer.code = "SUCESS"
  /\ timeoutcnt' = 0
  /\ UNCHANGED rs_err
  /\ cache' = CacheAfter(cache, current_req.cmd, answer.data)
  /\ mb_state' = "IDLE"
  /\ End("done")

Succeed ==
  /\ answer.code = "SUCESS"
  /\ timeoutcnt' = 0
  /\ rs_err' = 0
  /\ cache' = CacheAfter(cache, current_req.cmd, answer.data)
  /\ mb_state' = "IDLE"
  /\ End("done")

Failures == (timeoutcnt + 1) % CounterMod

RetryForever ==
  /\ answer.code \in {"NACK", "ACKERR", "ERRACK"}
  /\ timeoutcnt' = Failures
  /\ mb_state' = Sending(current_req)
  /\ UNCHANGED <<rs_err, cache, ended>>

Retry ==
  /\ answer.code \in {"NACK", "ACKERR", "ERRACK"}
  /\ Failures <= RetryLimit
  /\ timeoutcnt' = Failures
  /\ mb_state' = Sending(current_req)
  /\ UNCHANGED <<rs_err, cache, ended>>

ErrorCode == [NACK |-> 1, ACKERR |-> 2, ERRACK |-> 3]

GiveUpEarly ==
  /\ answer.code \in {"NACK", "ACKERR", "ERRACK"}
  /\ Failures >= RetryLimit
  /\ timeoutcnt' = Failures
  /\ rs_err' = ErrorCode[answer.code]
  /\ mb_state' = "IDLE"
  /\ UNCHANGED cache
  /\ End("given_up")

(* The counter keeps its value: only a success resets it. *)
GiveUp ==
  /\ answer.code \in {"NACK", "ACKERR", "ERRACK"}
  /\ Failures > RetryLimit
  /\ timeoutcnt' = Failures
  /\ rs_err' = ErrorCode[answer.code]
  /\ mb_state' = "IDLE"
  /\ UNCHANGED cache
  /\ End("given_up")

(* The slave refused the request: it is not retried. *)
Refused ==
  /\ answer.code = "EXCEPTION"
  /\ rs_err' = 16
  /\ mb_state' = "IDLE"
  /\ UNCHANGED <<timeoutcnt, cache>>
  /\ End("refused")

Answered ==
  /\ mb_state = "WAITING_RSP"
  /\ attempts' = IF attempts < AttemptsCap THEN attempts + 1 ELSE attempts
  /\ Succeed \/ Retry \/ GiveUp \/ Refused
  /\ UNCHANGED <<priority_queue, normal_queue, current_req, answer, calls>>
-----------------------------------------------------------------------------
(* The master on its own: it may be busy, fail to send, or bring any answer. *)
MBController_Process ==
  \/ \E status \in {"BUSY", "ERROR", "OK"}, a \in Answers : Take(status, a) \/ Continue(status, a)
  \/ Answered

Next ==
  \/ \E cmd \in Commands : MBController_Request(cmd)
  \/ MBController_Process

(* The main loop calls MBController_Process for ever, and the master does    *)
(* not stay busy for ever with one command.                                  *)
Fairness ==
  /\ WF_cvars(\E a \in Answers : Take("OK", a))
  /\ WF_cvars(\E a \in Answers : Continue("OK", a))
  /\ WF_cvars(Answered)

(* Without its fairness: what the proofs need.                               *)
SafetySpec == Init /\ [][Next]_cvars

Spec == SafetySpec /\ Fairness
-----------------------------------------------------------------------------
Request == [id : Nat, cmd : Command]

TypeOK ==
  /\ priority_queue \in Seq(Request) /\ normal_queue \in Seq(Request)
  /\ Len(priority_queue) < QueueSlots /\ Len(normal_queue) < QueueSlots
  /\ mb_state \in {"IDLE", "READING", "WRITING", "WAITING_RSP"}
  /\ current_req \in Request
  /\ answer \in Answer
  /\ timeoutcnt \in 0 .. CounterMod - 1
  /\ rs_err \in {0, 1, 2, 3, 16}
  /\ cache \in [Key -> Word]

(* The requests that are over, and the one in progress, in the order in      *)
(* which they were begun.                                                    *)
Over       == [i \in DOMAIN ended |-> ended[i].req]
InProgress == IF mb_state = "IDLE" THEN << >> ELSE <<current_req>>

(* What overtakes an older request is a write, and what it overtakes a read. *)
Overtakes(r, s) == r.cmd.op \in WriteOps /\ s.cmd.op \notin WriteOps
Before(r, s)  == r.id < s.id \/ Overtakes(r, s)
Increasing(s) == \A i, j \in DOMAIN s : i < j => Before(s[i], s[j])
Ahead(s, t)   == \A i \in DOMAIN s, j \in DOMAIN t : Before(s[i], t[j])
Made(s)       == \A i \in DOMAIN s : s[i].id \in DOMAIN calls /\ s[i].cmd = calls[s[i].id].cmd

(* Requests are served in the order in which they were made, but for writes  *)
(* that overtake reads: no read is begun before a write that is older, so it *)
(* brings what the slave made of every write before it. Each is served at    *)
(* most once, whatever retries, failures and refusals there are; and each is *)
(* a request that was made.                                                  *)
ServedInOrder ==
  /\ Increasing(Over) /\ Ahead(Over, InProgress)
  /\ \A q \in {priority_queue, normal_queue} :
       Increasing(q) /\ Ahead(Over, q) /\ Ahead(InProgress, q) /\ Made(q)
  /\ Made(Over) /\ Made(InProgress)

In(n, s) == \E j \in DOMAIN s : s[j].id = n

(* No accepted read is ever lost: it is over, in progress or waiting. *)
AcceptedReadsKept ==
  \A n \in DOMAIN calls :
    calls[n].cmd.op \in ReadOps /\ calls[n].ok =>
      In(n, Over) \/ In(n, InProgress) \/ In(n, normal_queue)

(* A request is not tried for ever: at most RetryLimit retries follow the    *)
(* first attempt, and one more when timeoutcnt wraps around meanwhile.       *)
AttemptsBounded == attempts <= RetryLimit + 2

(* A request is given up only at the end of a run of more than RetryLimit    *)
(* failed answers, of this request and of those given up or refused since    *)
(* the last success: never for the failures of requests long done.           *)
FailedAnswers(e) == IF e.outcome = "given_up" THEN e.attempts ELSE e.attempts - 1

GivenUpAfterFailures ==
  \A i \in DOMAIN ended : ended[i].outcome = "given_up" =>
    \E j \in 1 .. i :
      /\ \A k \in j .. i : ended[k].outcome # "done"
      /\ SumFunctionOnSet([k \in DOMAIN ended |-> FailedAnswers(ended[k])], j .. i) > RetryLimit

(* The error code shown to the user is that of the last request that ended:  *)
(* 0 after a success, not 0 after a failure.                                 *)
ErrorShown ==
  ended # << >> => (rs_err = 0 <=> ended[Len(ended)].outcome = "done")

(* Every request in a queue is over at some time, whatever the slave does:   *)
(* the queues drain.                                                         *)
QueuesDrain == []<>(mb_state = "IDLE" /\ priority_queue = << >> /\ normal_queue = << >>)
=============================================================================
