------------------------- MODULE MBController_proofs -------------------------
(***************************************************************************)
(* Proofs about the request scheduler, for every queue size, retry limit,  *)
(* address space, set of requests and behaviour of the Modbus master.      *)
(***************************************************************************)
EXTENDS MBController, SequenceTheorems, FiniteSetTheorems, WellFoundedInduction, TLAPS

Outcomes == {"done", "given_up", "refused"}
Entry    == [req : Request, outcome : Outcomes, attempts : Nat]

(* The types of the history variables, which TypeOK leaves out. *)
HistoryOK ==
  /\ calls \in Seq([cmd : Command, ok : BOOLEAN])
  /\ ended \in Seq(Entry)
  /\ attempts \in Nat

(* Each request waits in the queue of its kind. *)
AllOf(q, ops) == \A i \in 1 .. Len(q) : q[i].cmd.op \in ops

RightQueue == AllOf(priority_queue, WriteOps) /\ AllOf(normal_queue, ReadOps)

(* While a request is tried, every answer to it has counted as a failure,    *)
(* except the first if it made timeoutcnt wrap around.                       *)
FailuresCounted ==
  /\ mb_state # "IDLE" /\ attempts > 0 =>
       timeoutcnt <= RetryLimit /\ attempts <= timeoutcnt + 1
  /\ attempts <= RetryLimit + 2

Types == TypeOK /\ HistoryOK

IInv == Types /\ RightQueue /\ FailuresCounted
-----------------------------------------------------------------------------
(* A non-empty set of naturals below a bound has a greatest element: the     *)
(* last value stored at an address is the one that stays (CacheAfter).       *)
LEMMA GreatestExists ==
  ASSUME NEW n \in Nat, NEW S \in SUBSET (0 .. n), S # {}
  PROVE  \E i \in S : \A j \in S : j <= i
<1>0. \A i \in S : i \in 0 .. n /\ n - i \in Nat
  OBVIOUS
<1>. DEFINE Less == {ss \in Nat \X Nat : ss[1] < ss[2]}
            T == {n - i : i \in S}
<1>1. T \subseteq Nat /\ T # {}
  BY <1>0
<1>2. IsWellFoundedOn(Less, Nat)
  BY NatLessThanWellFounded, Zenon DEF OpToRel
<1>3. PICK d \in T : \A e \in T : ~(<<e, d>> \in Less)
  <2>. HIDE DEF Less, T
  <2>. QED BY <1>1, <1>2, WFMin
<1>4. PICK i \in S : d = n - i
  BY <1>3
<1>5. ASSUME NEW j \in S PROVE j <= i
  <2>1. n - j \in T /\ d \in Nat /\ n - j \in Nat
    BY <1>1
  <2>2. ~(n - j < d)
    BY <1>3, <2>1
  <2>. QED BY <1>4, <2>2
<1>. QED BY <1>5

(* The values a request leaves in the cache are words, kept under as many    *)
(* offsets as are below some bound.                                          *)
LEMMA StoredWords ==
  ASSUME NEW cmd \in Command, NEW data \in Seq(Word)
  PROVE  \E n \in Nat : /\ DOMAIN Stored(cmd, data) \subseteq 0 .. n
                        /\ \A i \in DOMAIN Stored(cmd, data) : Stored(cmd, data)[i] \in Word
<1>. USE WordAssumption
<1>1. cmd.len \in Nat /\ cmd.words \in Seq(Word) /\ Len(data) \in Nat /\ Len(cmd.words) \in Nat
  BY DEF Command
<1>2. CASE cmd.op = "READ_COILS"
  <2>1. DOMAIN Stored(cmd, data) \subseteq 0 .. cmd.len
    BY <1>1, <1>2 DEF Stored
  <2>2. \A i \in DOMAIN Stored(cmd, data) : Stored(cmd, data)[i] \in {0, 1}
    BY <1>1, <1>2 DEF Stored
  <2>. QED BY <1>1, <2>1, <2>2
<1>3. CASE cmd.op = "WRITE_SINGLE_COIL"
  BY <1>3 DEF Stored
<1>4. CASE cmd.op \notin {"READ_COILS", "WRITE_SINGLE_COIL"}
  <2>. DEFINE words == IF cmd.op = "READ_HOLDING_REGISTERS" THEN data ELSE cmd.words
  <2>1. Stored(cmd, data) = [i \in 0 .. Len(words) - 1 |-> words[i + 1]]
    BY <1>4 DEF Stored
  <2>2. words \in Seq(Word) /\ Len(words) \in Nat
    BY <1>1
  <2>. HIDE DEF words
  <2>3. ASSUME NEW i \in 0 .. Len(words) - 1 PROVE words[i + 1] \in Word
    <3>1. i + 1 \in 1 .. Len(words)
      BY <2>2
    <3>. QED BY <2>2, <3>1
  <2>. QED BY <2>1, <2>2, <2>3
<1>. QED BY <1>2, <1>3, <1>4

(* Storing an answer keeps the cache a table of words. *)
LEMMA CacheType ==
  ASSUME NEW c \in [Key -> Word], NEW cmd \in Command, NEW data \in Seq(Word)
  PROVE  CacheAfter(c, cmd, data) \in [Key -> Word]
<1>. DEFINE new == Stored(cmd, data)
            bit == cmd.op \in {"READ_COILS", "WRITE_SINGLE_COIL"}
            Hit(k) == {i \in DOMAIN new : k = <<Offset(cmd.addr, i), bit>>}
            Val(k) == IF Hit(k) = {} THEN c[k]
                      ELSE new[CHOOSE i \in Hit(k) : \A j \in Hit(k) : j <= i]
<1>1. PICK n \in Nat : DOMAIN new \subseteq 0 .. n /\ \A i \in DOMAIN new : new[i] \in Word
  BY StoredWords
<1>2. ASSUME NEW k \in Key PROVE Val(k) \in Word
  <2>1. CASE Hit(k) = {}
    BY <2>1
  <2>2. CASE Hit(k) # {}
    <3>. DEFINE S == Hit(k)
    <3>1. S \in SUBSET (0 .. n) /\ S # {} /\ S \subseteq DOMAIN new
      BY <1>1, <2>2
    <3>. HIDE DEF S
    <3>2. \E i \in S : \A j \in S : j <= i
      BY <3>1, GreatestExists
    <3>3. (CHOOSE i \in S : \A j \in S : j <= i) \in S
      BY <3>2
    <3>4. new[CHOOSE i \in S : \A j \in S : j <= i] \in Word
      BY <1>1, <3>1, <3>3
    <3>. QED BY <2>2, <3>4 DEF S
  <2>. QED BY <2>1, <2>2
<1>3. CacheAfter(c, cmd, data) = [k \in Key |-> Val(k)]
  BY DEF CacheAfter
<1>. HIDE DEF Val
<1>. QED BY <1>2, <1>3
-----------------------------------------------------------------------------
(* p is q without its first request r. *)
Advances(q, r, p) ==
  /\ Len(q) \in Nat \ {0} /\ r = q[1] /\ r \in Request
  /\ p \in Seq(Request) /\ Len(p) = Len(q) - 1
  /\ \A i \in 1 .. Len(p) : p[i] = q[i + 1]

(* Taking a request removes it from the front of its queue, and from that of *)
(* the reads only while no write waits.                                      *)
LEMMA TakeEffect ==
  ASSUME TypeOK, NEW status, NEW a \in Answers, Take(status, a)
  PROVE  /\ mb_state = "IDLE" /\ mb_state' \in {"READING", "WRITING", "WAITING_RSP"}
         /\ attempts' = 0 /\ UNCHANGED <<timeoutcnt, rs_err, cache, calls, ended>>
         /\ current_req' \in Request /\ answer' \in Answer
         /\ \/ /\ Advances(priority_queue, current_req', priority_queue')
               /\ UNCHANGED normal_queue
            \/ /\ Advances(normal_queue, current_req', normal_queue')
               /\ priority_queue = << >> /\ UNCHANGED priority_queue
<1>1. \A q \in Seq(Request) : q # << >> => Advances(q, Popped(q)[1], Popped(q)[2])
  BY DEF Popped, Advances
<1>2. \/ /\ Advances(priority_queue, current_req', priority_queue')
         /\ UNCHANGED normal_queue
      \/ /\ Advances(normal_queue, current_req', normal_queue')
         /\ priority_queue = << >> /\ UNCHANGED priority_queue
  BY <1>1 DEF Take, ReadsTurn, TypeOK
<1>3. current_req' \in Request
  BY <1>2 DEF Advances
<1>4. answer' \in Answer /\ mb_state' \in {"READING", "WRITING", "WAITING_RSP"}
  BY AnswerAssumption DEF Take, TypeOK, Transmitted, Sending
<1>. QED BY <1>2, <1>3, <1>4 DEF Take

LEMMA InitTypes == Init => Types
<1> SUFFICES ASSUME Init PROVE Types
  OBVIOUS
<1>. USE DEF Init
<1>1. current_req \in Request
  BY SpaceAssumption DEF None, Request, Command, Ops
<1>2. answer \in Answer
  BY DEF Idle, Answer, Codes
<1>3. cache \in [Key -> Word]
  BY WordAssumption
<1>4. TypeOK
  BY <1>1, <1>2, <1>3, QueueAssumption, RetryAssumption DEF TypeOK
<1>5. HistoryOK
  BY DEF HistoryOK
<1>. QED BY <1>4, <1>5 DEF Types

LEMMA RequestTypes ==
  ASSUME Types, NEW cmd \in Commands, MBController_Request(cmd)
  PROVE  Types'
<1>. DEFINE r == [id |-> Len(calls) + 1, cmd |-> cmd]
<1>1. cmd \in Command /\ Len(calls) \in Nat
  BY CommandAssumption DEF Types, HistoryOK
<1>2. r \in Request
  BY <1>1 DEF Request
<1>3. \A q \in Seq(Request) :
        Len(q) < QueueSlots => Accept(q, r) \in Seq(Request) /\ Len(Accept(q, r)) < QueueSlots
  BY <1>2, QueueAssumption DEF Accept, Full
<1>4. /\ priority_queue' \in Seq(Request) /\ normal_queue' \in Seq(Request)
      /\ Len(priority_queue') < QueueSlots /\ Len(normal_queue') < QueueSlots
  <2>. HIDE DEF r
  <2>1. priority_queue' \in {priority_queue, Accept(priority_queue, r)}
    BY DEF MBController_Request, queues, r
  <2>2. normal_queue' \in {normal_queue, Accept(normal_queue, r)}
    BY DEF MBController_Request, queues, r
  <2>. QED BY <1>3, <2>1, <2>2 DEF Types, TypeOK
<1>5. calls' \in Seq([cmd : Command, ok : BOOLEAN])
  <2>1. \A ok \in BOOLEAN : Append(calls, [cmd |-> cmd, ok |-> ok]) \in Seq([cmd : Command, ok : BOOLEAN])
    BY <1>1 DEF Types, HistoryOK
  <2>2. \E ok \in BOOLEAN : calls' = Append(calls, [cmd |-> cmd, ok |-> ok])
    BY DEF MBController_Request, Full
  <2>. QED BY <2>1, <2>2
<1>6. UNCHANGED <<mb_state, current_req, answer, timeoutcnt, rs_err, cache, ended, attempts>>
  BY DEF MBController_Request
<1>. QED BY <1>4, <1>5, <1>6 DEF Types, TypeOK, HistoryOK

LEMMA TakeTypes ==
  ASSUME Types, NEW status, NEW a \in Answers, Take(status, a)
  PROVE  Types'
<1>1. TypeOK
  BY DEF Types
<1>2. /\ mb_state' \in {"READING", "WRITING", "WAITING_RSP"}
      /\ attempts' = 0 /\ UNCHANGED <<timeoutcnt, rs_err, cache, calls, ended>>
      /\ current_req' \in Request /\ answer' \in Answer
  BY <1>1, TakeEffect
<1>3. /\ priority_queue' \in Seq(Request) /\ Len(priority_queue') < QueueSlots
      /\ normal_queue' \in Seq(Request) /\ Len(normal_queue') < QueueSlots
  BY <1>1, TakeEffect, QueueAssumption DEF TypeOK, Advances
<1>4. TypeOK'
  BY <1>1, <1>2, <1>3 DEF TypeOK
<1>. QED BY <1>2, <1>4 DEF Types, HistoryOK

LEMMA ContinueTypes ==
  ASSUME Types, NEW status, NEW a \in Answers, Continue(status, a)
  PROVE  Types'
BY AnswerAssumption
DEF Types, TypeOK, HistoryOK, Continue, Transmitted, Sending, hist

(* What an answer does: the request is over, or it is tried again. *)
LEMMA AnsweredEffect ==
  ASSUME Types, Answered
  PROVE  /\ mb_state = "WAITING_RSP"
         /\ attempts' = IF attempts < AttemptsCap THEN attempts + 1 ELSE attempts
         /\ attempts' \in Nat
         /\ UNCHANGED <<priority_queue, normal_queue, current_req, answer, calls>>
         /\ \/ /\ mb_state' = "IDLE"
               /\ \E o \in Outcomes :
                    /\ ended' = Append(ended, [req |-> current_req, outcome |-> o,
                                               attempts |-> attempts'])
                    /\ rs_err' \in {0, 1, 2, 3, 16}
                    /\ rs_err' = 0 <=> o = "done"
            \/ /\ mb_state' \in {"READING", "WRITING"}
               /\ timeoutcnt' = Failures /\ Failures <= RetryLimit
               /\ UNCHANGED <<rs_err, ended>>
<1>1. attempts' \in Nat
  BY RetryAssumption DEF Types, HistoryOK, Answered, AttemptsCap
<1>2. CASE Succeed
  BY <1>1, <1>2 DEF Answered, Succeed, End, Outcomes
<1>3. CASE Retry
  BY <1>1, <1>3 DEF Answered, Retry, Sending
<1>4. CASE GiveUp
  <2>1. ErrorCode["NACK"] = 1 /\ ErrorCode["ACKERR"] = 2 /\ ErrorCode["ERRACK"] = 3
    BY DEF ErrorCode
  <2>2. rs_err' \in {1, 2, 3}
    BY <1>4, <2>1 DEF GiveUp
  <2>3. rs_err' \in {0, 1, 2, 3, 16} /\ rs_err' # 0
    BY <2>2
  <2>4. ended' = Append(ended, [req |-> current_req, outcome |-> "given_up", attempts |-> attempts'])
    BY <1>4 DEF GiveUp, End
  <2>. QED BY <1>1, <1>4, <2>3, <2>4 DEF Answered, GiveUp, Outcomes
<1>5. CASE Refused
  BY <1>1, <1>5 DEF Answered, Refused, End, Outcomes
<1>. QED BY <1>2, <1>3, <1>4, <1>5 DEF Answered

LEMMA AnsweredTypes ==
  ASSUME Types, Answered
  PROVE  Types'
<1>1. timeoutcnt' \in 0 .. CounterMod - 1
  <2>1. Failures \in 0 .. CounterMod - 1 /\ 0 \in 0 .. CounterMod - 1
    BY RetryAssumption DEF Failures, Types, TypeOK
  <2>. QED BY <2>1 DEF Types, TypeOK, Answered, Succeed, Retry, GiveUp, Refused
<1>2. cache' \in [Key -> Word]
  <2>1. CacheAfter(cache, current_req.cmd, answer.data) \in [Key -> Word]
    BY CacheType DEF Types, TypeOK, Request, Answer
  <2>. QED BY <2>1 DEF Types, TypeOK, Answered, Succeed, Retry, GiveUp, Refused
<1>3. ended' \in Seq(Entry)
  <2>1. ASSUME NEW o \in Outcomes
        PROVE  [req |-> current_req, outcome |-> o, attempts |-> attempts']
                 \in Entry
    BY AnsweredEffect DEF Types, TypeOK, Entry
  <2>2. ended' = ended \/ \E e \in Entry : ended' = Append(ended, e)
    BY <2>1, AnsweredEffect
  <2>. QED BY <2>2 DEF Types, HistoryOK
<1>. QED BY <1>1, <1>2, <1>3, AnsweredEffect DEF Types, TypeOK, HistoryOK

(* The types are kept by every step. *)
LEMMA TypesInductive ==
  ASSUME Types, [Next]_cvars
  PROVE  Types'
<1>1. ASSUME NEW cmd \in Commands, MBController_Request(cmd) PROVE Types'
  BY <1>1, RequestTypes
<1>2. ASSUME NEW status \in {"BUSY", "ERROR", "OK"}, NEW a \in Answers, Take(status, a)
      PROVE  Types'
  BY <1>2, TakeTypes
<1>3. ASSUME NEW status \in {"BUSY", "ERROR", "OK"}, NEW a \in Answers, Continue(status, a)
      PROVE  Types'
  BY <1>3, ContinueTypes
<1>4. CASE Answered
  BY <1>4, AnsweredTypes
<1>5. CASE UNCHANGED cvars
  BY <1>5 DEF Types, TypeOK, HistoryOK, cvars
<1>. QED BY <1>1, <1>2, <1>3, <1>4, <1>5 DEF Next, MBController_Process

(* Every variable keeps its type; in particular no queue ever fills all the  *)
(* slots of its ring, which would make it look empty.                        *)
THEOREM TypeCorrect == SafetySpec => []TypeOK
<1>1. SafetySpec => []Types
  BY InitTypes, TypesInductive, PTL DEF SafetySpec
<1>2. Types => TypeOK
  BY DEF Types
<1>. QED BY <1>1, <1>2, PTL
-----------------------------------------------------------------------------
LEMMA InitInvariant == Init => IInv
BY InitTypes, RetryAssumption DEF Init, IInv, RightQueue, AllOf, FailuresCounted

(* Requests join the end of their own queue, and leave at the front. *)
LEMMA RequestQueues ==
  ASSUME Types, NEW cmd \in Commands, MBController_Request(cmd)
  PROVE  LET r == [id |-> Len(calls) + 1, cmd |-> cmd]
         IN  /\ r \in Request /\ Len(calls) \in Nat
             /\ \E ok \in BOOLEAN :
                  /\ calls' = Append(calls, [cmd |-> cmd, ok |-> ok])
                  /\ \/ /\ cmd.op \in WriteOps /\ cmd.op \notin ReadOps
                        /\ priority_queue' \in {priority_queue, Append(priority_queue, r)}
                        /\ UNCHANGED normal_queue
                     \/ /\ cmd.op \in ReadOps /\ cmd.op \notin WriteOps
                        /\ normal_queue' = IF ok THEN Append(normal_queue, r) ELSE normal_queue
                        /\ UNCHANGED priority_queue
                     \/ /\ cmd.op \notin ReadOps \cup WriteOps
                        /\ ~ok /\ UNCHANGED <<priority_queue, normal_queue>>
             /\ UNCHANGED <<mb_state, current_req, timeoutcnt, rs_err, ended, attempts>>
<1>1. cmd \in Command /\ Len(calls) \in Nat
  BY CommandAssumption DEF Types, HistoryOK
<1>2. [id |-> Len(calls) + 1, cmd |-> cmd] \in Request
  BY <1>1 DEF Request
<1>3. WriteOps \cap ReadOps = {}
  BY DEF WriteOps, ReadOps
<1>. QED BY <1>1, <1>2, <1>3 DEF MBController_Request, Accept, Full, queues

(* What joining and leaving does to a queue, element by element. *)
LEMMA AppendElements ==
  ASSUME NEW S, NEW q \in Seq(S), NEW r \in S
  PROVE  /\ DOMAIN q = 1 .. Len(q) /\ Len(q) \in Nat
         /\ Append(q, r) \in Seq(S) /\ Len(Append(q, r)) = Len(q) + 1
         /\ DOMAIN Append(q, r) = 1 .. Len(q) + 1
         /\ Append(q, r)[Len(q) + 1] = r
         /\ \A i \in 1 .. Len(q) : Append(q, r)[i] = q[i]
OBVIOUS

LEMMA AllOfAppend ==
  ASSUME NEW q \in Seq(Request), NEW r \in Request, NEW ops, AllOf(q, ops), r.cmd.op \in ops
  PROVE  AllOf(Append(q, r), ops)
<1>1. ASSUME NEW i \in 1 .. Len(q) + 1 PROVE Append(q, r)[i].cmd.op \in ops
  <2>1. i = Len(q) + 1 \/ i \in 1 .. Len(q)
    BY AppendElements
  <2>. QED BY <2>1, AppendElements DEF AllOf
<1>. QED BY <1>1, AppendElements DEF AllOf

LEMMA AllOfAdvances ==
  ASSUME NEW q, NEW r, NEW p, NEW ops, Advances(q, r, p), AllOf(q, ops)
  PROVE  AllOf(p, ops) /\ r.cmd.op \in ops
<1>1. ASSUME NEW i \in 1 .. Len(p) PROVE p[i].cmd.op \in ops
  BY DEF Advances, AllOf
<1>2. 1 \in 1 .. Len(q)
  BY DEF Advances
<1>. QED BY <1>1, <1>2 DEF Advances, AllOf

LEMMA RightQueueInductive ==
  ASSUME IInv, [Next]_cvars
  PROVE  RightQueue'
<1>. TypeOK /\ Types /\ RightQueue
  BY DEF IInv, Types
<1>. USE DEF RightQueue
<1>1. ASSUME NEW cmd \in Commands, MBController_Request(cmd) PROVE RightQueue'
  <2>. DEFINE r == [id |-> Len(calls) + 1, cmd |-> cmd]
  <2>1. r \in Request /\ r.cmd = cmd
    BY <1>1, RequestQueues
  <2>2. \/ UNCHANGED <<priority_queue, normal_queue>>
        \/ /\ cmd.op \in WriteOps /\ priority_queue' = Append(priority_queue, r)
           /\ UNCHANGED normal_queue
        \/ /\ cmd.op \in ReadOps /\ normal_queue' = Append(normal_queue, r)
           /\ UNCHANGED priority_queue
    BY <1>1, RequestQueues
  <2>. HIDE DEF r
  <2>. QED BY <2>1, <2>2, AllOfAppend DEF TypeOK
<1>2. ASSUME NEW status \in {"BUSY", "ERROR", "OK"}, NEW a \in Answers, Take(status, a)
      PROVE  RightQueue'
  BY <1>2, TakeEffect, AllOfAdvances
<1>3. ASSUME NEW status \in {"BUSY", "ERROR", "OK"}, NEW a \in Answers, Continue(status, a)
      PROVE  RightQueue'
  BY <1>3 DEF Continue
<1>4. CASE Answered
  BY <1>4 DEF Answered
<1>5. CASE UNCHANGED cvars
  BY <1>5 DEF cvars
<1>. QED BY <1>1, <1>2, <1>3, <1>4, <1>5 DEF Next, MBController_Process

LEMMA FailuresInductive ==
  ASSUME IInv, [Next]_cvars
  PROVE  FailuresCounted'
<1>. TypeOK /\ Types /\ FailuresCounted
  BY DEF IInv, Types
<1>. USE DEF FailuresCounted
<1>1. ASSUME NEW cmd \in Commands, MBController_Request(cmd) PROVE FailuresCounted'
  BY <1>1 DEF MBController_Request
<1>2. ASSUME NEW status \in {"BUSY", "ERROR", "OK"}, NEW a \in Answers, Take(status, a)
      PROVE  FailuresCounted'
  BY <1>2, TakeEffect, RetryAssumption
<1>3. ASSUME NEW status \in {"BUSY", "ERROR", "OK"}, NEW a \in Answers, Continue(status, a)
      PROVE  FailuresCounted'
  BY <1>3 DEF Continue, hist
<1>4. CASE Answered
  <2>1. attempts' \in Nat /\ attempts' <= attempts + 1 /\ mb_state = "WAITING_RSP"
    BY <1>4, AnsweredEffect DEF Types, HistoryOK
  <2>2. attempts' <= RetryLimit + 2
    BY <2>1, RetryAssumption DEF Types, HistoryOK, TypeOK
  <2>3. CASE mb_state' = "IDLE"
    BY <2>2, <2>3
  <2>4. CASE mb_state' # "IDLE"
    <3>1. timeoutcnt' = Failures /\ Failures <= RetryLimit
      BY <1>4, <2>4, AnsweredEffect
    <3>2. CASE attempts = 0
      BY <2>1, <2>2, <3>1, <3>2, RetryAssumption DEF Types, TypeOK, Failures
    <3>3. CASE attempts > 0
      <4>1. timeoutcnt + 1 < CounterMod /\ timeoutcnt \in Nat
        BY <2>1, <3>3, RetryAssumption DEF TypeOK
      <4>2. Failures = timeoutcnt + 1
        BY <4>1, RetryAssumption DEF Failures
      <4>. QED BY <2>1, <2>2, <3>1, <3>3, <4>1, <4>2 DEF Types, HistoryOK
    <3>. QED BY <3>2, <3>3 DEF Types, HistoryOK
  <2>. QED BY <2>3, <2>4
<1>5. CASE UNCHANGED cvars
  BY <1>5 DEF cvars
<1>. QED BY <1>1, <1>2, <1>3, <1>4, <1>5 DEF Next, MBController_Process

LEMMA Invariant == SafetySpec => []IInv
<1>1. ASSUME IInv, [Next]_cvars PROVE IInv'
  BY <1>1, TypesInductive, RightQueueInductive, FailuresInductive DEF IInv
<1>. QED BY <1>1, InitInvariant, PTL DEF SafetySpec

(* No request is tried for ever, also when timeoutcnt wraps around. *)
THEOREM BoundedAttempts == SafetySpec => []AttemptsBounded
<1>1. IInv => AttemptsBounded
  BY DEF IInv, FailuresCounted, AttemptsBounded
<1>. QED BY <1>1, Invariant, PTL
-----------------------------------------------------------------------------
(* The order of requests, sequence by sequence: joining at the end with a     *)
(* greater identity keeps it.                                                *)
LEMMA JoinInOrder ==
  ASSUME NEW s \in Seq(Request), NEW q \in Seq(Request), NEW r \in Request,
         \A i \in DOMAIN q : Before(q[i], r),
         \A i \in DOMAIN s : Before(s[i], r)
  PROVE  /\ Increasing(q) => Increasing(Append(q, r))
         /\ Ahead(s, q) => Ahead(s, Append(q, r))
<1>1. ASSUME NEW j \in DOMAIN Append(q, r)
      PROVE  \/ j = Len(q) + 1 /\ Append(q, r)[j] = r
             \/ j \in DOMAIN q /\ Append(q, r)[j] = q[j]
  <2>1. j \in 1 .. Len(q) + 1 /\ Len(q) \in Nat
    BY AppendElements
  <2>2. j = Len(q) + 1 \/ j \in 1 .. Len(q)
    BY <2>1
  <2>. QED BY <2>2, AppendElements
<1>2. ASSUME Increasing(q) PROVE Increasing(Append(q, r))
  <2>1. ASSUME NEW i \in DOMAIN Append(q, r), NEW j \in DOMAIN Append(q, r), i < j
        PROVE  Before(Append(q, r)[i], Append(q, r)[j])
    <3>1. i \in 1 .. Len(q) + 1 /\ j \in 1 .. Len(q) + 1 /\ Len(q) \in Nat
      BY AppendElements
    <3>2. i \in DOMAIN q
      BY <2>1, <3>1, AppendElements
    <3>3. Append(q, r)[i] = q[i]
      BY <3>2, AppendElements
    <3>. QED BY <1>1, <1>2, <2>1, <3>2, <3>3 DEF Increasing
  <2>. QED BY <2>1 DEF Increasing
<1>3. ASSUME Ahead(s, q) PROVE Ahead(s, Append(q, r))
  BY <1>1, <1>3 DEF Ahead
<1>. QED BY <1>2, <1>3

(* ... and leaving at the front keeps it too, with the request that left     *)
(* ahead of those that stay.                                                 *)
LEMMA LeaveInOrder ==
  ASSUME NEW q \in Seq(Request), NEW r, NEW p, Advances(q, r, p)
  PROVE  /\ Increasing(q) => Increasing(p) /\ Ahead(<<r>>, p)
         /\ \A s : Ahead(s, q) => Ahead(s, p) /\ Ahead(s, <<r>>)
         /\ Made(q) => Made(p) /\ Made(<<r>>)
<1>1. /\ DOMAIN q = 1 .. Len(q) /\ DOMAIN p = 1 .. Len(q) - 1 /\ Len(q) \in Nat \ {0}
      /\ 1 \in DOMAIN q /\ r = q[1]
      /\ DOMAIN <<r>> = {1} /\ <<r>>[1] = r
      /\ \A i \in DOMAIN p : i \in Nat /\ i + 1 \in DOMAIN q /\ 1 < i + 1 /\ p[i] = q[i + 1]
  BY DEF Advances
<1>2. ASSUME Increasing(q) PROVE Increasing(p) /\ Ahead(<<r>>, p)
  BY <1>1, <1>2 DEF Increasing, Ahead
<1>3. ASSUME NEW s, Ahead(s, q) PROVE Ahead(s, p) /\ Ahead(s, <<r>>)
  BY <1>1, <1>3 DEF Ahead
<1>4. ASSUME Made(q) PROVE Made(p) /\ Made(<<r>>)
  BY <1>1, <1>4 DEF Made
<1>. QED BY <1>2, <1>3, <1>4

(* Over is the sequence of the requests that ended, and grows with it. *)
LEMMA RequestsOfEntries ==
  ASSUME NEW e \in Seq(Entry)
  PROVE  LET s == [i \in DOMAIN e |-> e[i].req]
         IN  s \in Seq(Request) /\ Len(s) = Len(e) /\ \A i \in 1 .. Len(e) : s[i] = e[i].req
<1>1. \A x \in Entry : x.req \in Request
  BY DEF Entry
<1>2. DOMAIN e = 1 .. Len(e) /\ Len(e) \in Nat /\ \A i \in 1 .. Len(e) : e[i] \in Entry
  OBVIOUS
<1>3. [i \in 1 .. Len(e) |-> e[i].req] \in Seq(Request)
  BY <1>1, <1>2, IsASeq
<1>. QED BY <1>2, <1>3

LEMMA OverIsSeq ==
  ASSUME Types
  PROVE  Over \in Seq(Request) /\ DOMAIN Over = 1 .. Len(Over) /\ Len(Over) \in Nat
<1>1. Over \in Seq(Request)
  BY RequestsOfEntries DEF Types, HistoryOK, Over
<1>. QED BY <1>1

LEMMA OverGrows ==
  ASSUME Types, Types', NEW o,
         ended' = Append(ended, [req |-> current_req, outcome |-> o, attempts |-> attempts'])
  PROVE  Over' = Append(Over, current_req)
<1>1. /\ Len(ended) \in Nat /\ Len(ended') = Len(ended) + 1
      /\ ended'[Len(ended) + 1].req = current_req
      /\ \A i \in 1 .. Len(ended) : ended'[i] = ended[i]
  BY DEF Types, HistoryOK
<1>2. /\ Over \in Seq(Request) /\ Len(Over) = Len(ended)
      /\ \A i \in 1 .. Len(ended) : Over[i] = ended[i].req
  BY RequestsOfEntries DEF Types, HistoryOK, Over
<1>3. ended' \in Seq(Entry)
  BY DEF Types, HistoryOK
<1>4. /\ Over' \in Seq(Request) /\ Len(Over') = Len(ended')
      /\ \A i \in 1 .. Len(ended') : Over'[i] = ended'[i].req
  BY <1>3, RequestsOfEntries DEF Over
<1>5. current_req \in Request
  BY DEF Types, TypeOK
<1>6. /\ Append(Over, current_req) \in Seq(Request)
      /\ Len(Append(Over, current_req)) = Len(Over) + 1
      /\ Append(Over, current_req)[Len(Over) + 1] = current_req
      /\ \A i \in 1 .. Len(Over) : Append(Over, current_req)[i] = Over[i]
  BY <1>2, <1>5, AppendElements
<1>7. ASSUME NEW i \in 1 .. Len(Over') PROVE Over'[i] = Append(Over, current_req)[i]
  <2>1. i = Len(ended) + 1 \/ i \in 1 .. Len(ended)
    BY <1>1, <1>4
  <2>. QED BY <1>1, <1>2, <1>4, <1>6, <2>1
<1>. QED BY <1>1, <1>2, <1>4, <1>6, <1>7, SeqEqual

LEMMA InProgressIsSeq ==
  ASSUME Types
  PROVE  /\ InProgress \in Seq(Request)
         /\ mb_state = "IDLE" => InProgress = << >>
         /\ mb_state # "IDLE" => InProgress = <<current_req>>
BY DEF Types, TypeOK, InProgress

LEMMA InitInOrder == Init => ServedInOrder
BY DEF Init, ServedInOrder, Over, InProgress, Increasing, Ahead, Made

(* A new request is younger than every other. *)
LEMMA RequestInOrder ==
  ASSUME IInv, ServedInOrder, NEW cmd \in Commands, MBController_Request(cmd)
  PROVE  ServedInOrder'
<1>. DEFINE r == [id |-> Len(calls) + 1, cmd |-> cmd]
            Old(s) == \A i \in DOMAIN s : Before(s[i], r)
<1>. Types /\ TypeOK
  BY DEF IInv, Types
<1>1. /\ r \in Request /\ r.id = Len(calls) + 1 /\ r.cmd = cmd
      /\ Len(calls) \in Nat /\ DOMAIN calls = 1 .. Len(calls)
      /\ DOMAIN calls' = 1 .. Len(calls) + 1
      /\ calls'[Len(calls) + 1].cmd = cmd
      /\ \A i \in 1 .. Len(calls) : calls'[i] = calls[i]
  <2>1. r \in Request /\ r.id = Len(calls) + 1 /\ r.cmd = cmd
    BY RequestQueues
  <2>2. PICK ok \in BOOLEAN : calls' = Append(calls, [cmd |-> cmd, ok |-> ok])
    BY RequestQueues
  <2>3. cmd \in Command
    BY CommandAssumption
  <2>4. /\ [cmd |-> cmd, ok |-> ok] \in [cmd : Command, ok : BOOLEAN]
        /\ [cmd |-> cmd, ok |-> ok].cmd = cmd
    BY <2>3
  <2>5. calls \in Seq([cmd : Command, ok : BOOLEAN])
    BY DEF Types, HistoryOK
  <2>. QED BY <2>1, <2>2, <2>4, <2>5, AppendElements
<1>2. Over' = Over /\ InProgress' = InProgress
  BY RequestQueues DEF Over, InProgress
<1>3. \/ UNCHANGED <<priority_queue, normal_queue>>
      \/ priority_queue' = Append(priority_queue, r) /\ UNCHANGED normal_queue
      \/ normal_queue' = Append(normal_queue, r) /\ UNCHANGED priority_queue
  BY RequestQueues
<1>. HIDE DEF r
<1>4. ASSUME NEW s, Made(s)
      PROVE  /\ Old(s)
             /\ \A i \in DOMAIN s : s[i].id \in DOMAIN calls' /\ s[i].cmd = calls'[s[i].id].cmd
  BY <1>1, <1>4 DEF Made, Before
<1>5. Made(Over)' /\ Made(InProgress)'
  BY <1>2, <1>4 DEF Made, ServedInOrder
<1>6. ASSUME NEW q \in {priority_queue, normal_queue}
      PROVE  /\ Increasing(q) /\ Ahead(Over, q) /\ Ahead(InProgress, q)
             /\ \A i \in DOMAIN q : q[i].id \in DOMAIN calls' /\ q[i].cmd = calls'[q[i].id].cmd
             /\ Increasing(Append(q, r)) /\ Ahead(Over, Append(q, r)) /\ Ahead(InProgress, Append(q, r))
             /\ \A i \in DOMAIN Append(q, r) :
                  Append(q, r)[i].id \in DOMAIN calls' /\ Append(q, r)[i].cmd = calls'[Append(q, r)[i].id].cmd
  <2>1. /\ Increasing(q) /\ Ahead(Over, q) /\ Ahead(InProgress, q) /\ Made(q)
        /\ Made(Over) /\ Made(InProgress) /\ q \in Seq(Request)
    BY DEF ServedInOrder, TypeOK
  <2>2. Old(q) /\ Old(Over) /\ Old(InProgress)
    BY <1>4, <2>1
  <2>3. Increasing(Append(q, r)) /\ Ahead(Over, Append(q, r)) /\ Ahead(InProgress, Append(q, r))
    BY <1>1, <2>1, <2>2, OverIsSeq, InProgressIsSeq, JoinInOrder
  <2>4. \A i \in DOMAIN q : q[i].id \in DOMAIN calls' /\ q[i].cmd = calls'[q[i].id].cmd
    BY <1>4, <2>1
  <2>5. ASSUME NEW i \in DOMAIN Append(q, r)
        PROVE  /\ Append(q, r)[i].id \in DOMAIN calls'
               /\ Append(q, r)[i].cmd = calls'[Append(q, r)[i].id].cmd
    <3>1. i = Len(q) + 1 \/ i \in DOMAIN q
      BY <1>1, <2>1, AppendElements
    <3>2. CASE i = Len(q) + 1
      <4>1. Append(q, r)[i] = r
        BY <1>1, <2>1, <3>2, AppendElements
      <4>. QED BY <1>1, <4>1
    <3>3. CASE i \in DOMAIN q
      <4>1. Append(q, r)[i] = q[i]
        BY <1>1, <2>1, <3>3, AppendElements
      <4>. QED BY <2>4, <3>3, <4>1
    <3>. QED BY <3>1, <3>2, <3>3
  <2>. QED BY <2>1, <2>3, <2>4, <2>5
<1>7. ASSUME NEW q \in {priority_queue', normal_queue'}
      PROVE  /\ Increasing(q) /\ Ahead(Over, q) /\ Ahead(InProgress, q)
             /\ \A i \in DOMAIN q : q[i].id \in DOMAIN calls' /\ q[i].cmd = calls'[q[i].id].cmd
  <2>1. CASE q \in {priority_queue, normal_queue}
    BY <1>6, <2>1
  <2>2. CASE q \in {Append(priority_queue, r), Append(normal_queue, r)}
    BY <1>6, <2>2
  <2>. QED BY <1>3, <2>1, <2>2
<1>8. Increasing(Over)' /\ Ahead(Over, InProgress)'
  BY <1>2 DEF ServedInOrder
<1>. QED BY <1>2, <1>5, <1>7, <1>8 DEF ServedInOrder, Made

(* A request is taken from the front of its queue. A write overtakes the     *)
(* reads that wait; a read is taken only when no write waits.                *)
LEMMA TakeInOrder ==
  ASSUME IInv, ServedInOrder, NEW status, NEW a \in Answers, Take(status, a)
  PROVE  ServedInOrder'
<1>. DEFINE r == current_req'
<1>. Types /\ TypeOK /\ RightQueue
  BY DEF IInv, Types
<1>1. /\ Over' = Over /\ calls' = calls
      /\ InProgress = << >> /\ InProgress' = <<r>> /\ DOMAIN <<r>> = {1} /\ <<r>>[1] = r
  BY TakeEffect DEF Over, InProgress
<1>2. ASSUME NEW q, NEW p, NEW o, q \in Seq(Request), o \in Seq(Request),
             Increasing(q), Ahead(Over, q), Made(q), Increasing(o), Ahead(Over, o), Made(o),
             Advances(q, r, p), o = << >> \/ (AllOf(q, WriteOps) /\ AllOf(o, ReadOps))
      PROVE  /\ Increasing(p) /\ Ahead(Over, p) /\ Ahead(<<r>>, p) /\ Made(p)
             /\ Ahead(<<r>>, o) /\ Ahead(Over, <<r>>) /\ Made(<<r>>)
  <2>1. /\ Increasing(p) /\ Ahead(Over, p) /\ Ahead(<<r>>, p) /\ Made(p)
        /\ Ahead(Over, <<r>>) /\ Made(<<r>>)
    BY <1>2, LeaveInOrder
  <2>2. CASE o = << >>
    BY <2>1, <2>2 DEF Ahead
  <2>3. CASE AllOf(q, WriteOps) /\ AllOf(o, ReadOps)
    <3>1. r.cmd.op \in WriteOps
      BY <1>2, <2>3, AllOfAdvances
    <3>2. \A i \in DOMAIN o : o[i].cmd.op \notin WriteOps
      BY <1>2, <2>3 DEF AllOf, WriteOps, ReadOps
    <3>3. Ahead(<<r>>, o)
      BY <1>1, <3>1, <3>2 DEF Ahead, Before, Overtakes
    <3>. QED BY <2>1, <3>3
  <2>. QED BY <1>2, <2>2, <2>3
<1>. HIDE DEF r
<1>3. /\ Increasing(Over)
      /\ \A q \in {priority_queue, normal_queue} : Increasing(q) /\ Ahead(Over, q) /\ Made(q)
      /\ Made(Over)
  BY DEF ServedInOrder
<1>4. /\ Ahead(Over, <<r>>) /\ Made(<<r>>)
      /\ \A q \in {priority_queue', normal_queue'} :
           Increasing(q) /\ Ahead(Over, q) /\ Ahead(<<r>>, q) /\ Made(q)
  <2>1. priority_queue \in Seq(Request) /\ normal_queue \in Seq(Request)
    BY DEF TypeOK
  <2>2. CASE Advances(priority_queue, r, priority_queue') /\ UNCHANGED normal_queue
    BY <1>2, <1>3, <2>1, <2>2 DEF RightQueue
  <2>3. CASE /\ Advances(normal_queue, r, normal_queue')
             /\ priority_queue = << >> /\ UNCHANGED priority_queue
    BY <1>2, <1>3, <2>1, <2>3
  <2>. QED BY <2>2, <2>3, TakeEffect DEF r
<1>. QED BY <1>1, <1>3, <1>4 DEF ServedInOrder, Made

(* A request that is over is the last of those that are. *)
LEMMA AnsweredInOrder ==
  ASSUME IInv, Types', ServedInOrder, Answered
  PROVE  ServedInOrder'
<1>. Types /\ TypeOK
  BY DEF IInv, Types
<1>1. /\ InProgress = <<current_req>> /\ UNCHANGED <<priority_queue, normal_queue, current_req, calls>>
      /\ DOMAIN <<current_req>> = {1} /\ <<current_req>>[1] = current_req
      /\ current_req \in Request
  BY AnsweredEffect DEF InProgress, TypeOK
<1>2. CASE mb_state' # "IDLE"
  <2>1. InProgress' = InProgress /\ Over' = Over
    BY <1>1, <1>2, AnsweredEffect DEF InProgress, Over
  <2>. QED BY <1>1, <2>1 DEF ServedInOrder, Made
<1>3. CASE mb_state' = "IDLE"
  <2>1. Over' = Append(Over, current_req) /\ InProgress' = << >>
    BY <1>3, AnsweredEffect, OverGrows DEF InProgress
  <2>2. /\ \A i \in DOMAIN Over : Before(Over[i], current_req)
        /\ \A q \in {priority_queue, normal_queue} :
             /\ Increasing(q) /\ Made(q) /\ Ahead(Over, q)
             /\ \A i \in DOMAIN q : Before(current_req, q[i])
    BY <1>1 DEF ServedInOrder, Ahead
  <2>3. \A i \in DOMAIN Over' : \/ Over'[i] = current_req
                                \/ i \in DOMAIN Over /\ Over'[i] = Over[i]
    <3>1. \A i \in 1 .. Len(Over) + 1 : i = Len(Over) + 1 \/ i \in 1 .. Len(Over)
      BY OverIsSeq
    <3>. QED BY <1>1, <2>1, <3>1, OverIsSeq, AppendElements
  <2>4. Increasing(Over')
    BY <1>1, <2>1, <2>2, OverIsSeq, JoinInOrder DEF ServedInOrder
  <2>5. \A q \in {priority_queue, normal_queue} : Ahead(Over', q)
    BY <2>2, <2>3 DEF Ahead
  <2>6. Made(Over)'
    BY <1>1, <2>3 DEF Made, ServedInOrder
  <2>. QED BY <1>1, <2>1, <2>2, <2>4, <2>5, <2>6 DEF ServedInOrder, Ahead, Made
<1>. QED BY <1>2, <1>3

(* Requests are served in the order in which they were made, each once, for  *)
(* every behaviour of the Modbus master.                                     *)
THEOREM InOrder == SafetySpec => []ServedInOrder
<1>1. ASSUME IInv, IInv', ServedInOrder, [Next]_cvars PROVE ServedInOrder'
  <2>. Types /\ Types'
    BY <1>1 DEF IInv
  <2>1. ASSUME NEW cmd \in Commands, MBController_Request(cmd) PROVE ServedInOrder'
    BY <1>1, <2>1, RequestInOrder
  <2>2. ASSUME NEW status \in {"BUSY", "ERROR", "OK"}, NEW a \in Answers, Take(status, a)
        PROVE  ServedInOrder'
    BY <1>1, <2>2, TakeInOrder
  <2>3. ASSUME NEW status \in {"BUSY", "ERROR", "OK"}, NEW a \in Answers, Continue(status, a)
        PROVE  ServedInOrder'
    <3>1. InProgress' = InProgress
      BY <2>3 DEF Continue, Transmitted, Sending, InProgress
    <3>2. UNCHANGED <<priority_queue, normal_queue, calls, ended>>
      BY <2>3 DEF Continue, hist
    <3>. QED BY <1>1, <3>1, <3>2 DEF ServedInOrder, Over, Made
  <2>4. CASE Answered
    BY <1>1, <2>4, AnsweredInOrder
  <2>5. CASE UNCHANGED cvars
    BY <1>1, <2>5 DEF cvars, ServedInOrder, Over, InProgress, Made
  <2>. QED BY <1>1, <2>1, <2>2, <2>3, <2>4, <2>5 DEF Next, MBController_Process
<1>. QED BY <1>1, InitInOrder, Invariant, PTL DEF SafetySpec
-----------------------------------------------------------------------------
(* Where a request is looked for stays the same when others join or leave. *)
LEMMA InAppend ==
  ASSUME NEW q \in Seq(Request), NEW r \in Request
  PROVE  In(r.id, Append(q, r)) /\ \A n : In(n, q) => In(n, Append(q, r))
<1>1. /\ Len(q) + 1 \in DOMAIN Append(q, r) /\ Append(q, r)[Len(q) + 1] = r
      /\ \A i \in DOMAIN q : i \in DOMAIN Append(q, r) /\ Append(q, r)[i] = q[i]
  BY AppendElements
<1>. QED BY <1>1 DEF In

LEMMA InAdvances ==
  ASSUME NEW q \in Seq(Request), NEW r, NEW p, Advances(q, r, p)
  PROVE  \A n : In(n, q) => In(n, p) \/ n = r.id
<1> SUFFICES ASSUME NEW n, NEW j \in DOMAIN q, q[j].id = n PROVE In(n, p) \/ n = r.id
  BY DEF In
<1>1. DOMAIN q = 1 .. Len(q) /\ DOMAIN p = 1 .. Len(q) - 1 /\ Len(q) \in Nat \ {0}
  BY DEF Advances
<1>2. CASE j = 1
  BY <1>2 DEF Advances
<1>3. CASE j # 1
  <2>1. j - 1 \in DOMAIN p /\ (j - 1) + 1 = j
    BY <1>1, <1>3
  <2>2. p[j - 1] = q[j]
    BY <1>1, <2>1 DEF Advances
  <2>. QED BY <2>1, <2>2 DEF In
<1>. QED BY <1>2, <1>3

LEMMA RequestKeepsReads ==
  ASSUME IInv, AcceptedReadsKept, NEW cmd \in Commands, MBController_Request(cmd)
  PROVE  AcceptedReadsKept'
<1>. DEFINE r == [id |-> Len(calls) + 1, cmd |-> cmd]
            Kept(n) == In(n, Over) \/ In(n, InProgress) \/ In(n, normal_queue)
<1>. Types /\ TypeOK
  BY DEF IInv, Types
<1>1. PICK ok \in BOOLEAN :
        /\ calls' = Append(calls, [cmd |-> cmd, ok |-> ok])
        /\ \/ UNCHANGED normal_queue /\ (cmd.op \in ReadOps => ~ok)
           \/ normal_queue' = IF ok THEN Append(normal_queue, r) ELSE normal_queue
  BY RequestQueues
<1>2. /\ [cmd |-> cmd, ok |-> ok] \in [cmd : Command, ok : BOOLEAN]
      /\ [cmd |-> cmd, ok |-> ok].cmd = cmd /\ [cmd |-> cmd, ok |-> ok].ok = ok
  BY CommandAssumption
<1>3. /\ Len(calls) \in Nat /\ DOMAIN calls = 1 .. Len(calls) /\ DOMAIN calls' = 1 .. Len(calls) + 1
      /\ calls'[Len(calls) + 1].cmd = cmd /\ calls'[Len(calls) + 1].ok = ok
      /\ \A i \in 1 .. Len(calls) : calls'[i] = calls[i]
  BY <1>1, <1>2, AppendElements DEF Types, HistoryOK
<1>4. r \in Request /\ r.id = Len(calls) + 1
  BY RequestQueues
<1>5. Over' = Over /\ InProgress' = InProgress
  BY RequestQueues DEF Over, InProgress
<1>. HIDE DEF r
<1>6. \A n : Kept(n) => Kept(n)'
  BY <1>1, <1>4, <1>5, InAppend DEF TypeOK
<1>7. cmd.op \in ReadOps /\ ok => In(Len(calls) + 1, normal_queue')
  BY <1>1, <1>4, InAppend DEF TypeOK
<1>8. ASSUME NEW n \in DOMAIN calls', calls'[n].cmd.op \in ReadOps, calls'[n].ok
      PROVE  Kept(n)'
  <2>1. n = Len(calls) + 1 \/ n \in DOMAIN calls
    BY <1>3
  <2>2. CASE n = Len(calls) + 1
    BY <1>3, <1>7, <1>8, <2>2
  <2>3. CASE n \in DOMAIN calls
    BY <1>3, <1>6, <1>8, <2>3 DEF AcceptedReadsKept
  <2>. QED BY <2>1, <2>2, <2>3
<1>. QED BY <1>8 DEF AcceptedReadsKept

(* Every other step moves requests forward: a read that was somewhere in the *)
(* line is still in it.                                                      *)
LEMMA StepKeepsReads ==
  ASSUME IInv, Types', MBController_Process \/ UNCHANGED cvars
  PROVE  /\ calls' = calls
         /\ \A n : In(n, Over) \/ In(n, InProgress) \/ In(n, normal_queue)
              => In(n, Over') \/ In(n, InProgress') \/ In(n, normal_queue')
<1>. Types /\ TypeOK
  BY DEF IInv, Types
<1>. DEFINE Kept(n) == In(n, Over) \/ In(n, InProgress) \/ In(n, normal_queue)
            Goal == calls' = calls /\ \A n : Kept(n) => Kept(n)'
<1>1. ASSUME NEW status \in {"BUSY", "ERROR", "OK"}, NEW a \in Answers, Take(status, a) PROVE Goal
  <2>1. /\ Over' = Over /\ calls' = calls
        /\ InProgress = << >> /\ InProgress' = <<current_req'>>
    BY <1>1, TakeEffect DEF Over, InProgress
  <2>2. \A n : ~In(n, << >>) /\ In(current_req'.id, <<current_req'>>)
    BY DEF In
  <2>3. \A n : In(n, normal_queue) => In(n, normal_queue') \/ n = current_req'.id
    BY <1>1, TakeEffect, InAdvances DEF TypeOK
  <2>. QED BY <2>1, <2>2, <2>3
<1>2. ASSUME NEW status \in {"BUSY", "ERROR", "OK"}, NEW a \in Answers, Continue(status, a) PROVE Goal
  <2>1. InProgress' = InProgress /\ UNCHANGED <<normal_queue, calls, ended>>
    BY <1>2 DEF Continue, Transmitted, Sending, InProgress, hist
  <2>. QED BY <2>1 DEF Over
<1>3. CASE Answered
  <2>1. InProgress = <<current_req>> /\ UNCHANGED <<normal_queue, current_req, calls>>
    BY <1>3, AnsweredEffect DEF InProgress
  <2>2. CASE mb_state' # "IDLE"
    <3>1. InProgress' = InProgress /\ Over' = Over
      BY <1>3, <2>1, <2>2, AnsweredEffect DEF InProgress, Over
    <3>. QED BY <2>1, <3>1
  <2>3. CASE mb_state' = "IDLE"
    <3>1. Over' = Append(Over, current_req)
      BY <1>3, <2>3, AnsweredEffect, OverGrows
    <3>2. \A n : In(n, InProgress) => n = current_req.id
      BY <2>1 DEF In
    <3>3. current_req \in Request /\ Over \in Seq(Request)
      BY OverIsSeq DEF TypeOK
    <3>. QED BY <2>1, <3>1, <3>2, <3>3, InAppend
  <2>. QED BY <2>2, <2>3
<1>4. CASE UNCHANGED cvars
  BY <1>4 DEF cvars, Over, InProgress
<1>. QED BY <1>1, <1>2, <1>3, <1>4 DEF MBController_Process

(* No read that was accepted is lost. *)
THEOREM ReadsKept == SafetySpec => []AcceptedReadsKept
<1>1. Init => AcceptedReadsKept
  BY DEF Init, AcceptedReadsKept
<1>2. ASSUME IInv, IInv', AcceptedReadsKept, [Next]_cvars PROVE AcceptedReadsKept'
  <2>1. ASSUME NEW cmd \in Commands, MBController_Request(cmd) PROVE AcceptedReadsKept'
    BY <1>2, <2>1, RequestKeepsReads
  <2>2. CASE MBController_Process \/ UNCHANGED cvars
    BY <1>2, <2>2, StepKeepsReads DEF AcceptedReadsKept, IInv
  <2>. QED BY <1>2, <2>1, <2>2 DEF Next
<1>. QED BY <1>1, <1>2, Invariant, PTL DEF SafetySpec

(* The error shown is that of the last request that ended. *)
THEOREM ErrorIsLast == SafetySpec => []ErrorShown
<1>1. Init => ErrorShown
  BY DEF Init, ErrorShown
<1>2. ASSUME IInv, ErrorShown, [Next]_cvars PROVE ErrorShown'
  <2>. Types /\ TypeOK
    BY <1>2 DEF IInv, Types
  <2>1. CASE Answered
    <3>1. CASE UNCHANGED <<rs_err, ended>>
      BY <1>2, <3>1 DEF ErrorShown
    <3>2. CASE mb_state' = "IDLE"
      <4>1. PICK o \in Outcomes :
              /\ ended' = Append(ended, [req |-> current_req, outcome |-> o, attempts |-> attempts'])
              /\ rs_err' = 0 <=> o = "done"
        BY <2>1, <3>2, AnsweredEffect
      <4>2. [req |-> current_req, outcome |-> o, attempts |-> attempts'] \in Entry
        BY <2>1, AnsweredEffect DEF Entry, TypeOK
      <4>3. ended' # << >> /\ ended'[Len(ended')].outcome = o
        BY <4>1, <4>2, AppendElements DEF Types, HistoryOK
      <4>. QED BY <4>1, <4>3 DEF ErrorShown
    <3>. QED BY <2>1, <3>1, <3>2, AnsweredEffect
  <2>2. ASSUME NEW cmd \in Commands, MBController_Request(cmd) PROVE UNCHANGED <<rs_err, ended>>
    BY <2>2 DEF MBController_Request
  <2>3. ASSUME NEW status \in {"BUSY", "ERROR", "OK"}, NEW a \in Answers,
               Take(status, a) \/ Continue(status, a)
        PROVE  UNCHANGED <<rs_err, ended>>
    BY <2>3 DEF Take, Continue, hist
  <2>4. UNCHANGED cvars => UNCHANGED <<rs_err, ended>>
    BY DEF cvars
  <2>5. UNCHANGED <<rs_err, ended>> => ErrorShown'
    BY <1>2 DEF ErrorShown
  <2>. QED BY <1>2, <2>1, <2>2, <2>3, <2>4, <2>5 DEF Next, MBController_Process
<1>. QED BY <1>1, <1>2, Invariant, PTL DEF SafetySpec
-----------------------------------------------------------------------------
(* Induction, stated about sets: a set of numbers that holds 0 and with each *)
(* number the next holds all of them.                                        *)
Less == {p \in Nat \X Nat : p[1] < p[2]}

LEMMA LessIsWellFounded == IsWellFoundedOn(Less, Nat)
BY NatLessThanWellFounded DEF OpToRel, Less

LEMMA LeastNumber ==
  ASSUME NEW T \in SUBSET Nat, T # {}
  PROVE  \E x \in T : \A y \in T : ~(y < x)
<1>1. PICK x \in T : \A y \in T : ~(<<y, x>> \in Less)
  BY LessIsWellFounded, WFMin
<1>. QED BY <1>1 DEF Less

LEMMA UpTo ==
  ASSUME NEW n \in Nat, NEW T, 0 \in T, \A i \in 1 .. n : i - 1 \in T => i \in T
  PROVE  \A i \in 0 .. n : i \in T
<1> DEFINE Missed == {i \in 0 .. n : i \notin T}
<1> SUFFICES ASSUME Missed # {} PROVE FALSE
  OBVIOUS
<1>1. Missed \in SUBSET Nat
  OBVIOUS
<1>2. PICK x \in Missed : \A y \in Missed : ~(y < x)
  <2> HIDE DEF Missed
  <2>. QED BY <1>1, LeastNumber
<1>3. x \in 1 .. n /\ x \notin T
  BY <1>2
<1>4. x - 1 \in 0 .. n /\ x - 1 < x
  BY <1>3
<1>5. x - 1 \in T
  BY <1>2, <1>4
<1>. QED BY <1>3, <1>5

(* A set of numbers that holds with each number all before it is an initial  *)
(* part.                                                                     *)

(* Sums over sets of positions, which the library adds up in no fixed order: *)
(* a measure that grows by f[x] with each x is the sum of f.                 *)
Pick(s) == CHOOSE x \in s : TRUE

Partial(f, g, s) == IF s = {} THEN 0 ELSE f[Pick(s)] + g[s \ {Pick(s)}]

Additive(g, f, n) ==
  /\ g \in [SUBSET (1 .. n) -> Nat]
  /\ g[{}] = 0
  /\ \A s \in SUBSET (1 .. n) : \A x \in s : g[s] = f[x] + g[s \ {x}]

(* The library's definition, as an equation.                                 *)
LEMMA SumUnfolds ==
  ASSUME NEW f, NEW S, \E h : h = [s \in SUBSET S |-> Partial(f, h, s)]
  PROVE  \E h : /\ h = [s \in SUBSET S |-> Partial(f, h, s)]
                /\ SumFunctionOnSet(f, S) = h[S]
<1> DEFINE iter[s \in SUBSET S] ==
        IF s = {} THEN 0
        ELSE LET x == CHOOSE y \in s : TRUE
             IN  f[x] + iter[s \ {x}]
<1>1. SumFunctionOnSet(f, S) = iter[S]
  BY DEF SumFunctionOnSet, FoldFunctionOnSet, MapThenFoldSet
<1>2. iter = CHOOSE h : h = [s \in SUBSET S |-> Partial(f, h, s)]
  BY DEF Partial, Pick
<1> HIDE DEF iter
<1>3. iter = [s \in SUBSET S |-> Partial(f, iter, s)]
  BY <1>2
<1>. QED BY <1>1, <1>3

LEMMA MeasureExists ==
  ASSUME NEW n \in Nat, NEW f, \A i \in 1 .. n : f[i] \in Nat
  PROVE  \E g : Additive(g, f, n)
<1> DEFINE T == {m \in 0 .. n : \E g : Additive(g, f, m)}
<1>1. 0 \in T
  <2> DEFINE g == [s \in SUBSET (1 .. 0) |-> 0]
  <2>1. Additive(g, f, 0)
    BY DEF Additive
  <2> HIDE DEF g
  <2>. QED BY <2>1
<1>2. ASSUME NEW m \in 1 .. n, m - 1 \in T PROVE m \in T
  <2>1. PICK g : Additive(g, f, m - 1)
    BY <1>2
  <2> DEFINE last == [s \in SUBSET (1 .. m) |-> IF m \in s THEN f[m] ELSE 0]
             k == [s \in SUBSET (1 .. m) |-> g[s \ {m}] + last[s]]
  <2>2. f[m] \in Nat
    OBVIOUS
  <2>3. \A s \in SUBSET (1 .. m) : s \ {m} \in SUBSET (1 .. m - 1)
    OBVIOUS
  <2>4. \A s \in SUBSET (1 .. m) :
          g[s \ {m}] \in Nat /\ last[s] \in Nat /\ last[s] = IF m \in s THEN f[m] ELSE 0
    BY <2>1, <2>2, <2>3 DEF Additive
  <2> HIDE DEF last
  <2>5. \A s \in SUBSET (1 .. m) : g[s \ {m}] + last[s] \in Nat
    BY <2>4
  <2>6. /\ k \in [SUBSET (1 .. m) -> Nat]
        /\ \A s \in SUBSET (1 .. m) : k[s] = g[s \ {m}] + last[s] /\ k[s] \in Nat
    BY <2>5
  <2> HIDE DEF k
  <2>7. k[{}] = 0
    <3>1. {} \in SUBSET (1 .. m) /\ {} \ {m} = {} /\ last[{}] = 0
      BY <2>4
    <3>. QED BY <2>1, <2>6, <3>1 DEF Additive
  <2>8. ASSUME NEW s \in SUBSET (1 .. m), NEW x \in s PROVE k[s] = f[x] + k[s \ {x}]
    <3>1. s \ {x} \in SUBSET (1 .. m) /\ x \in 1 .. n
      OBVIOUS
    <3>2. /\ k[s] = g[s \ {m}] + last[s] /\ g[s \ {m}] \in Nat /\ last[s] \in Nat
          /\ k[s \ {x}] = g[(s \ {x}) \ {m}] + last[s \ {x}] /\ g[(s \ {x}) \ {m}] \in Nat
          /\ f[x] \in Nat
      BY <2>4, <2>6, <3>1
    <3>3. CASE x = m
      <4>1. (s \ {x}) \ {m} = s \ {m} /\ last[s] = f[m] /\ last[s \ {x}] = 0
        BY <2>4, <3>1, <3>3
      <4>. QED BY <3>2, <3>3, <4>1
    <3>4. CASE x # m
      <4>1. x \in s \ {m} /\ (s \ {x}) \ {m} = (s \ {m}) \ {x} /\ last[s \ {x}] = last[s]
        BY <2>4, <3>1, <3>4
      <4>2. g[s \ {m}] = f[x] + g[(s \ {m}) \ {x}]
        BY <2>1, <2>3, <4>1 DEF Additive
      <4>. QED BY <3>2, <4>1, <4>2
    <3>. QED BY <3>3, <3>4
  <2>9. Additive(k, f, m)
    BY <2>6, <2>7, <2>8 DEF Additive
  <2>. QED BY <2>9
<1>3. \A m \in 0 .. n : m \in T
  <2> HIDE DEF T
  <2>. QED BY <1>1, <1>2, UpTo
<1>. QED BY <1>3

LEMMA SumIsMeasure ==
  ASSUME NEW n \in Nat, NEW f, NEW g, Additive(g, f, n), NEW S \in SUBSET (1 .. n)
  PROVE  SumFunctionOnSet(f, S) = g[S]
<1>1. \A s \in SUBSET S : s \in SUBSET (1 .. n) /\ s \ {Pick(s)} \in SUBSET S
  OBVIOUS
<1>2. \A s : s # {} => Pick(s) \in s
  BY DEF Pick
<1>3. \A s \in SUBSET S : g[s] = Partial(f, g, s)
  BY <1>1, <1>2 DEF Additive, Partial
<1>4. \E h : h = [s \in SUBSET S |-> Partial(f, h, s)]
  <2> DEFINE h == [s \in SUBSET S |-> g[s]]
  <2>1. \A s \in SUBSET S : h[s] = g[s]
    OBVIOUS
  <2>2. \A s \in SUBSET S : Partial(f, h, s) = Partial(f, g, s)
    <3> HIDE DEF h
    <3>. QED BY <1>1, <2>1 DEF Partial
  <2>3. h = [s \in SUBSET S |-> Partial(f, h, s)]
    <3>1. \A s \in SUBSET S : g[s] = Partial(f, h, s)
      BY <1>3, <2>2
    <3>2. [s \in SUBSET S |-> g[s]] = [s \in SUBSET S |-> Partial(f, h, s)]
      <4> HIDE DEF h
      <4>. QED BY <3>1
    <3>3. h = [s \in SUBSET S |-> g[s]]
      OBVIOUS
    <3> HIDE DEF h
    <3>. QED BY <3>2, <3>3
  <2> HIDE DEF h
  <2>. QED BY <2>3
<1>5. PICK h : /\ h = [s \in SUBSET S |-> Partial(f, h, s)]
               /\ SumFunctionOnSet(f, S) = h[S]
  BY <1>4, SumUnfolds
<1>6. \A s \in SUBSET S : h[s] = Partial(f, h, s)
  BY <1>5
<1> DEFINE Bad == {s \in SUBSET S : h[s] # g[s]}
<1>7. ASSUME Bad # {} PROVE FALSE
  <2>1. IsFiniteSet(S)
    <3>1. IsFiniteSet(1 .. n)
      BY FS_Interval
    <3>. QED BY <3>1, FS_Subset
  <2>2. IsWellFoundedOn(StrictSubsetOrdering(S), SUBSET S)
    BY <2>1, FS_StrictSubsetOrderingWellFounded, FS_FiniteSubsetsOfFinite
  <2>3. Bad \subseteq SUBSET S
    OBVIOUS
  <2>4. PICK s \in Bad : \A t \in Bad : ~(<<t, s>> \in StrictSubsetOrdering(S))
    <3> HIDE DEF Bad
    <3>. QED BY <1>7, <2>2, <2>3, WFMin
  <2>5. s \in SUBSET S /\ h[s] # g[s]
    OBVIOUS
  <2>6. CASE s = {}
    BY <1>3, <1>6, <2>5, <2>6 DEF Partial
  <2>7. CASE s # {}
    <3> DEFINE t == s \ {Pick(s)}
    <3>1. t \in SUBSET S /\ t \subseteq s /\ t # s
      BY <1>2, <2>5, <2>7
    <3>2. h[t] = g[t]
      <4>1. <<t, s>> \in StrictSubsetOrdering(S)
        <5> HIDE DEF t
        <5>. QED BY <2>5, <3>1 DEF StrictSubsetOrdering
      <4>2. t \notin Bad
        BY <2>4, <4>1
      <4>. QED BY <3>1, <4>2
    <3>3. Partial(f, h, s) = Partial(f, g, s)
      BY <3>2 DEF Partial
    <3>. QED BY <1>3, <1>6, <2>5, <3>3
  <2>. QED BY <2>6, <2>7
<1>. QED BY <1>5, <1>7

(* Sums of numbers over sets of positions: none is 0, one more position adds *)
(* its number, and the numbers at other positions do not matter.             *)
LEMMA EmptySum == \A f : SumFunctionOnSet(f, {}) = 0
<1> SUFFICES ASSUME NEW f PROVE SumFunctionOnSet(f, {}) = 0
  OBVIOUS
<1>1. PICK g : Additive(g, f, 0)
  BY MeasureExists
<1>2. {} \in SUBSET (1 .. 0) /\ 0 \in Nat
  OBVIOUS
<1>3. SumFunctionOnSet(f, {}) = g[{}]
  BY <1>1, <1>2, SumIsMeasure
<1>. QED BY <1>1, <1>3 DEF Additive

LEMMA SumSame ==
  ASSUME NEW n \in Nat, NEW f, NEW k, \A i \in 1 .. n : f[i] \in Nat /\ k[i] = f[i],
         NEW S \in SUBSET (1 .. n)
  PROVE  SumFunctionOnSet(f, S) \in Nat /\ SumFunctionOnSet(k, S) = SumFunctionOnSet(f, S)
<1>1. PICK g : Additive(g, f, n)
  BY MeasureExists
<1>2. Additive(g, k, n)
  <2>1. \A s \in SUBSET (1 .. n) : \A x \in s : k[x] = f[x]
    OBVIOUS
  <2>. QED BY <1>1, <2>1 DEF Additive
<1>3. SumFunctionOnSet(f, S) = g[S]
  BY <1>1, SumIsMeasure
<1>4. SumFunctionOnSet(k, S) = g[S]
  BY <1>2, SumIsMeasure
<1>5. g[S] \in Nat
  BY <1>1 DEF Additive
<1>. QED BY <1>3, <1>4, <1>5

LEMMA SumGrows ==
  ASSUME NEW n \in Nat, NEW f, NEW k,
         \A i \in 1 .. n : f[i] \in Nat /\ k[i] = f[i], k[n + 1] \in Nat,
         NEW S \in SUBSET (1 .. n), NEW R, R = S \cup {n + 1}
  PROVE  SumFunctionOnSet(k, R) = SumFunctionOnSet(f, S) + k[n + 1]
<1>1. \A i \in 1 .. n + 1 : k[i] \in Nat
  <2>1. \A i \in 1 .. n + 1 : i = n + 1 \/ i \in 1 .. n
    OBVIOUS
  <2>. QED BY <2>1
<1>2. PICK h : Additive(h, k, n + 1)
  BY <1>1, MeasureExists
<1>3. /\ S \in SUBSET (1 .. n + 1) /\ R \in SUBSET (1 .. n + 1) /\ n + 1 \in Nat
      /\ n + 1 \in R /\ R \ {n + 1} = S
  OBVIOUS
<1>4. h[R] = k[n + 1] + h[S] /\ h[S] \in Nat
  BY <1>2, <1>3 DEF Additive
<1>5. SumFunctionOnSet(k, R) = h[R]
  BY <1>2, <1>3, SumIsMeasure
<1>6. SumFunctionOnSet(k, S) = h[S]
  BY <1>2, <1>3, SumIsMeasure
<1>7. SumFunctionOnSet(k, S) = SumFunctionOnSet(f, S)
  BY SumSame
<1>. QED BY <1>4, <1>5, <1>6, <1>7
-----------------------------------------------------------------------------
(* How many failed answers the requests of s saw, one by one.                *)
Failed(s) == [k \in DOMAIN s |-> FailedAnswers(s[k])]

(* Every request that is over saw an answer.                                 *)
AllTried(s) == \A i \in 1 .. Len(s) : s[i].attempts > 0

(* A run of requests without a success reaches from the j-th to the last.    *)
NoneDone(s, j) == \A k \in j .. Len(s) : s[k].outcome # "done"

(* At least c answers failed at the end of s, the x answers to the request   *)
(* in progress included, since some request that was not a success.          *)
CountsFailures(s, c, x) ==
  \E j \in 1 .. Len(s) + 1 : NoneDone(s, j) /\ c <= SumFunctionOnSet(Failed(s), j .. Len(s)) + x

SoFar == IF mb_state = "IDLE" THEN 0 ELSE attempts

(* timeoutcnt, which no give-up resets, never counts more failures than there *)
(* were since the last success: a wrap only loses some.                      *)
FailuresOfRun == AllTried(ended) /\ CountsFailures(ended, timeoutcnt, SoFar)

GivenUpIn(s) ==
  \A i \in DOMAIN s : s[i].outcome = "given_up" =>
    \E j \in 1 .. i :
      /\ \A k \in j .. i : s[k].outcome # "done"
      /\ SumFunctionOnSet(Failed(s), j .. i) > RetryLimit

LEMMA FailedAreCounted ==
  /\ \A x \in Entry : x.attempts > 0 => FailedAnswers(x) \in Nat
  /\ \A s \in Seq(Entry) : AllTried(s) => \A i \in 1 .. Len(s) : Failed(s)[i] \in Nat
<1>1. \A x \in Entry : x.attempts > 0 => FailedAnswers(x) \in Nat
  BY DEF Entry, FailedAnswers
<1>2. ASSUME NEW s \in Seq(Entry), AllTried(s), NEW i \in 1 .. Len(s) PROVE Failed(s)[i] \in Nat
  <2>1. s[i] \in Entry /\ s[i].attempts > 0 /\ i \in DOMAIN s
    BY <1>2 DEF AllTried
  <2>. QED BY <1>1, <2>1 DEF Failed
<1>. QED BY <1>1, <1>2

LEMMA FailedGrows ==
  ASSUME NEW s \in Seq(Entry), AllTried(s), NEW e \in Entry, e.attempts > 0
  PROVE  /\ FailedAnswers(e) \in Nat
         /\ \A S \in SUBSET (1 .. Len(s)) :
              /\ SumFunctionOnSet(Failed(s), S) \in Nat
              /\ SumFunctionOnSet(Failed(Append(s, e)), S) = SumFunctionOnSet(Failed(s), S)
              /\ SumFunctionOnSet(Failed(Append(s, e)), S \cup {Len(s) + 1})
                   = SumFunctionOnSet(Failed(s), S) + FailedAnswers(e)
<1> DEFINE n == Len(s)
           f == Failed(s)
           k == Failed(Append(s, e))
<1>1. /\ n \in Nat /\ DOMAIN s = 1 .. n /\ DOMAIN Append(s, e) = 1 .. n + 1
      /\ Append(s, e)[n + 1] = e
      /\ \A i \in 1 .. n : Append(s, e)[i] = s[i] /\ s[i] \in Entry /\ s[i].attempts > 0
  BY AppendElements DEF AllTried
<1>2. \A x \in Entry : x.attempts > 0 => FailedAnswers(x) \in Nat
  BY FailedAreCounted
<1> HIDE DEF n
<1>0. n \in Nat
  BY <1>1
<1>3. \A i \in 1 .. n : i \in 1 .. n + 1
  BY <1>1
<1>4. \A i \in 1 .. n : f[i] \in Nat /\ k[i] = f[i]
  BY <1>1, <1>2, <1>3 DEF Failed
<1>5. k[n + 1] = FailedAnswers(e) /\ k[n + 1] \in Nat
  <2>1. n + 1 \in 1 .. n + 1
    BY <1>1
  <2>. QED BY <1>1, <1>2, <2>1 DEF Failed
<1> HIDE DEF f, k
<1>6. ASSUME NEW S \in SUBSET (1 .. n)
      PROVE  /\ SumFunctionOnSet(f, S) \in Nat
             /\ SumFunctionOnSet(k, S) = SumFunctionOnSet(f, S)
             /\ SumFunctionOnSet(k, S \cup {n + 1}) = SumFunctionOnSet(f, S) + FailedAnswers(e)
  <2>1. SumFunctionOnSet(f, S) \in Nat /\ SumFunctionOnSet(k, S) = SumFunctionOnSet(f, S)
    BY <1>0, <1>4, SumSame
  <2>2. SumFunctionOnSet(k, S \cup {n + 1}) = SumFunctionOnSet(f, S) + k[n + 1]
    BY <1>0, <1>4, <1>5, SumGrows
  <2>. QED BY <1>5, <2>1, <2>2
<1>. QED BY <1>5, <1>6 DEF f, k, n

(* One request more at the end of a run.                                     *)
LEMMA LongerRun ==
  ASSUME NEW s \in Seq(Entry), AllTried(s), NEW e \in Entry, e.attempts > 0,
         e.outcome # "done", NEW j \in 1 .. Len(s) + 1, NoneDone(s, j)
  PROVE  /\ j \in 1 .. Len(Append(s, e)) /\ NoneDone(Append(s, e), j)
         /\ SumFunctionOnSet(Failed(s), j .. Len(s)) \in Nat
         /\ SumFunctionOnSet(Failed(Append(s, e)), j .. Len(Append(s, e)))
              = SumFunctionOnSet(Failed(s), j .. Len(s)) + FailedAnswers(e)
<1>1. /\ Len(s) \in Nat /\ Len(Append(s, e)) = Len(s) + 1
      /\ Append(s, e)[Len(s) + 1] = e
      /\ \A i \in 1 .. Len(s) : Append(s, e)[i] = s[i]
  BY AppendElements
<1>2. ASSUME NEW k \in j .. Len(Append(s, e)) PROVE Append(s, e)[k].outcome # "done"
  <2>1. k = Len(s) + 1 \/ k \in (1 .. Len(s)) \cap (j .. Len(s))
    BY <1>1
  <2>. QED BY <1>1, <2>1 DEF NoneDone
<1>3. j .. Len(s) \in SUBSET (1 .. Len(s)) /\ j .. Len(s) + 1 = (j .. Len(s)) \cup {Len(s) + 1}
  BY <1>1
<1>4. /\ SumFunctionOnSet(Failed(s), j .. Len(s)) \in Nat
      /\ SumFunctionOnSet(Failed(Append(s, e)), j .. Len(s) + 1)
           = SumFunctionOnSet(Failed(s), j .. Len(s)) + FailedAnswers(e)
  <2> DEFINE S == j .. Len(s)
             R == j .. Len(s) + 1
  <2>1. S \in SUBSET (1 .. Len(s)) /\ R = S \cup {Len(s) + 1}
    BY <1>3
  <2> HIDE DEF S, R
  <2>2. /\ SumFunctionOnSet(Failed(s), S) \in Nat
        /\ SumFunctionOnSet(Failed(Append(s, e)), S \cup {Len(s) + 1})
             = SumFunctionOnSet(Failed(s), S) + FailedAnswers(e)
    BY <2>1, FailedGrows
  <2>. QED BY <2>1, <2>2 DEF S, R
<1>5. NoneDone(Append(s, e), j)
  BY <1>2 DEF NoneDone
<1>6. j \in 1 .. Len(Append(s, e))
  BY <1>1
<1>. QED BY <1>1, <1>4, <1>5, <1>6

(* A request that is over: the count goes on, or begins again.               *)
LEMMA CountGoesOn ==
  ASSUME NEW s \in Seq(Entry), AllTried(s), NEW e \in Entry, e.attempts > 0, e.outcome # "done",
         NEW c \in Nat, NEW d \in Nat, NEW x \in Nat, CountsFailures(s, c, x),
         d + x <= c + FailedAnswers(e)
  PROVE  CountsFailures(Append(s, e), d, 0)
<1>1. PICK j \in 1 .. Len(s) + 1 :
        NoneDone(s, j) /\ c <= SumFunctionOnSet(Failed(s), j .. Len(s)) + x
  BY DEF CountsFailures
<1>2. /\ j \in 1 .. Len(Append(s, e)) /\ NoneDone(Append(s, e), j)
      /\ SumFunctionOnSet(Failed(s), j .. Len(s)) \in Nat
      /\ SumFunctionOnSet(Failed(Append(s, e)), j .. Len(Append(s, e)))
           = SumFunctionOnSet(Failed(s), j .. Len(s)) + FailedAnswers(e)
  BY <1>1, LongerRun
<1>3. FailedAnswers(e) \in Nat
  BY FailedGrows
<1>4. d <= SumFunctionOnSet(Failed(Append(s, e)), j .. Len(Append(s, e))) + 0
  BY <1>1, <1>2, <1>3
<1>5. Len(Append(s, e)) \in Nat
  BY AppendElements
<1>6. j \in 1 .. Len(Append(s, e)) + 1
  BY <1>2, <1>5
<1>. QED BY <1>2, <1>4, <1>6 DEF CountsFailures

LEMMA CountsNone == ASSUME NEW s \in Seq(Entry) PROVE CountsFailures(s, 0, 0)
<1>1. Len(s) \in Nat
  OBVIOUS
<1>2. Len(s) + 1 \in 1 .. Len(s) + 1 /\ (Len(s) + 1) .. Len(s) = {}
  BY <1>1
<1>3. 0 <= SumFunctionOnSet(Failed(s), (Len(s) + 1) .. Len(s)) + 0
  BY <1>2, EmptySum
<1>4. NoneDone(s, Len(s) + 1)
  BY <1>2 DEF NoneDone
<1>. QED BY <1>2, <1>3, <1>4 DEF CountsFailures

LEMMA TriedAppend ==
  ASSUME NEW s \in Seq(Entry), AllTried(s), NEW e \in Entry, e.attempts > 0
  PROVE  AllTried(Append(s, e))
<1>1. \A i \in 1 .. Len(s) + 1 : i = Len(s) + 1 \/ i \in 1 .. Len(s)
  OBVIOUS
<1>. QED BY <1>1, AppendElements DEF AllTried

LEMMA GivenUpAppend ==
  ASSUME NEW s \in Seq(Entry), AllTried(s), NEW e \in Entry, e.attempts > 0, GivenUpIn(s),
         NEW c \in Nat, NEW x \in Nat, CountsFailures(s, c, x),
         e.outcome = "given_up" => RetryLimit + x < c + FailedAnswers(e)
  PROVE  GivenUpIn(Append(s, e))
<1> DEFINE t == Append(s, e)
<1>1. /\ Len(s) \in Nat /\ Len(t) = Len(s) + 1 /\ DOMAIN t = 1 .. Len(s) + 1
      /\ DOMAIN s = 1 .. Len(s) /\ t[Len(s) + 1] = e
      /\ \A i \in 1 .. Len(s) : t[i] = s[i]
  BY AppendElements
<1>2. ASSUME NEW i \in 1 .. Len(s), s[i].outcome = "given_up"
      PROVE  \E j \in 1 .. i : /\ \A k \in j .. i : t[k].outcome # "done"
                               /\ SumFunctionOnSet(Failed(t), j .. i) > RetryLimit
  <2>1. PICK j \in 1 .. i : /\ \A k \in j .. i : s[k].outcome # "done"
                            /\ SumFunctionOnSet(Failed(s), j .. i) > RetryLimit
    BY <1>1, <1>2 DEF GivenUpIn
  <2>2. j .. i \in SUBSET (1 .. Len(s))
    BY <1>1
  <2>3. SumFunctionOnSet(Failed(t), j .. i) = SumFunctionOnSet(Failed(s), j .. i)
    BY <2>2, FailedGrows
  <2>. QED BY <1>1, <2>1, <2>2, <2>3
<1>3. ASSUME e.outcome = "given_up"
      PROVE  \E j \in 1 .. Len(t) : NoneDone(t, j) /\ SumFunctionOnSet(Failed(t), j .. Len(t)) > RetryLimit
  <2>1. PICK j \in 1 .. Len(s) + 1 :
          NoneDone(s, j) /\ c <= SumFunctionOnSet(Failed(s), j .. Len(s)) + x
    BY DEF CountsFailures
  <2>2. /\ j \in 1 .. Len(t) /\ NoneDone(t, j)
        /\ SumFunctionOnSet(Failed(s), j .. Len(s)) \in Nat
        /\ SumFunctionOnSet(Failed(t), j .. Len(t))
             = SumFunctionOnSet(Failed(s), j .. Len(s)) + FailedAnswers(e)
    BY <1>3, <2>1, LongerRun
  <2>3. FailedAnswers(e) \in Nat
    BY FailedGrows
  <2>4. SumFunctionOnSet(Failed(t), j .. Len(t)) > RetryLimit
    BY <1>3, <2>1, <2>2, <2>3, RetryAssumption
  <2>. QED BY <2>2, <2>4
<1> HIDE DEF t
<1>4. ASSUME NEW i \in DOMAIN t, t[i].outcome = "given_up"
      PROVE  \E j \in 1 .. i : /\ \A k \in j .. i : t[k].outcome # "done"
                               /\ SumFunctionOnSet(Failed(t), j .. i) > RetryLimit
  <2>1. CASE i \in 1 .. Len(s)
    BY <1>1, <1>2, <1>4, <2>1
  <2>2. CASE i = Len(t)
    BY <1>1, <1>3, <1>4, <2>2 DEF NoneDone
  <2>. QED BY <1>1, <2>1, <2>2
<1>. QED BY <1>4 DEF GivenUpIn, t
-----------------------------------------------------------------------------
(* What an answer adds to the requests that are over, and to timeoutcnt.     *)
LEMMA AnswerCounts ==
  ASSUME IInv, Answered
  PROVE  /\ mb_state = "WAITING_RSP" /\ attempts \in Nat /\ attempts' = attempts + 1
         /\ timeoutcnt \in Nat /\ timeoutcnt' \in Nat
         /\ \/ /\ mb_state' # "IDLE" /\ ended' = ended
               /\ timeoutcnt' <= timeoutcnt + 1
            \/ /\ mb_state' = "IDLE"
               /\ \E e \in Entry :
                    /\ ended' = Append(ended, e) /\ e.attempts = attempts + 1
                    /\ \/ e.outcome = "done" /\ timeoutcnt' = 0
                       \/ /\ e.outcome = "given_up"
                          /\ timeoutcnt' <= timeoutcnt + 1 /\ timeoutcnt' > RetryLimit
                       \/ e.outcome = "refused" /\ timeoutcnt' = timeoutcnt
<1>. Types /\ TypeOK /\ FailuresCounted
  BY DEF IInv, Types
<1>1. attempts \in Nat /\ attempts' = attempts + 1 /\ mb_state = "WAITING_RSP"
  BY RetryAssumption DEF Answered, AttemptsCap, FailuresCounted, Types, HistoryOK
<1>2. Failures \in Nat /\ Failures <= timeoutcnt + 1 /\ timeoutcnt \in Nat
  BY RetryAssumption DEF Failures, TypeOK
<1>3. ASSUME NEW o \in Outcomes, End(o)
      PROVE  \E e \in Entry : ended' = Append(ended, e) /\ e.attempts = attempts + 1 /\ e.outcome = o
  <2> DEFINE e == [req |-> current_req, outcome |-> o, attempts |-> attempts']
  <2>1. e \in Entry /\ e.attempts = attempts + 1 /\ e.outcome = o
    BY <1>1 DEF Entry, TypeOK
  <2>2. ended' = Append(ended, e)
    BY <1>3 DEF End
  <2> HIDE DEF e
  <2>. QED BY <2>1, <2>2
<1>4. CASE Succeed
  <2>1. timeoutcnt' = 0 /\ mb_state' = "IDLE" /\ End("done")
    BY <1>4 DEF Succeed
  <2>. QED BY <1>1, <1>2, <1>3, <2>1 DEF Outcomes
<1>5. CASE Retry
  <2>1. timeoutcnt' = Failures /\ mb_state' # "IDLE" /\ ended' = ended
    BY <1>5 DEF Retry, Sending
  <2>. QED BY <1>1, <1>2, <2>1
<1>6. CASE GiveUp
  <2>1. /\ timeoutcnt' = Failures /\ Failures > RetryLimit
        /\ mb_state' = "IDLE" /\ End("given_up")
    BY <1>6 DEF GiveUp
  <2>. QED BY <1>1, <1>2, <1>3, <2>1 DEF Outcomes
<1>7. CASE Refused
  <2>1. timeoutcnt' = timeoutcnt /\ mb_state' = "IDLE" /\ End("refused")
    BY <1>7 DEF Refused
  <2>. QED BY <1>1, <1>2, <1>3, <2>1 DEF Outcomes
<1>. QED BY <1>4, <1>5, <1>6, <1>7 DEF Answered

LEMMA AnsweredGivesUp ==
  ASSUME IInv, FailuresOfRun, GivenUpIn(ended), Answered
  PROVE  FailuresOfRun' /\ GivenUpIn(ended')
<1>1. ended \in Seq(Entry) /\ AllTried(ended) /\ CountsFailures(ended, timeoutcnt, attempts)
  BY AnswerCounts DEF IInv, Types, HistoryOK, FailuresOfRun, SoFar
<1>2. /\ attempts \in Nat /\ attempts' = attempts + 1
      /\ timeoutcnt \in Nat /\ timeoutcnt' \in Nat
  BY AnswerCounts
<1>3. CASE mb_state' # "IDLE"
  <2>1. ended' = ended /\ timeoutcnt' <= timeoutcnt + 1
    BY <1>3, AnswerCounts
  <2>2. PICK j \in 1 .. Len(ended) + 1 :
          NoneDone(ended, j) /\ timeoutcnt <= SumFunctionOnSet(Failed(ended), j .. Len(ended)) + attempts
    BY <1>1 DEF CountsFailures
  <2>3. SumFunctionOnSet(Failed(ended), j .. Len(ended)) \in Nat
    <3>1. \A i \in 1 .. Len(ended) : Failed(ended)[i] \in Nat
      BY <1>1, FailedAreCounted
    <3>2. j .. Len(ended) \in SUBSET (1 .. Len(ended)) /\ Len(ended) \in Nat
      BY <1>1
    <3>. QED BY <3>1, <3>2, SumSame
  <2>4. timeoutcnt' <= SumFunctionOnSet(Failed(ended), j .. Len(ended)) + attempts'
    BY <1>2, <2>1, <2>2, <2>3
  <2>5. CountsFailures(ended, timeoutcnt', attempts')
    BY <2>2, <2>4 DEF CountsFailures
  <2>. QED BY <1>1, <1>3, <2>1, <2>5 DEF FailuresOfRun, SoFar
<1>4. CASE mb_state' = "IDLE"
  <2>1. PICK e \in Entry :
          /\ ended' = Append(ended, e) /\ e.attempts = attempts + 1
          /\ \/ e.outcome = "done" /\ timeoutcnt' = 0
             \/ /\ e.outcome = "given_up"
                /\ timeoutcnt' <= timeoutcnt + 1 /\ timeoutcnt' > RetryLimit
             \/ e.outcome = "refused" /\ timeoutcnt' = timeoutcnt
    BY <1>4, AnswerCounts
  <2>2. e.attempts > 0
    BY <1>2, <2>1
  <2>3. AllTried(Append(ended, e))
    BY <1>1, <2>2, TriedAppend
  <2>4. /\ e.outcome = "given_up" => FailedAnswers(e) = attempts + 1
        /\ e.outcome = "refused" => FailedAnswers(e) = attempts
    BY <1>2, <2>1 DEF FailedAnswers
  <2>5. CountsFailures(Append(ended, e), timeoutcnt', 0)
    <3>1. CASE e.outcome = "done"
      <4>1. Append(ended, e) \in Seq(Entry)
        BY <1>1
      <4>. QED BY <2>1, <3>1, <4>1, CountsNone
    <3>2. CASE e.outcome # "done"
      <4>1. timeoutcnt' + attempts <= timeoutcnt + FailedAnswers(e)
        BY <1>2, <2>1, <2>4, <3>2
      <4>. QED BY <1>1, <1>2, <2>2, <3>2, <4>1, CountGoesOn
    <3>. QED BY <3>1, <3>2
  <2>6. e.outcome = "given_up" => RetryLimit + attempts < timeoutcnt + FailedAnswers(e)
    BY <1>2, <2>1, <2>4, RetryAssumption
  <2>7. GivenUpIn(Append(ended, e))
    BY <1>1, <1>2, <2>2, <2>6, GivenUpAppend
  <2>. QED BY <1>4, <2>1, <2>3, <2>5, <2>7 DEF FailuresOfRun, SoFar
<1>. QED BY <1>3, <1>4

(* No request is given up for the failures of requests long done: a run of    *)
(* more than RetryLimit failed answers without a success ends with it.       *)
THEOREM GivenUpForAReason == SafetySpec => []GivenUpAfterFailures
<1> DEFINE Inv == FailuresOfRun /\ GivenUpIn(ended)
<1>1. Init => Inv
  <2>. SUFFICES ASSUME Init PROVE Inv
    OBVIOUS
  <2>1. ended = << >> /\ timeoutcnt = 0 /\ SoFar = 0 /\ << >> \in Seq(Entry)
    BY DEF Init, SoFar
  <2>2. CountsFailures(ended, timeoutcnt, SoFar)
    BY <2>1, CountsNone
  <2>3. Len(ended) = 0 /\ DOMAIN ended = {}
    BY <2>1
  <2>4. AllTried(ended) /\ GivenUpIn(ended)
    BY <2>3 DEF AllTried, GivenUpIn
  <2>. QED BY <2>2, <2>4 DEF FailuresOfRun
<1>2. ASSUME IInv, Inv, [Next]_cvars PROVE Inv'
  <2>1. ASSUME UNCHANGED <<ended, timeoutcnt>>, SoFar' = SoFar PROVE Inv'
    BY <1>2, <2>1 DEF FailuresOfRun
  <2>2. ASSUME NEW cmd \in Commands, MBController_Request(cmd) PROVE Inv'
    BY <2>1, <2>2 DEF MBController_Request, SoFar
  <2>3. ASSUME NEW status \in {"BUSY", "ERROR", "OK"}, NEW a \in Answers, Take(status, a) PROVE Inv'
    <3>1. TypeOK
      BY <1>2 DEF IInv, Types
    <3>. QED BY <2>1, <2>3, <3>1, TakeEffect DEF SoFar
  <2>4. ASSUME NEW status \in {"BUSY", "ERROR", "OK"}, NEW a \in Answers, Continue(status, a) PROVE Inv'
    BY <2>1, <2>4 DEF Continue, Transmitted, Sending, SoFar, hist
  <2>5. CASE Answered
    BY <1>2, <2>5, AnsweredGivesUp
  <2>6. CASE UNCHANGED cvars
    BY <2>1, <2>6 DEF cvars, SoFar
  <2>. QED BY <1>2, <2>2, <2>3, <2>4, <2>5, <2>6 DEF Next, MBController_Process
<1>3. Inv => GivenUpAfterFailures
  BY DEF GivenUpIn, GivenUpAfterFailures, Failed
<1>. QED BY <1>1, <1>2, <1>3, Invariant, PTL DEF SafetySpec
=============================================================================
