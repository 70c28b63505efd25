--------------------------- MODULE Polling_proofs ---------------------------
(***************************************************************************)
(* Proof that an alarm is logged once, for all pages, limits of requests,  *)
(* queues and behaviours of the slave.                                     *)
(***************************************************************************)
EXTENDS Polling, SequenceTheorems, TLAPS

AlarmValue(m) == ValueIn(m, Alarm)[1]

LEMMA AlarmIsOneWord ==
  \E k \in Keys : \A m : AlarmValue(m) = m[k]
<1>1. RegistersOf(Alarm) = <<Alarm.addr>>
  BY PagesAssumption DEF RegistersOf
<1> DEFINE k == <<"READ_HOLDING_REGISTERS", Alarm.addr>>
<1>2. Len(RegistersOf(Alarm)) = 1 /\ RegistersOf(Alarm)[1] = Alarm.addr /\ Alarm.type # "BIT"
  BY <1>1, PagesAssumption
<1>3. KeysOf(Alarm) = [i \in 1 .. 1 |-> <<"READ_HOLDING_REGISTERS", RegistersOf(Alarm)[i]>>]
  BY <1>2 DEF KeysOf
<1>4. KeysOf(Alarm) = <<k>>
  BY <1>2, <1>3
<1>5. k \in Keys
  BY <1>4, AlarmRegisterAssumption DEF ToSet
<1>6. ASSUME NEW m PROVE AlarmValue(m) = m[k]
  <2>1. Len(KeysOf(Alarm)) = 1 /\ KeysOf(Alarm)[1] = k
    BY <1>4
  <2> QED
    BY <2>1 DEF AlarmValue, ValueIn
<1> QED
  BY <1>5, <1>6

(* While the alarm register has not changed since an alarm was logged, the   *)
(* alarm in the cache is none or the one that was reported last.             *)
KnownAlarm ==
  /\ moved \in BOOLEAN /\ repeated = FALSE
  /\ ~moved => AlarmValue(cache) = 0 \/ AlarmValue(cache) = alarm_log_last_value

LEMMA KnownStays ==
  ASSUME KnownAlarm, UNCHANGED <<cache, alarm_log_last_value, moved, repeated>>
  PROVE  KnownAlarm'
BY DEF KnownAlarm

LEMMA KnownStored ==
  ASSUME KnownAlarm, NEW words, Store(words), UNCHANGED <<alarm_log_last_value, repeated>>
  PROVE  KnownAlarm'
<1>1. moved' = (moved \/ ValueIn(cache', Alarm) # ValueIn(cache, Alarm))
  BY DEF Store
<1>2. ~moved' => ~moved /\ AlarmValue(cache') = AlarmValue(cache)
  BY <1>1 DEF AlarmValue
<1>3. moved' \in BOOLEAN
  BY <1>1
<1> QED
  BY <1>1, <1>2, <1>3 DEF KnownAlarm

LEMMA KnownSet == KnownAlarm /\ SetItem => KnownAlarm'
<1> SUFFICES ASSUME KnownAlarm, SetItem PROVE KnownAlarm'
  OBVIOUS
<1>1. PICK words : Store(words)
  BY DEF SetItem
<1>2. UNCHANGED <<alarm_log_last_value, repeated>>
  BY DEF SetItem, WriteValue, reporting
<1> QED
  BY <1>1, <1>2, KnownStored

LEMMA KnownAnswered == KnownAlarm /\ Answered => KnownAlarm'
<1> SUFFICES ASSUME KnownAlarm, Answered PROVE KnownAlarm'
  OBVIOUS
<1>1. PICK words : Store(words)
  BY DEF Answered
<1>2. UNCHANGED <<alarm_log_last_value, repeated>>
  BY DEF Answered, reporting
<1> QED
  BY <1>1, <1>2, KnownStored

LEMMA KnownChecked == KnownAlarm /\ CheckAndUpdateValues => KnownAlarm'
<1> SUFFICES ASSUME KnownAlarm, CheckAndUpdateValues PROVE KnownAlarm'
  OBVIOUS
<1>1. UNCHANGED cache
  BY DEF CheckAndUpdateValues
<1>2. CASE ~AlarmChanged
  BY <1>1, <1>2, KnownStays DEF CheckAndUpdateValues
<1>3. CASE AlarmChanged
  <2> DEFINE v == AlarmValue(cache)
  <2>1. HandleAlarm(v)
    BY <1>3 DEF CheckAndUpdateValues, AlarmValue
  <2> HIDE DEF v
  <2>2. alarm_log_last_value' = v /\ v = AlarmValue(cache')
    BY <1>1, <2>1 DEF HandleAlarm, v
  <2>3. CASE IsNewAlarm(v)
    <3>1. moved = TRUE
      BY <2>3 DEF IsNewAlarm, KnownAlarm, v
    <3> QED
      BY <2>1, <2>2, <2>3, <3>1 DEF HandleAlarm, KnownAlarm
  <2>4. CASE ~IsNewAlarm(v)
    BY <2>1, <2>2, <2>4 DEF HandleAlarm, KnownAlarm
  <2> QED
    BY <2>3, <2>4
<1> QED
  BY <1>2, <1>3

(* An alarm is logged once for each change of the alarm register, whatever   *)
(* pages are opened and whichever reads are given up.                        *)
THEOREM OnceInTheLog == Spec => []LoggedOnce
<1>1. Init => KnownAlarm
  <2> SUFFICES ASSUME Init PROVE KnownAlarm
    OBVIOUS
  <2>1. \A k \in Keys : cache[k] = 0
    BY DEF Init
  <2>2. AlarmValue(cache) = 0
    BY <2>1, AlarmIsOneWord
  <2> QED
    BY <2>2 DEF Init, KnownAlarm
<1>2. KnownAlarm /\ [Next]_vars => KnownAlarm'
  <2> SUFFICES ASSUME KnownAlarm, [Next]_vars PROVE KnownAlarm'
    OBVIOUS
  <2>1. CASE (\E p \in PageIds : OpenPage(p)) \/ DeviceChanges \/ GivenUp \/ Take
    BY <2>1, KnownStays DEF OpenPage, DeviceChanges, GivenUp, Take, history, reporting
  <2>2. CASE StartRound \/ CreateRequests \/ UNCHANGED vars
    BY <2>2, KnownStays DEF StartRound, CreateRequests, vars, history, reporting
  <2>3. CASE SwitchOutput
    BY <2>3, KnownStays DEF SwitchOutput, WriteValue, reporting
  <2> QED
    BY <2>1, <2>2, <2>3, KnownSet, KnownAnswered, KnownChecked DEF Next
<1>3. KnownAlarm => LoggedOnce
  BY DEF KnownAlarm, LoggedOnce
<1> QED
  BY <1>1, <1>2, <1>3, PTL DEF Spec
-----------------------------------------------------------------------------
(* What is proved of requests holds of those of a round.                     *)
PB == INSTANCE PollBlocks_proofs WITH entries <- requests, MaxEntries <- 0

LEMMA BlocksAssumptions ==
  PB!BlockAssumption /\ PB!EntriesAssumption
<1>1. PB!BlockAssumption
  BY BlockAssumption DEF PB!BlockAssumption
<1>2. PB!EntriesAssumption
  BY DEF PB!EntriesAssumption
<1>. QED BY <1>1, <1>2

LEMMA SameRequests == \A es : PB!GenerateRequests(es) = GenerateRequests(es)
<1>1. \A es : PB!BitAddrs(es) = BitAddrs(es) /\ PB!WordAddrs(es) = WordAddrs(es)
  BY DEF PB!BitAddrs, BitAddrs, PB!WordAddrs, WordAddrs, PB!Loop, Loop, PB!AddBits, AddBits,
    PB!AddWords, AddWords, PB!RegistersOf, RegistersOf
<1>2. \A as : PB!SortAddresses(as) = SortAddresses(as)
  BY DEF PB!SortAddresses, SortAddresses, PB!Loop, Loop, PB!Insert, Insert,
    PB!InsertAt, InsertAt
<1>3. \A as : PB!MergeWithGap(as) = MergeWithGap(as)
  <2>1. \A s : PB!Loop(PB!Join, << >>, s) = Loop(Join, << >>, s)
    BY DEF PB!Loop, Loop, PB!Join, Join, PB!BlockEnd, BlockEnd, PB!Last, Last, PB!Front, Front
  <2>2. \A as : PB!MergeWithGap(as) = PB!Loop(PB!Join, << >>, PB!SortAddresses(as))
    BY DEF PB!MergeWithGap
  <2>3. \A as : MergeWithGap(as) = Loop(Join, << >>, SortAddresses(as))
    BY DEF MergeWithGap
  <2>. QED BY <1>2, <2>1, <2>2, <2>3
<1>4. \A bs : PB!SplitBlocks(bs) = SplitBlocks(bs)
  BY DEF PB!SplitBlocks, SplitBlocks, PB!Loop, Loop, PB!AddSplit, AddSplit, PB!SplitInto, SplitInto,
    PB!SplitCount, SplitCount, PB!Needed, Needed
<1>5. \A op, bs : PB!ReadsOf(op, bs) = ReadsOf(op, bs)
  BY DEF PB!ReadsOf, ReadsOf, PB!ReadOf, ReadOf
<1>. QED BY <1>1, <1>3, <1>4, <1>5 DEF PB!GenerateRequests, GenerateRequests

LEMMA RequestsOfEntries ==
  ASSUME NEW es \in Seq(Entry)
  PROVE  GenerateRequests(es) \in Seq(PB!Request)
<1>1. PB!GenerateRequests(es) \in Seq(PB!Request)
  <2>1. es \in Seq(PB!Entry)
    BY DEF PB!Entry, Entry, PB!Types, Types
  <2>. QED BY <2>1, BlocksAssumptions, PB!RequestsTyped
<1>. QED BY <1>1, SameRequests
-----------------------------------------------------------------------------
(* While a round goes on, its requests are those of the page it was made for *)
(* and those that are queued are the first of them; between rounds there are *)
(* none.                                                                     *)
RoundOK ==
  /\ round \in PageIds
  /\ requests \in Seq(Reads) /\ new_req \in 0 .. Len(requests)
  /\ req_state \in {"IDLE", "CREATE"}
  /\ req_state = "IDLE" => requests = << >> /\ new_req = 0
  /\ req_state = "CREATE" => requests = RequestsFor[round] /\ asked = SubSeq(requests, 1, new_req)

QueueOK == queue \in Seq(Reads) /\ Len(queue) < QueueSlots

LineOK ==
  /\ writes \in Seq(Writes) /\ Len(writes) < QueueSlots
  /\ current_req \in Reads \cup Writes \cup {None}

PageOK == page \in PageIds /\ Len(screenLast) = Len(ScreenEntries)

PollInv ==
  /\ RoundOK /\ QueueOK /\ LineOK /\ PageOK
  /\ DOMAIN device = Keys /\ DOMAIN cache = Keys

LEMMA EntriesOfPage ==
  ASSUME NEW p \in PageIds
  PROVE  PageEntries(p) \in Seq(Entry) /\ PollingAddresses(p) \in Seq(Entry)
<1> DEFINE es == PageEntries(p)
<1>1. es \in Seq(Entry)
  <2>1. <<Alarm>> \in Seq(Entry)
    BY PagesAssumption
  <2>2. p # AlarmPage => p \in DOMAIN Pages
    BY DEF PageIds
  <2>. QED BY <2>1, <2>2, PagesAssumption DEF PageEntries
<1> HIDE DEF es
<1>2. es \o <<Alarm>> \in Seq(Entry)
  BY <1>1, PagesAssumption
<1> DEFINE fs == es \o <<Alarm>>
           n == IF Len(es) < MaxAddrList THEN Len(es) + 1 ELSE MaxAddrList
<1>3. PollingAddresses(p) = SubSeq(fs, 1, n)
  BY DEF PollingAddresses, es
<1>4. Len(fs) = Len(es) + 1 /\ Len(es) \in Nat
  BY <1>1, PagesAssumption
<1>5. n \in 0 .. Len(fs)
  BY <1>4, PagesAssumption
<1> HIDE DEF fs, n
<1>6. SubSeq(fs, 1, n) \in Seq(Entry)
  BY <1>2, <1>5 DEF fs
<1>. QED BY <1>1, <1>3, <1>6 DEF es

LEMMA RequestsOfPage ==
  /\ \A p \in PageIds : RequestsFor[p] = GenerateRequests(PollingAddresses(p))
  /\ \A p \in PageIds : RequestsFor[p] \in Seq(Reads)
<1>1. \A p \in PageIds : RequestsFor[p] = GenerateRequests(PollingAddresses(p))
  BY DEF RequestsFor
<1>2. ASSUME NEW p \in PageIds PROVE RequestsFor[p] \in Seq(Reads)
  <2> DEFINE rs == RequestsFor[p]
  <2>1. rs \in Seq(PB!Request)
    BY <1>1, EntriesOfPage, RequestsOfEntries
  <2>2. ToSet(rs) \subseteq Reads
    BY DEF Reads
  <2> HIDE DEF rs
  <2>3. \A i \in 1 .. Len(rs) : rs[i] \in ToSet(rs)
    BY <2>1 DEF ToSet
  <2>4. \A i \in 1 .. Len(rs) : rs[i] \in Reads
    BY <2>2, <2>3
  <2>5. rs \in Seq(Reads)
    BY <2>1, <2>4
  <2>. QED BY <2>5 DEF rs
<1>. QED BY <1>1, <1>2

LEMMA ValuesLength ==
  ASSUME NEW es \in Seq(Entry)
  PROVE  Len(Unreported(es)) = Len(es) /\ \A m : Len(ValuesIn(m, es)) = Len(es)
<1> DEFINE n == Len(es)
<1>1. n \in Nat
  OBVIOUS
<1>2. Unreported(es) = [i \in 1 .. n |-> NotReported] /\ \A m : ValuesIn(m, es) = [i \in 1 .. n |-> ValueIn(m, es[i])]
  BY DEF Unreported, ValuesIn
<1> HIDE DEF n
<1>3. Len([i \in 1 .. n |-> NotReported]) = n
  BY <1>1
<1>4. ASSUME NEW m PROVE Len(ValuesIn(m, es)) = n
  <2> DEFINE v == [i \in 1 .. n |-> ValueIn(m, es[i])]
  <2>1. DOMAIN v = 1 .. n /\ v \in [1 .. n -> {v[i] : i \in 1 .. n}]
    OBVIOUS
  <2> HIDE DEF v
  <2>2. v \in Seq({v[i] : i \in 1 .. n}) /\ Len(v) = n
    BY <1>1, <2>1
  <2>. QED BY <1>2, <2>2 DEF v
<1>. QED BY <1>2, <1>3, <1>4 DEF n

LEMMA Concatenated ==
  ASSUME NEW S, NEW s \in Seq(S), NEW t \in Seq(S)
  PROVE  /\ s \o t \in Seq(S) /\ Len(s \o t) = Len(s) + Len(t)
         /\ \A i \in 1 .. Len(s) : (s \o t)[i] = s[i]
         /\ \A i \in Len(s) + 1 .. Len(s) + Len(t) : (s \o t)[i] = t[i - Len(s)]
OBVIOUS

(* The first k of s and n of the rest are the first k + n of s.              *)
LEMMA FirstOfRest ==
  ASSUME NEW S, NEW s \in Seq(S), NEW k \in 0 .. Len(s), NEW n \in 0 .. Len(s) - k,
         NEW rest, rest = SubSeq(s, k + 1, Len(s))
  PROVE  /\ rest \in Seq(S) /\ Len(rest) = Len(s) - k
         /\ SubSeq(rest, 1, n) \in Seq(S) /\ Len(SubSeq(rest, 1, n)) = n
         /\ SubSeq(s, 1, k) \o SubSeq(rest, 1, n) = SubSeq(s, 1, k + n)
<1> DEFINE t == SubSeq(rest, 1, n)
           u == SubSeq(s, 1, k)
           v == SubSeq(s, 1, k + n)
           l == Len(s)
<1>1. l \in Nat /\ k \in Nat /\ n \in Nat /\ k <= l /\ k + n <= l
  OBVIOUS
<1>2. rest \in Seq(S) /\ Len(rest) = l - k /\ \A i \in 1 .. l - k : rest[i] = s[i + k]
  BY <1>1
<1>3. t \in Seq(S) /\ Len(t) = n /\ \A i \in 1 .. n : t[i] = rest[i]
  BY <1>1, <1>2
<1>4. u \in Seq(S) /\ Len(u) = k /\ \A i \in 1 .. k : u[i] = s[i]
  BY <1>1
<1>5. v \in Seq(S) /\ Len(v) = k + n /\ \A i \in 1 .. k + n : v[i] = s[i]
  BY <1>1
<1> HIDE DEF t, u, v, l
<1>6. u \o t = v
  <2>1. /\ u \o t \in Seq(S) /\ Len(u \o t) = Len(u) + Len(t)
        /\ \A i \in 1 .. Len(u) : (u \o t)[i] = u[i]
        /\ \A i \in Len(u) + 1 .. Len(u) + Len(t) : (u \o t)[i] = t[i - Len(u)]
    BY <1>3, <1>4, Concatenated
  <2>2. Len(u) = k /\ Len(t) = n /\ Len(v) = k + n
    BY <1>3, <1>4, <1>5
  <2> DEFINE w == u \o t
  <2>3. /\ w \in Seq(S) /\ Len(w) = k + n
        /\ \A i \in 1 .. k : w[i] = u[i]
        /\ \A i \in k + 1 .. k + n : w[i] = t[i - k]
    BY <2>1, <2>2
  <2> HIDE DEF w
  <2>4. \A i \in 1 .. k + n : w[i] = v[i]
    <3>1. ASSUME NEW i \in 1 .. k + n PROVE w[i] = v[i]
      <4>1. CASE i \in 1 .. k
        BY <1>1, <1>4, <1>5, <2>3, <4>1
      <4>2. CASE i \in k + 1 .. k + n
        <5>1. i - k \in 1 .. n /\ i - k \in 1 .. l - k /\ (i - k) + k = i
          BY <1>1, <4>2
        <5>2. w[i] = rest[i - k]
          BY <1>3, <2>3, <4>2, <5>1
        <5>3. rest[i - k] = s[i]
          BY <1>2, <5>1
        <5>. QED BY <1>5, <5>2, <5>3
      <4>. QED BY <1>1, <4>1, <4>2
    <3>. QED BY <3>1
  <2>5. w = v
    BY <1>5, <2>2, <2>3, <2>4, SeqEqual
  <2>. QED BY <2>5 DEF w
<1>. QED BY <1>2, <1>3, <1>6 DEF t, u, v, l

(* What a call of add_menu_polltask queues: the next n requests of the round. *)
LEMMA CallQueues ==
  ASSUME PollInv, CreateRequests
  PROVE  LET rest == SubSeq(requests, new_req + 1, Len(requests))
             n == IF Len(rest) <= Room THEN Len(rest) ELSE Room
         IN /\ n \in Nat /\ Len(rest) = Len(requests) - new_req /\ n <= Len(rest) /\ Advance(n, Len(rest))
            /\ asked' = SubSeq(requests, 1, new_req + n)
            /\ queue' \in Seq(Reads) /\ Len(queue') = Len(queue) + n
            /\ n <= QueueSlots - 1 - Len(queue)
<1> DEFINE rest == SubSeq(requests, new_req + 1, Len(requests))
           n == IF Len(rest) <= Room THEN Len(rest) ELSE Room
           t == SubSeq(rest, 1, n)
<1>1. /\ requests \in Seq(Reads) /\ new_req \in 0 .. Len(requests) /\ Len(requests) \in Nat
      /\ queue \in Seq(Reads) /\ Len(queue) < QueueSlots /\ Len(queue) \in Nat
      /\ asked = SubSeq(requests, 1, new_req)
  <2>1. RoundOK /\ QueueOK /\ req_state = "CREATE"
    BY DEF PollInv, CreateRequests
  <2>. QED BY <2>1 DEF RoundOK, QueueOK
<1>2. Room \in Nat /\ Room = QueueSlots - 1 - Len(queue)
  BY <1>1, QueueAssumption DEF Room
<1>3. Advance(n, Len(rest)) /\ queue' = queue \o t /\ asked' = asked \o t
  BY DEF CreateRequests
<1> HIDE DEF n
<1>4. Len(rest) = Len(requests) - new_req
  BY <1>1
<1> HIDE DEF rest
<1>5. Len(rest) \in Nat /\ n \in 0 .. Len(rest) /\ n <= Room
  BY <1>1, <1>2, <1>4 DEF n
<1>6. n \in 0 .. Len(requests) - new_req
  BY <1>4, <1>5
<1>7. t \in Seq(Reads) /\ Len(t) = n /\ SubSeq(requests, 1, new_req) \o t = SubSeq(requests, 1, new_req + n)
  BY <1>1, <1>6, FirstOfRest DEF rest
<1> HIDE DEF t
<1>8. queue \o t \in Seq(Reads) /\ Len(queue \o t) = Len(queue) + n
  BY <1>1, <1>7, Concatenated
<1>9. n \in Nat /\ n <= Len(rest)
  BY <1>5
<1>. QED BY <1>1, <1>2, <1>3, <1>4, <1>5, <1>7, <1>8, <1>9 DEF n, rest

LEMMA CreateKeeps ==
  ASSUME PollInv, CreateRequests
  PROVE  PollInv'
<1> DEFINE rest == SubSeq(requests, new_req + 1, Len(requests))
           n == IF Len(rest) <= Room THEN Len(rest) ELSE Room
           l == Len(requests)
           m == Len(queue)
<1>1. /\ n \in Nat /\ Len(rest) = l - new_req /\ n <= Len(rest) /\ Advance(n, Len(rest))
      /\ asked' = SubSeq(requests, 1, new_req + n)
      /\ queue' \in Seq(Reads) /\ Len(queue') = m + n
      /\ n <= QueueSlots - 1 - m
  BY CallQueues
<1>2. /\ requests \in Seq(Reads) /\ new_req \in 0 .. l /\ l \in Nat /\ m \in Nat /\ round \in PageIds
      /\ req_state = "CREATE" /\ requests = RequestsFor[round]
  BY DEF PollInv, RoundOK, QueueOK, CreateRequests
<1> HIDE DEF n, l, m
<1>3. m + n < QueueSlots /\ QueueSlots \in Nat
  BY <1>1, <1>2, QueueAssumption
<1>4. QueueOK'
  BY <1>1, <1>3 DEF QueueOK
<1>5. UNCHANGED <<device, cache, writes, current_req, page, screenLast, round>>
  BY DEF CreateRequests, reporting
<1>6. PageOK' /\ LineOK' /\ DOMAIN device' = Keys /\ DOMAIN cache' = Keys
  BY <1>5 DEF PollInv, PageOK, LineOK, ScreenEntries
<1>7. RoundOK'
  <2>1. CASE n = Len(rest)
    <3>1. new_req' = 0 /\ requests' = << >> /\ req_state' = "IDLE"
      BY <1>1, <2>1 DEF Advance
    <3>. QED BY <1>2, <1>5, <3>1 DEF RoundOK
  <2>2. CASE n # Len(rest)
    <3>1. new_req' = new_req + n /\ UNCHANGED <<requests, req_state>>
      BY <1>1, <2>2 DEF Advance
    <3>2. new_req' \in 0 .. l
      BY <1>1, <1>2, <3>1
    <3>. QED BY <1>1, <1>2, <1>5, <3>1, <3>2 DEF RoundOK, l
  <2>. QED BY <2>1, <2>2
<1>. QED BY <1>4, <1>6, <1>7 DEF PollInv

LEMMA PageKeeps ==
  ASSUME PageOK, CheckAndUpdateValues
  PROVE  PageOK'
<1>1. ScreenEntries \in Seq(Entry)
  BY EntriesOfPage DEF PageOK, ScreenEntries
<1>2. CASE page' = AlarmPage /\ Register(AlarmPage)
  <2>1. AlarmPage \in PageIds
    BY DEF PageIds
  <2>2. PageEntries(AlarmPage) \in Seq(Entry)
    BY <2>1, EntriesOfPage
  <2>. QED BY <1>2, <2>1, <2>2, ValuesLength DEF PageOK, ScreenEntries, Register
<1>3. CASE UNCHANGED page /\ screenLast' = ValuesIn(cache, ScreenEntries)
  BY <1>1, <1>3, ValuesLength DEF PageOK, ScreenEntries
<1>. QED BY <1>2, <1>3 DEF CheckAndUpdateValues, HandleAlarm

LEMMA InvInit == Init => PollInv
<1> SUFFICES ASSUME Init PROVE PollInv
  OBVIOUS
<1>1. page \in DOMAIN Pages /\ page \in PageIds /\ page # AlarmPage
  BY PagesAssumption DEF Init, PageIds
<1>2. PageEntries(page) \in Seq(Entry) /\ Pages[page] = PageEntries(page)
  BY <1>1, EntriesOfPage DEF PageEntries
<1>3. PageOK
  BY <1>1, <1>2, ValuesLength DEF Init, PageOK, ScreenEntries
<1>4. QueueOK
  BY QueueAssumption DEF Init, QueueOK
<1>5. RoundOK
  BY <1>1 DEF Init, RoundOK
<1>6. LineOK
  BY QueueAssumption DEF Init, LineOK
<1>7. DOMAIN device = Keys
  BY DeviceAssumption DEF Init, Keys
<1>. QED BY <1>3, <1>4, <1>5, <1>6, <1>7 DEF Init, PollInv

(* The write that WriteValue queues is one of Writes. *)
LEMMA WriteKeeps ==
  ASSUME PollInv, NEW p \in DOMAIN Pages, NEW e \in Items[p], NEW v \in ValuesOf(e), WriteValue(e, v)
  PROVE  /\ RoundOK' /\ QueueOK' /\ LineOK' /\ PageOK'
         /\ DOMAIN device' = Keys
<1>1. WriteOf(e, v) \in Writes
  BY DEF Writes
<1>2. writes \in Seq(Writes) /\ Len(writes) < QueueSlots /\ Len(writes) \in Nat
  BY DEF PollInv, LineOK
<1> DEFINE w == WriteOf(e, v)
<1> HIDE DEF w
<1>3. writes' \in Seq(Writes) /\ Len(writes') < QueueSlots
  <2>1. Append(writes, w) \in Seq(Writes) /\ Len(Append(writes, w)) = Len(writes) + 1
    BY <1>1, <1>2 DEF w
  <2>2. writes' = IF Len(writes) < QueueSlots - 1 THEN Append(writes, w) ELSE writes
    BY DEF WriteValue, w
  <2>. QED BY <1>2, <2>1, <2>2, QueueAssumption
<1>4. UNCHANGED <<device, queue, current_req, page, req_state, requests, new_req, screenLast, round, asked>>
  BY DEF WriteValue, reporting, creating
<1>. QED BY <1>3, <1>4 DEF PollInv, RoundOK, QueueOK, LineOK, PageOK, ScreenEntries

LEMMA CoilValues ==
  ASSUME NEW e, e.type = "BIT"
  PROVE  <<0>> \in ValuesOf(e) /\ <<1>> \in ValuesOf(e)
<1>1. <<0>> \in [1 .. 1 -> {0, 1}] /\ <<1>> \in [1 .. 1 -> {0, 1}]
  OBVIOUS
<1>. QED BY <1>1 DEF ValuesOf

LEMMA LineKeeps ==
  ASSUME PollInv, Take \/ Answered \/ GivenUp
  PROVE  PollInv'
<1>1. /\ queue \in Seq(Reads) /\ Len(queue) < QueueSlots /\ Len(queue) \in Nat
      /\ writes \in Seq(Writes) /\ Len(writes) < QueueSlots /\ Len(writes) \in Nat
      /\ DOMAIN device = Keys /\ DOMAIN cache = Keys
  BY DEF PollInv, QueueOK, LineOK
<1>2. UNCHANGED <<page, screenLast, req_state, requests, new_req, round, asked>>
  BY DEF Take, Answered, GivenUp, reporting, creating, history
<1>3. RoundOK' /\ PageOK'
  BY <1>2 DEF PollInv, RoundOK, PageOK, ScreenEntries
<1>4. CASE Take
  <2>1. UNCHANGED <<device, cache>>
    BY <1>4 DEF Take
  <2>2. CASE writes # << >> /\ current_req' = Head(writes) /\ writes' = Tail(writes) /\ UNCHANGED queue
    <3>1. Head(writes) \in Writes /\ Tail(writes) \in Seq(Writes) /\ Len(Tail(writes)) = Len(writes) - 1
      BY <1>1, <2>2
    <3>. QED BY <1>1, <1>3, <2>1, <2>2, <3>1, QueueAssumption DEF PollInv, QueueOK, LineOK
  <2>3. CASE queue # << >> /\ current_req' = Head(queue) /\ queue' = Tail(queue) /\ UNCHANGED writes
    <3>1. Head(queue) \in Reads /\ Tail(queue) \in Seq(Reads) /\ Len(Tail(queue)) = Len(queue) - 1
      BY <1>1, <2>3
    <3>. QED BY <1>1, <1>3, <2>1, <2>3, <3>1, QueueAssumption DEF PollInv, QueueOK, LineOK
  <2>. QED BY <1>4, <2>2, <2>3 DEF Take
<1>5. CASE Answered \/ GivenUp
  <2>1. current_req' = None /\ UNCHANGED <<queue, writes>>
    BY <1>5 DEF Answered, GivenUp
  <2>2. DOMAIN CarriedOut(current_req) = Keys
    BY DEF CarriedOut
  <2>3. DOMAIN device' = Keys
    BY <1>1, <1>5, <2>2 DEF Answered, GivenUp
  <2>4. DOMAIN cache' = Keys
    BY <1>1, <1>5 DEF Answered, GivenUp, Store
  <2>5. QueueOK' /\ LineOK'
    BY <1>1, <2>1 DEF QueueOK, LineOK
  <2>. QED BY <1>3, <2>3, <2>4, <2>5 DEF PollInv
<1>. QED BY <1>4, <1>5

LEMMA InvNext == PollInv /\ [Next]_vars => PollInv'
<1> SUFFICES ASSUME PollInv, [Next]_vars PROVE PollInv'
  OBVIOUS
<1>1. CASE UNCHANGED vars
  BY <1>1 DEF vars, line, reporting, creating, history, PollInv, RoundOK, QueueOK, LineOK, PageOK,
    ScreenEntries
<1>2. ASSUME NEW p \in PageIds, OpenPage(p) PROVE PollInv'
  <2>1. PageOK'
    BY <1>2, EntriesOfPage, ValuesLength DEF OpenPage, Register, PageOK, ScreenEntries
  <2>. QED BY <1>2, <2>1 DEF OpenPage, line, creating, history, PollInv, RoundOK, QueueOK, LineOK
<1>3. CASE StartRound
  <2>1. page \in PageIds /\ requests' \in Seq(Reads) /\ requests' = RequestsFor[page]
    BY <1>3, RequestsOfPage DEF StartRound, PollInv, PageOK
  <2>2. /\ new_req' = 0 /\ req_state' = "CREATE" /\ round' = page /\ asked' = << >>
        /\ UNCHANGED <<device, cache, queue, writes, current_req, page, screenLast>>
    BY <1>3 DEF StartRound, line, reporting, PollInv, RoundOK
  <2>3. asked' = SubSeq(requests', 1, new_req')
    BY <2>1, <2>2
  <2>4. RoundOK'
    BY <2>1, <2>2, <2>3 DEF RoundOK
  <2>. QED BY <2>2, <2>4 DEF PollInv, QueueOK, LineOK, PageOK, ScreenEntries
<1>4. CASE CreateRequests
  BY <1>4, CreateKeeps
<1>5. CASE Take \/ Answered \/ GivenUp
  BY <1>5, LineKeeps
<1>6. CASE DeviceChanges
  <2>1. DOMAIN device' = Keys
    BY <1>6 DEF DeviceChanges, PollInv
  <2>. QED BY <1>6, <2>1 DEF DeviceChanges, line, reporting, creating, history, PollInv, RoundOK, QueueOK,
       LineOK, PageOK, ScreenEntries
<1>7. CASE CheckAndUpdateValues
  <2>1. PageOK'
    BY <1>7, PageKeeps DEF PollInv
  <2>2. UNCHANGED <<device, cache, line, creating, round, asked>>
    BY <1>7 DEF CheckAndUpdateValues
  <2>. QED BY <2>1, <2>2 DEF line, creating, PollInv, RoundOK, QueueOK, LineOK
<1>8. CASE SetItem
  <2>1. PICK p \in DOMAIN Pages : \E e \in Items[p] : \E v \in ValuesOf(e) :
          WriteValue(e, v) /\ Store(WordsOf(e, v))
    BY <1>8 DEF SetItem
  <2>2. PICK e \in Items[p] : \E v \in ValuesOf(e) : WriteValue(e, v) /\ Store(WordsOf(e, v))
    BY <2>1
  <2>3. PICK v \in ValuesOf(e) : WriteValue(e, v) /\ Store(WordsOf(e, v))
    BY <2>2
  <2>4. DOMAIN cache' = Keys
    BY <2>3 DEF Store
  <2>. QED BY <2>3, <2>4, WriteKeeps DEF PollInv
<1>9. CASE SwitchOutput
  <2>1. page \in DOMAIN Pages /\ UNCHANGED cache
    BY <1>9, ItemsAssumption DEF SwitchOutput
  <2>2. PICK e \in Items[page] :
          e.type = "BIT" /\ WriteValue(e, IF ValueIn(cache, e)[1] = 0 THEN <<1>> ELSE <<0>>)
    BY <1>9 DEF SwitchOutput
  <2> DEFINE v == IF ValueIn(cache, e)[1] = 0 THEN <<1>> ELSE <<0>>
  <2>3. v \in ValuesOf(e) /\ WriteValue(e, v)
    BY <2>2, CoilValues
  <2> HIDE DEF v
  <2>4. /\ RoundOK' /\ QueueOK' /\ LineOK' /\ PageOK'
        /\ DOMAIN device' = Keys
    BY <2>1, <2>3, WriteKeeps
  <2>. QED BY <2>1, <2>4 DEF PollInv
<1>. QED BY <1>1, <1>2, <1>3, <1>4, <1>5, <1>6, <1>7, <1>8, <1>9 DEF Next

LEMMA InvAlways == Spec => []PollInv
BY InvInit, InvNext, PTL DEF Spec

(* Every variable keeps its type for all pages, limits and queues: the queue *)
(* of reads holds requests of rounds only, that of writes what the user set, *)
(* neither fills its ring, and an interrupted round never loses its place.   *)
THEOREM TypeCorrect == Spec => []TypeOK
<1>1. PollInv => TypeOK
  <2> SUFFICES ASSUME PollInv PROVE TypeOK
    OBVIOUS
  <2>1. queue \in Seq(Reads) /\ Len(queue) < QueueSlots
    BY DEF PollInv, QueueOK
  <2>2. ToSet(queue) \subseteq Reads
    BY <2>1 DEF ToSet
  <2>3. writes \in Seq(Writes) /\ Len(writes) < QueueSlots
    BY DEF PollInv, LineOK
  <2>4. ToSet(writes) \subseteq Writes
    BY <2>3 DEF ToSet
  <2>. QED BY <2>1, <2>2, <2>3, <2>4 DEF PollInv, RoundOK, LineOK, PageOK, TypeOK
<1>. QED BY <1>1, InvAlways, PTL

(* However often the queue refuses a read, a round ends only when exactly    *)
(* the requests it was made of are queued, each once and in order.           *)
THEOREM RoundsAreComplete == Spec => RoundsComplete
<1>1. PollInv /\ [Next]_vars =>
        [req_state = "CREATE" /\ req_state' = "IDLE" => asked' = RequestsFor[round]]_vars
  <2> SUFFICES ASSUME PollInv, Next, req_state = "CREATE", req_state' = "IDLE"
               PROVE  asked' = RequestsFor[round]
    OBVIOUS
  <2>1. CreateRequests
    BY DEF Next, OpenPage, SetItem, SwitchOutput, WriteValue, StartRound, Take, Answered, GivenUp,
      DeviceChanges, CheckAndUpdateValues, creating
  <2> DEFINE rest == SubSeq(requests, new_req + 1, Len(requests))
             n == IF Len(rest) <= Room THEN Len(rest) ELSE Room
  <2>2. /\ n \in Nat /\ Len(rest) = Len(requests) - new_req /\ Advance(n, Len(rest))
        /\ asked' = SubSeq(requests, 1, new_req + n)
    BY <2>1, CallQueues
  <2>3. /\ requests \in Seq(Reads) /\ new_req \in 0 .. Len(requests) /\ Len(requests) \in Nat
        /\ requests = RequestsFor[round]
    BY DEF PollInv, RoundOK
  <2> HIDE DEF rest, n
  <2>4. n = Len(rest)
    BY <2>2 DEF Advance
  <2>5. new_req + n = Len(requests)
    BY <2>2, <2>3, <2>4
  <2>6. SubSeq(requests, 1, Len(requests)) = requests
    BY <2>3
  <2>. QED BY <2>2, <2>3, <2>5, <2>6
<1>. QED BY <1>1, InvAlways, PTL DEF Spec, RoundsComplete
=============================================================================
