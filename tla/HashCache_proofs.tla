-------------------------- MODULE HashCache_proofs --------------------------
(***************************************************************************)
(* Proofs about the register cache, for every table size, address space    *)
(* and set of register values.                                             *)
(***************************************************************************)
EXTENDS HashCache, FiniteSetTheorems, WellFoundedInduction, TLAPS

Table == [Slot -> Node]

(* Every probe stays inside the array, and the probe of a key comes to each  *)
(* slot after exactly Distance steps (hash_cache_index and the wrap-around   *)
(* of hash_cache_find).                                                      *)
LEMMA HomeInSlot == \A k \in Key : Home(k) \in Slot
BY SizeAssumption, AddrAssumption DEF Key, Address, Home, Slot

LEMMA WrapOnce ==
  ASSUME NEW h \in Slot, NEW d \in Slot
  PROVE  (h + d) % Size = IF h + d < Size THEN h + d ELSE h + d - Size
<1>1. h \in Nat /\ d \in Nat /\ h < Size /\ d < Size
  BY SizeAssumption DEF Slot
<1>. QED BY <1>1, SizeAssumption

LEMMA ProbeValue ==
  ASSUME NEW k \in Key, NEW d \in Slot
  PROVE  /\ Probe(k, d) \in Slot
         /\ Probe(k, d) = IF Home(k) + d < Size THEN Home(k) + d ELSE Home(k) + d - Size
<1>1. Home(k) \in Slot
  BY HomeInSlot
<1>2. Probe(k, d) = IF Home(k) + d < Size THEN Home(k) + d ELSE Home(k) + d - Size
  BY <1>1, WrapOnce DEF Probe
<1>3. Probe(k, d) \in Slot
  BY <1>1, <1>2, SizeAssumption DEF Slot
<1>. QED BY <1>2, <1>3

LEMMA ProbeDistance ==
  \A k \in Key :
    /\ \A d \in Slot : Distance(k, Probe(k, d)) = d
    /\ \A s \in Slot : Distance(k, s) \in Slot /\ Probe(k, Distance(k, s)) = s
<1> SUFFICES ASSUME NEW k \in Key
             PROVE  /\ \A d \in Slot : Distance(k, Probe(k, d)) = d
                    /\ \A s \in Slot : Distance(k, s) \in Slot /\ Probe(k, Distance(k, s)) = s
  OBVIOUS
<1>1. ASSUME NEW d \in Slot PROVE Distance(k, Probe(k, d)) = d
  BY HomeInSlot, ProbeValue, SizeAssumption DEF Distance, Slot
<1>2. ASSUME NEW s \in Slot PROVE Distance(k, s) \in Slot
  BY HomeInSlot, SizeAssumption DEF Distance, Slot
<1>3. ASSUME NEW s \in Slot PROVE Probe(k, Distance(k, s)) = s
  BY <1>2, HomeInSlot, ProbeValue, SizeAssumption DEF Distance, Slot
<1>. QED BY <1>1, <1>2, <1>3
-----------------------------------------------------------------------------
(* A non-empty set of slot numbers has a least element, which First returns. *)
LEMMA FirstIsLeast ==
  ASSUME NEW S \in SUBSET Slot, S # {}
  PROVE  First(S) \in S /\ \A e \in S : First(S) <= e
<1>. DEFINE Less == {ss \in Nat \X Nat : ss[1] < ss[2]}
<1>1. S \subseteq Nat
  BY SizeAssumption DEF Slot
<1>2. IsWellFoundedOn(Less, Nat)
  BY NatLessThanWellFounded, Zenon DEF OpToRel
<1>3. PICK d \in S : \A e \in S : ~(<<e, d>> \in Less)
  <2>. HIDE DEF Less
  <2>. QED BY <1>1, <1>2, WFMin
<1>4. ASSUME NEW e \in S PROVE d <= e
  <2>1. <<e, d>> \in Nat \X Nat /\ ~(<<e, d>> \in Less)
    BY <1>1, <1>3
  <2>2. ~(e < d)
    BY <2>1
  <2>. QED BY <1>1, <2>2
<1>. QED BY <1>4 DEF First

(* What hash_cache_find returns: the first node of the probe that is free or *)
(* holds the key; it gives up only if there is no such node at all.          *)
LEMMA FindResult ==
  ASSUME NEW t \in Table, NEW k \in Key
  PROVE  /\ CanEnter(t, k) =>
              \E d \in Slot :
                /\ Find(t, k) = Probe(k, d)
                /\ ~t[Probe(k, d)].valid \/ Holds(t[Probe(k, d)], k)
                /\ \A e \in 0 .. d - 1 : t[Probe(k, e)].valid /\ t[Probe(k, e)].key # k
         /\ ~CanEnter(t, k) => \A s \in Slot : t[s].valid /\ t[s].key # k
<1>1. CASE Stops(t, k) = {}
  <2>1. ~CanEnter(t, k)
    BY <1>1 DEF CanEnter, Find
  <2>2. ASSUME NEW s \in Slot PROVE t[s].valid /\ t[s].key # k
    <3>1. Distance(k, s) \in Slot /\ Probe(k, Distance(k, s)) = s
      BY ProbeDistance
    <3>. QED BY <1>1, <3>1 DEF Stops, Holds
  <2>. QED BY <2>1, <2>2
<1>2. CASE Stops(t, k) # {}
  <2>. DEFINE d == First(Stops(t, k))
  <2>1. d \in Stops(t, k) /\ \A e \in Stops(t, k) : d <= e
    <3>1. Stops(t, k) \in SUBSET Slot
      BY DEF Stops
    <3>. QED BY <1>2, <3>1, FirstIsLeast
  <2>2. d \in Slot /\ (~t[Probe(k, d)].valid \/ Holds(t[Probe(k, d)], k))
    BY <2>1 DEF Stops
  <2>3. Find(t, k) = Probe(k, d)
    BY <1>2 DEF Find
  <2>4. CanEnter(t, k)
    BY <2>2, <2>3, ProbeValue, SizeAssumption DEF CanEnter, NoSlot, Slot
  <2>5. ASSUME NEW e \in 0 .. d - 1
        PROVE  t[Probe(k, e)].valid /\ t[Probe(k, e)].key # k
    <3>1. e \in Slot /\ ~(d <= e)
      BY <2>2, SizeAssumption DEF Slot
    <3>2. e \notin Stops(t, k)
      BY <2>1, <3>1
    <3>. QED BY <3>1, <3>2 DEF Stops, Holds
  <2>. QED BY <2>2, <2>3, <2>4, <2>5
<1>. QED BY <1>1, <1>2
-----------------------------------------------------------------------------
(* Writing a key, and entering it, keep the array well formed. *)
Binary(t) == \A s \in Slot : t[s].valid /\ t[s].key[2] => t[s].value \in {0, 1}
Intact(t) == \A s \in Slot : t[s].valid => PathIntact(t, s)

LEMMA WriteTyped ==
  ASSUME NEW t \in Table, NEW k \in Key, NEW v \in Word
  PROVE  /\ Write(t, k, v) \in Table
         /\ Enter(t, k) \in Table
         /\ Binary(t) /\ (k[2] => v \in {0, 1}) => Binary(Write(t, k, v))
         /\ Binary(t) => Binary(Enter(t, k))
<1>1. ASSUME NEW w \in Word
      PROVE  /\ Write(t, k, w) \in Table
             /\ Binary(t) /\ (k[2] => w \in {0, 1}) => Binary(Write(t, k, w))
  BY DEF Write, Table, Node, Binary
<1>2. 0 \in Word
  BY WordAssumption
<1>. QED BY <1>1, <1>2 DEF Enter

LEMMA WriteIntact ==
  ASSUME NEW t \in Table, NEW k \in Key, NEW v \in Word, Intact(t)
  PROVE  Intact(Write(t, k, v)) /\ Intact(Enter(t, k))
<1>1. ASSUME NEW w \in Word, CanEnter(t, k) PROVE Intact(Write(t, k, w))
  <2>. DEFINE u == Write(t, k, w)
  <2>1. PICK d \in Slot :
          /\ Find(t, k) = Probe(k, d)
          /\ ~t[Probe(k, d)].valid \/ Holds(t[Probe(k, d)], k)
          /\ \A e \in 0 .. d - 1 : t[Probe(k, e)].valid /\ t[Probe(k, e)].key # k
    BY <1>1, FindResult
  <2>. DEFINE p == Probe(k, d)
  <2>2. p \in Slot /\ Distance(k, p) = d
    BY ProbeValue, ProbeDistance
  <2>3. u = [t EXCEPT ![p] = [valid |-> TRUE, key |-> k, value |-> w]]
    BY <1>1, <2>1 DEF Write
  <2>4. u[p].valid /\ u[p].key = k /\ \A s \in Slot \ {p} : u[s] = t[s]
    BY <2>2, <2>3 DEF Table
  <2>5. PathIntact(u, p)
    <3>1. ASSUME NEW e \in 0 .. d - 1
          PROVE  u[Probe(k, e)].valid /\ u[Probe(k, e)].key # k
      <4>1. e \in Slot /\ e # d
        BY SizeAssumption DEF Slot
      <4>2. Probe(k, e) \in Slot \ {p}
        BY <2>2, <4>1, ProbeValue, ProbeDistance
      <4>. QED BY <2>1, <2>4, <4>2
    <3>. QED BY <2>2, <2>4, <3>1 DEF PathIntact
  <2>6. ASSUME NEW s \in Slot \ {p}, u[s].valid PROVE PathIntact(u, s)
    <3>. DEFINE j == t[s].key
    <3>1. u[s].key = j /\ t[s].valid /\ PathIntact(t, s) /\ j \in Key
      BY <2>4, <2>6 DEF Intact, Table, Node
    <3>2. ASSUME NEW e \in 0 .. Distance(j, s) - 1
          PROVE  u[Probe(j, e)].valid /\ u[Probe(j, e)].key # j
      <4>1. t[Probe(j, e)].valid /\ t[Probe(j, e)].key # j
        BY <3>1 DEF PathIntact
      <4>2. Probe(j, e) \in Slot
        <5>1. Distance(j, s) \in Slot
          BY <3>1, ProbeDistance
        <5>2. e \in Slot
          BY <5>1, SizeAssumption DEF Slot
        <5>. QED BY <3>1, <5>2, ProbeValue
      <4>3. CASE Probe(j, e) = p
        BY <2>1, <2>4, <4>1, <4>3 DEF Holds
      <4>4. CASE Probe(j, e) # p
        BY <2>4, <4>1, <4>2, <4>4
      <4>. QED BY <4>3, <4>4
    <3>. QED BY <3>1, <3>2 DEF PathIntact
  <2>. QED BY <2>5, <2>6 DEF Intact
<1>2. ASSUME NEW w \in Word PROVE Intact(Write(t, k, w))
  BY <1>1 DEF Write
<1>3. 0 \in Word
  BY WordAssumption
<1>. QED BY <1>2, <1>3 DEF Enter
-----------------------------------------------------------------------------
(* Every call leaves the array as it was, empties it, or rebuilds it by      *)
(* entering and writing keys: what holds of the blank array and is kept by   *)
(* Write and Enter holds always.                                             *)
Good(t) == t \in Table /\ Binary(t) /\ Intact(t)

LEMMA BlankGood == Good([s \in Slot |-> Blank])
<1>1. 0 \in Address
  BY AddrAssumption DEF Address
<1>2. Reg(0) \in Key /\ 0 \in Word
  BY <1>1, WordAssumption DEF Key, Reg
<1>3. Blank \in Node /\ ~Blank.valid
  BY <1>2 DEF Blank, Node
<1>. QED BY <1>3 DEF Good, Table, Binary, Intact

LEMMA WriteGood ==
  ASSUME NEW t, Good(t), NEW k \in Key, NEW v \in Word, k[2] => v \in {0, 1}
  PROVE  Good(Write(t, k, v)) /\ Good(Enter(t, k))
BY WriteTyped, WriteIntact DEF Good

LEMMA KeysOfAddress ==
  ASSUME NEW a \in Address
  PROVE  /\ Coil(a) \in Key /\ Reg(a) \in Key /\ ~Reg(a)[2]
         /\ NextAddress(a) \in Address
<1>1. NextAddress(a) \in Address
  BY AddrAssumption DEF NextAddress, Address
<1>. QED BY <1>1 DEF Coil, Reg, Key

LEMMA FetchedValue ==
  ASSUME NEW t \in Table, NEW k \in Key, Known(t, k)
  PROVE  Find(t, k) \in Slot /\ ValueAt(t, k) \in Word
<1>1. Find(t, k) \in Slot
  BY FindResult, ProbeValue DEF Known, CanEnter
<1>. QED BY <1>1 DEF ValueAt, Table, Node

(* The array always holds well-formed nodes, coils are cached as 0 or 1, and *)
(* the out-parameters receive register values.                               *)
Inv == Good(cache) /\ ret \in BOOLEAN /\ out \in Seq(Word)

LEMMA Preserved == Inv /\ [Next]_vars => Inv'
<1> SUFFICES ASSUME Inv, [Next]_vars PROVE Inv'
  OBVIOUS
<1>. USE DEF Inv
<1>0. Good(cache) /\ cache \in Table /\ << >> \in Seq(Word)
  BY DEF Good
<1>1. ASSUME NEW k \in Key, Register(k) PROVE Inv'
  <2>1. Good(Enter(cache, k))
    BY <1>0, WriteGood, WordAssumption
  <2>. QED BY <1>0, <1>1, <2>1 DEF Register, CanEnter
<1>2. ASSUME NEW k \in Key, NEW v \in Word, k[2] => v \in {0, 1}, Store(k, v)
      PROVE  Inv'
  <2>1. Good(Write(cache, k, v))
    BY <1>0, <1>2, WriteGood
  <2>. QED BY <1>0, <1>2, <2>1 DEF Store, CanEnter
<1>3. ASSUME NEW k \in Key, Fetch(k) PROVE Inv'
  <2>1. out' \in Seq(Word)
    BY <1>0, <1>3, FetchedValue DEF Fetch
  <2>. QED BY <1>0, <1>3, <2>1 DEF Fetch, Known
<1>4. ASSUME NEW k \in Key, Has(k) PROVE Inv'
  BY <1>0, <1>4 DEF Has, Known
<1>5. ASSUME NEW a \in Address, NEW b \in BOOLEAN, HashCache_SetBit(a, b) PROVE Inv'
  <2>1. BitValue(b) \in Word /\ BitValue(b) \in {0, 1} /\ Coil(a) \in Key
    BY KeysOfAddress, WordAssumption DEF BitValue
  <2>. QED BY <1>2, <1>5, <2>1 DEF HashCache_SetBit
<1>6. ASSUME NEW a \in Address, NEW low \in Word, NEW high \in Word,
             HashCache_SetDWord(a, low, high)
      PROVE  Inv'
  <2>. DEFINE lo == Reg(a)  hi == Reg(NextAddress(a))  mid == Write(cache, lo, low)
  <2>1. lo \in Key /\ hi \in Key /\ ~lo[2] /\ ~hi[2]
    BY KeysOfAddress
  <2>2. Good(mid)
    BY <1>0, <2>1, WriteGood
  <2>3. Good(Write(mid, hi, high))
    BY <2>1, <2>2, WriteGood
  <2>. QED BY <1>0, <1>6, <2>3 DEF HashCache_SetDWord, CanEnter
<1>7. ASSUME NEW a \in Address, HashCache_GetDWord(a) PROVE Inv'
  <2>. DEFINE lo == Reg(a)  hi == Reg(NextAddress(a))
  <2>1. lo \in Key /\ hi \in Key
    BY KeysOfAddress
  <2>2. out' \in Seq(Word)
    BY <1>0, <1>7, <2>1, FetchedValue DEF HashCache_GetDWord
  <2>. QED BY <1>0, <1>7, <2>2 DEF HashCache_GetDWord, Known
<1>8. CASE HashCache_Init
  BY <1>0, <1>8, BlankGood DEF HashCache_Init
<1>9. ASSUME NEW a \in Address, DeviceStorage_ToggleBit(a) PROVE Inv'
  BY <1>5, <1>9 DEF DeviceStorage_ToggleBit
<1>10. CASE UNCHANGED vars
  BY <1>10 DEF vars, Good, Table, Binary, Intact, PathIntact
<1>. QED
  BY <1>1, <1>2, <1>3, <1>4, <1>5, <1>6, <1>7, <1>8, <1>9, <1>10, KeysOfAddress
  DEF Next, HashCache_RegisterBit, HashCache_RegisterWord, HashCache_GetBit,
      HashCache_GetWord, HashCache_HasBit, HashCache_HasWord, HashCache_SetWord

LEMMA Initially == Init => Inv
BY BlankGood DEF Init, Inv

THEOREM Invariant == Spec => []Inv
BY Initially, Preserved, PTL DEF Spec

(* The type invariant of HashCache for every size of the table.              *)
THEOREM TypeCorrect == Spec => []TypeOK
<1>1. Inv => TypeOK
  BY DEF Inv, Good, Table, Binary, TypeOK
<1>. QED BY <1>1, Invariant, PTL

(* Every entry can be found again: hash_cache_find never stops short of an   *)
(* entry and never finds an older copy of it, whatever was entered before.   *)
THEOREM EntriesReachable == Spec => []Reachable
<1>1. Inv => Reachable
  BY DEF Inv, Good, Intact, Reachable
<1>. QED BY <1>1, Invariant, PTL
-----------------------------------------------------------------------------
(* The array implements AddressTable.                                        *)

(* A key is known exactly if some node holds it, and that node is the one    *)
(* hash_cache_find returns.                                                  *)
LEMMA FindHeld ==
  ASSUME NEW t, Good(t), NEW s \in Slot, t[s].valid
  PROVE  t[s].key \in Key /\ Find(t, t[s].key) = s /\ Known(t, t[s].key)
<1>. DEFINE k == t[s].key  D == Distance(k, s)
<1>1. k \in Key /\ t \in Table /\ PathIntact(t, s)
  BY DEF Good, Table, Node, Intact
<1>2. D \in Slot /\ Probe(k, D) = s
  BY <1>1, ProbeDistance
<1>3. D \in Stops(t, k)
  BY <1>2 DEF Stops, Holds
<1>4. Stops(t, k) \in SUBSET Slot
  BY DEF Stops
<1>5. First(Stops(t, k)) \in Stops(t, k) /\ First(Stops(t, k)) <= D
  BY <1>3, <1>4, FirstIsLeast
<1>6. First(Stops(t, k)) = D
  <2>1. SUFFICES ASSUME First(Stops(t, k)) # D PROVE FALSE
    OBVIOUS
  <2>2. First(Stops(t, k)) \in 0 .. D - 1
    BY <1>2, <1>4, <1>5, <2>1, SizeAssumption DEF Slot
  <2>3. First(Stops(t, k)) \notin Stops(t, k)
    BY <1>1, <2>2 DEF PathIntact, Stops, Holds
  <2>. QED BY <1>5, <2>3
<1>7. Find(t, k) = s
  BY <1>2, <1>3, <1>6 DEF Find
<1>. QED BY <1>1, <1>7, SizeAssumption DEF Known, NoSlot, Slot

LEMMA KnownHeld ==
  ASSUME NEW t \in Table, NEW k \in Key, Known(t, k)
  PROVE  Find(t, k) \in Slot /\ t[Find(t, k)].valid /\ t[Find(t, k)].key = k
<1>1. PICK d \in Slot : /\ Find(t, k) = Probe(k, d)
                        /\ ~t[Probe(k, d)].valid \/ Holds(t[Probe(k, d)], k)
  BY FindResult DEF Known, CanEnter
<1>. QED BY <1>1, ProbeValue DEF Known, Holds

(* Writing a key changes what is known of this key and of no other.          *)
LEMMA WriteContents ==
  ASSUME NEW t, Good(t), NEW k \in Key, NEW v \in Word, k[2] => v \in {0, 1},
         CanEnter(t, k)
  PROVE  Contents(Write(t, k, v)) = Abstract!Put(Contents(t), k, v)
<1>. DEFINE u == Write(t, k, v)  p == Find(t, k)
<1>1. t \in Table /\ u \in Table /\ Good(u)
  BY WriteGood DEF Good
<1>2. p \in Slot /\ (t[p].valid => t[p].key = k)
  BY <1>1, FindResult, ProbeValue DEF Holds
<1>3. u = [t EXCEPT ![p] = [valid |-> TRUE, key |-> k, value |-> v]]
  BY DEF Write
<1>4. /\ u[p].valid /\ u[p].key = k /\ u[p].value = v
      /\ \A s \in Slot \ {p} : u[s] = t[s]
  BY <1>1, <1>2, <1>3 DEF Table
<1>5. Known(u, k) /\ ValueAt(u, k) = v
  BY <1>1, <1>2, <1>4, FindHeld DEF ValueAt
<1>6. ASSUME NEW j \in Key, j # k
      PROVE  /\ Known(u, j) <=> Known(t, j)
             /\ Known(t, j) => ValueAt(u, j) = ValueAt(t, j)
  <2>1. ASSUME Known(t, j) PROVE Known(u, j) /\ ValueAt(u, j) = ValueAt(t, j)
    <3>. DEFINE s == Find(t, j)
    <3>1. s \in Slot /\ t[s].valid /\ t[s].key = j
      BY <1>1, <2>1, KnownHeld
    <3>2. u[s] = t[s]
      BY <1>2, <1>4, <1>6, <3>1
    <3>3. Find(u, j) = s /\ Known(u, j)
      BY <1>1, <3>1, <3>2, FindHeld
    <3>. QED BY <3>2, <3>3 DEF ValueAt
  <2>2. ASSUME Known(u, j) PROVE Known(t, j)
    <3>. DEFINE s == Find(u, j)
    <3>1. s \in Slot /\ u[s].valid /\ u[s].key = j
      BY <1>1, <2>2, KnownHeld
    <3>2. u[s] = t[s]
      BY <1>4, <1>6, <3>1
    <3>. QED BY <3>1, <3>2, FindHeld
  <2>. QED BY <2>1, <2>2
<1>7. DOMAIN Contents(u) = DOMAIN Contents(t) \cup {k}
  BY <1>5, <1>6 DEF Contents
<1>8. ASSUME NEW j \in DOMAIN Contents(u)
      PROVE  Contents(u)[j] = IF j = k THEN v ELSE Contents(t)[j]
  BY <1>5, <1>6, <1>8 DEF Contents
<1>9. Contents(u) = [j \in DOMAIN Contents(u) |-> Contents(u)[j]]
  BY DEF Contents
<1>. QED BY <1>7, <1>8, <1>9 DEF Abstract!Put

LEMMA SameCardinality == \A S : Abstract!Cardinality(S) = Cardinality(S)
BY DEF Abstract!Cardinality, Cardinality

(* A key can be entered exactly if it is there or fewer than Size keys are:  *)
(* the table reports that it is full only when it is.                        *)
LEMMA EnterRoom ==
  ASSUME NEW t, Good(t), NEW k \in Key
  PROVE  CanEnter(t, k) <=> Abstract!Room(Contents(t), k)
<1>. DEFINE D == DOMAIN Contents(t)  g == [j \in D |-> Find(t, j)]
<1>1. t \in Table /\ D = {j \in Key : Known(t, j)}
  BY DEF Good, Contents
<1>2. g \in Injection(D, Slot)
  <2>. HIDE DEF D
  <2>1. \A i, j \in D : Find(t, i) = Find(t, j) => i = j
    BY <1>1, KnownHeld
  <2>. QED BY <1>1, <2>1, KnownHeld DEF Injection, IsInjective
<1>3. IsFiniteSet(Slot) /\ Cardinality(Slot) = Size
  BY FS_Interval, SizeAssumption DEF Slot
<1>4. /\ IsFiniteSet(D) /\ Cardinality(D) <= Size
      /\ Cardinality(D) = Size <=> g \in Surjection(D, Slot)
  <2>. HIDE DEF D, g
  <2>. QED BY <1>2, <1>3, FS_Injection
<1>5. Cardinality(D) \in Nat
  BY <1>4, FS_CardinalityType
<1>6. CASE ~CanEnter(t, k)
  <2>1. \A s \in Slot : t[s].valid /\ t[s].key # k
    BY <1>1, <1>6, FindResult
  <2>2. k \notin D
    BY <1>1, <2>1, KnownHeld
  <2>3. g \in Surjection(D, Slot)
    <3>1. \A s \in Slot : t[s].key \in D /\ g[t[s].key] = s
      BY <1>1, <2>1, FindHeld
    <3>. QED BY <1>2, <3>1 DEF Surjection, Injection
  <2>. QED BY <1>4, <1>5, <1>6, <2>2, <2>3, SizeAssumption, SameCardinality DEF Abstract!Room
<1>7. CASE CanEnter(t, k) /\ Known(t, k)
  BY <1>1, <1>7 DEF Abstract!Room
<1>8. CASE CanEnter(t, k) /\ ~Known(t, k)
  <2>1. Find(t, k) \in Slot /\ ~t[Find(t, k)].valid
    BY <1>1, <1>8, FindResult, ProbeValue DEF Known, CanEnter
  <2>2. \A j \in D : g[j] # Find(t, k)
    BY <1>1, <2>1, KnownHeld
  <2>3. g \notin Surjection(D, Slot)
    BY <2>1, <2>2 DEF Surjection
  <2>. QED BY <1>4, <1>5, <1>8, <2>3, SizeAssumption, SameCardinality DEF Abstract!Room
<1>. QED BY <1>6, <1>7, <1>8
-----------------------------------------------------------------------------
LEMMA AbstractInitially == Init => Abstract!Init
<1> SUFFICES ASSUME Init PROVE Abstract!Init
  OBVIOUS
<1>1. \A s \in Slot : ~cache[s].valid
  BY DEF Init, Blank
<1>2. Good(cache)
  BY BlankGood DEF Init
<1>3. {j \in Key : Known(cache, j)} = {}
  BY <1>1, <1>2, KnownHeld DEF Good
<1>4. Contents(cache) = Abstract!Empty
  BY <1>3 DEF Contents, Abstract!Empty
<1>. QED BY <1>4 DEF Init, Abstract!Init

(* What the array holds after a call that enters or writes one key. *)
LEMMA WriteStores ==
  ASSUME NEW t, Good(t), NEW k \in Key, NEW v \in Word, k[2] => v \in {0, 1}
  PROVE  Contents(Write(t, k, v)) =
           IF Abstract!Room(Contents(t), k) THEN Abstract!Put(Contents(t), k, v)
                                            ELSE Contents(t)
BY EnterRoom, WriteContents DEF Write

LEMMA EnterStores ==
  ASSUME NEW t, Good(t), NEW k \in Key
  PROVE  Contents(Enter(t, k)) =
           IF Abstract!Room(Contents(t), k) /\ k \notin DOMAIN Contents(t)
           THEN Abstract!Put(Contents(t), k, 0) ELSE Contents(t)
<1>1. k \in DOMAIN Contents(t) <=> Known(t, k)
  BY DEF Contents
<1>2. 0 \in Word
  BY WordAssumption
<1>. QED BY <1>1, <1>2, WriteStores DEF Enter

LEMMA KnownContents ==
  ASSUME NEW t, NEW k \in Key
  PROVE  /\ k \in DOMAIN Contents(t) <=> Known(t, k)
         /\ Known(t, k) => Contents(t)[k] = ValueAt(t, k)
BY DEF Contents

LEMMA ContentsAfter ==
  ASSUME NEW t, cache' = t PROVE Contents(cache)' = Contents(t)
BY DEF Contents, Known, ValueAt, Find, First, Stops, Holds

(* Every call on the array is a call on the map.                             *)
LEMMA StepRefines ==
  Inv /\ [Next]_vars => [Abstract!Next]_Abstract!vars
<1> SUFFICES ASSUME Inv, [Next]_vars PROVE [Abstract!Next]_Abstract!vars
  OBVIOUS
<1>0. Good(cache) /\ cache \in Table
  BY DEF Inv, Good
<1>1. ASSUME NEW k \in Key, Register(k) PROVE Abstract!Next
  <2>1. Contents(cache)' = Contents(Enter(cache, k))
    BY <1>1, ContentsAfter DEF Register
  <2>2. ret' = Abstract!Room(Contents(cache), k)
    BY <1>0, <1>1, EnterRoom DEF Register, CanEnter, Abstract!Room
  <2>3. Abstract!Register(k)
    BY <1>0, <1>1, <2>1, <2>2, EnterStores DEF Register, Abstract!Register
  <2>. QED BY <2>3 DEF Abstract!Next
<1>2. ASSUME NEW k \in Key, NEW v \in Word, k[2] => v \in {0, 1}, Store(k, v)
      PROVE  Abstract!Next
  <2>1. Contents(cache)' = Contents(Write(cache, k, v))
    BY <1>2, ContentsAfter DEF Store
  <2>2. ret' = Abstract!Room(Contents(cache), k)
    BY <1>0, <1>2, EnterRoom DEF Store, CanEnter, Abstract!Room
  <2>3. Abstract!Store(k, v)
    BY <1>0, <1>2, <2>1, <2>2, WriteStores DEF Store, Abstract!Store
  <2>. QED BY <2>3 DEF Abstract!Next
<1>3. ASSUME NEW k \in Key, Fetch(k) PROVE Abstract!Next
  <2>1. UNCHANGED Contents(cache)
    BY <1>3, ContentsAfter DEF Fetch
  <2>2. ret' = (k \in DOMAIN Contents(cache))
    BY <1>3, KnownContents DEF Fetch, Known
  <2>3. Abstract!Read(k)
    BY <1>3, <2>1, <2>2, KnownContents DEF Fetch, Abstract!Read
  <2>. QED BY <2>3 DEF Abstract!Next
<1>4. ASSUME NEW k \in Key, Has(k) PROVE Abstract!Next
  <2>1. UNCHANGED Contents(cache)
    BY <1>4, ContentsAfter DEF Has
  <2>2. ret' = (k \in DOMAIN Contents(cache))
    BY <1>4, KnownContents DEF Has, Known
  <2>3. Abstract!Has(k)
    BY <1>4, <2>1, <2>2 DEF Has, Abstract!Has
  <2>. QED BY <2>3 DEF Abstract!Next
<1>5. ASSUME NEW a \in Address, NEW b \in BOOLEAN, HashCache_SetBit(a, b)
      PROVE  Abstract!Next
  <2>1. BitValue(b) \in Word /\ BitValue(b) \in {0, 1} /\ Coil(a) \in Key
    BY KeysOfAddress, WordAssumption DEF BitValue
  <2>. QED BY <1>2, <1>5, <2>1 DEF HashCache_SetBit
<1>6. ASSUME NEW a \in Address, NEW low \in Word, NEW high \in Word,
             HashCache_SetDWord(a, low, high)
      PROVE  Abstract!Next
  <2>. DEFINE lo == Reg(a)  hi == Reg(NextAddress(a))  mid == Write(cache, lo, low)
  <2>1. lo \in Key /\ hi \in Key /\ ~lo[2] /\ ~hi[2]
    BY KeysOfAddress
  <2>2. Good(mid)
    BY <1>0, <2>1, WriteGood
  <2>3. /\ CanEnter(cache, lo) <=> Abstract!Room(Contents(cache), lo)
        /\ CanEnter(mid, hi) <=> Abstract!Room(Contents(mid), hi)
    BY <1>0, <2>1, <2>2, EnterRoom
  <2>4. CanEnter(cache, lo) =>
          Contents(mid) = Abstract!Put(Contents(cache), lo, low)
    BY <1>0, <2>1, WriteContents
  <2>5. Contents(Write(mid, hi, high)) =
          IF CanEnter(mid, hi) THEN Abstract!Put(Contents(mid), hi, high)
                               ELSE Contents(mid)
    BY <2>1, <2>2, <2>3, WriteStores
  <2>6. /\ cache' = IF CanEnter(cache, lo) THEN Write(mid, hi, high) ELSE cache
        /\ ret' = (CanEnter(cache, lo) /\ CanEnter(mid, hi))
        /\ out' = << >>
        /\ Contents(cache)' = Contents(IF CanEnter(cache, lo) THEN Write(mid, hi, high)
                                                              ELSE cache)
    BY <1>6, ContentsAfter DEF HashCache_SetDWord
  <2>7. Abstract!StorePair(lo, hi, low, high)
    <3>. HIDE DEF lo, hi, mid
    <3>1. CASE ~CanEnter(cache, lo)
      BY <2>3, <2>6, <3>1 DEF Abstract!StorePair
    <3>2. CASE CanEnter(cache, lo) /\ ~CanEnter(mid, hi)
      BY <2>3, <2>4, <2>5, <2>6, <3>2 DEF Abstract!StorePair
    <3>3. CASE CanEnter(cache, lo) /\ CanEnter(mid, hi)
      BY <2>3, <2>4, <2>5, <2>6, <3>3 DEF Abstract!StorePair
    <3>. QED BY <3>1, <3>2, <3>3
  <2>. QED BY <2>1, <2>7 DEF Abstract!Next
<1>7. ASSUME NEW a \in Address, HashCache_GetDWord(a) PROVE Abstract!Next
  <2>. DEFINE lo == Reg(a)  hi == Reg(NextAddress(a))
  <2>1. lo \in Key /\ hi \in Key
    BY KeysOfAddress
  <2>2. UNCHANGED Contents(cache)
    BY <1>7, ContentsAfter DEF HashCache_GetDWord
  <2>3. {lo, hi} \subseteq DOMAIN Contents(cache) <=> Known(cache, lo) /\ Known(cache, hi)
    BY <2>1, KnownContents
  <2>4. Abstract!ReadPair(lo, hi)
    BY <1>7, <2>1, <2>2, <2>3, KnownContents DEF HashCache_GetDWord, Abstract!ReadPair
  <2>. QED BY <2>1, <2>4 DEF Abstract!Next
<1>8. CASE HashCache_Init
  <2>1. Init'
    BY <1>8 DEF HashCache_Init, Init
  <2>2. (Init => Abstract!Init)'
    BY AbstractInitially, PTL
  <2>. QED BY <2>1, <2>2 DEF Abstract!Init, Abstract!Reset, Abstract!Next
<1>9. ASSUME NEW a \in Address, DeviceStorage_ToggleBit(a) PROVE Abstract!Next
  BY <1>5, <1>9 DEF DeviceStorage_ToggleBit
<1>10. CASE UNCHANGED vars
  BY <1>10, ContentsAfter DEF vars, Abstract!vars
<1>. QED
  BY <1>1, <1>2, <1>3, <1>4, <1>5, <1>6, <1>7, <1>8, <1>9, <1>10, KeysOfAddress
  DEF Next, HashCache_RegisterBit, HashCache_RegisterWord, HashCache_GetBit,
      HashCache_GetWord, HashCache_HasBit, HashCache_HasWord, HashCache_SetWord

(* The open-addressing array implements the bounded map of AddressTable, for *)
(* every size of the array: no call loses, invents or mixes up an entry, and *)
(* a call fails for lack of room only when Size addresses are cached.        *)
THEOREM Refinement == Spec => ImplementsTable
BY Invariant, AbstractInitially, StepRefines, PTL
DEF Spec, ImplementsTable, Abstract!Spec
=============================================================================
