------------------------- MODULE PollBlocks_proofs -------------------------
(***************************************************************************)
(* Proofs about the requests that are made of a list of addresses, for     *)
(* every address space, gap, length and limit: what sorting, merging and   *)
(* splitting keep, loop by loop.                                           *)
(***************************************************************************)
EXTENDS MCPollBlocks, FiniteSetTheorems, SequenceTheorems, WellFoundedInduction, TLAPS

(* Induction, stated about sets: a set of numbers that holds 0 and with each *)
(* number the next holds all of them.                                        *)
Less == {p \in Nat \X Nat : p[1] < p[2]}

LEMMA LessIsWellFounded == IsWellFoundedOn(Less, Nat)
BY NatLessThanWellFounded DEF OpToRel, Less

LEMMA LeastNumber ==
  ASSUME NEW T \in SUBSET Nat, T # {}
  PROVE  \E x \in T : \A y \in T : ~(y < x)
<1>1. PICK x \in T : \A y \in T : ~(<<y, x>> \in Less)
  BY LessIsWellFounded, WFMin
<1>. QED BY <1>1 DEF Less

LEMMA UpTo ==
  ASSUME NEW n \in Nat, NEW T, 0 \in T, \A i \in 1 .. n : i - 1 \in T => i \in T
  PROVE  \A i \in 0 .. n : i \in T
<1> DEFINE Missed == {i \in 0 .. n : i \notin T}
<1> SUFFICES ASSUME Missed # {} PROVE FALSE
  OBVIOUS
<1>1. Missed \in SUBSET Nat
  OBVIOUS
<1>2. PICK x \in Missed : \A y \in Missed : ~(y < x)
  <2> HIDE DEF Missed
  <2>. QED BY <1>1, LeastNumber
<1>3. x \in 1 .. n /\ x \notin T
  BY <1>2
<1>4. x - 1 \in 0 .. n /\ x - 1 < x
  BY <1>3
<1>5. x - 1 \in T
  BY <1>2, <1>4
<1>. QED BY <1>3, <1>5

(* A set of numbers that holds with each number all before it is an initial  *)
(* part.                                                                     *)
LEMMA InitialPart ==
  ASSUME NEW n \in Nat, NEW T, \A i \in T, j \in 1 .. n : j < i => j \in T
  PROVE  \E k \in 0 .. n : \A i \in 1 .. n : i \in T <=> i <= k
<1> DEFINE Missed == {i \in 1 .. n : i \notin T}
<1>1. CASE Missed = {}
  <2>1. \A i \in 1 .. n : i \in T <=> i <= n
    BY <1>1
  <2>. QED BY <2>1
<1>2. CASE Missed # {}
  <2>1. Missed \in SUBSET Nat
    OBVIOUS
  <2>2. PICK x \in Missed : \A y \in Missed : ~(y < x)
    <3> HIDE DEF Missed
    <3>. QED BY <1>2, <2>1, LeastNumber
  <2>3. x - 1 \in 0 .. n
    OBVIOUS
  <2>4. \A i \in 1 .. n : i \in T <=> i <= x - 1
    BY <2>2
  <2>. QED BY <2>3, <2>4
<1>. QED BY <1>1, <1>2

(* The states of a loop that takes base through the steps of g.              *)
LoopStates(h, X, base, n, g) ==
  /\ h \in [0 .. n -> X]
  /\ h[0] = base
  /\ \A i \in 1 .. n : h[i] = g[i][h[i - 1]]

(* A loop over n elements has a result: its states are a function.           *)
LEMMA LoopExists ==
  ASSUME NEW X, NEW base \in X, NEW n \in Nat, NEW g \in [1 .. n -> [X -> X]]
  PROVE  \E h : LoopStates(h, X, base, n, g)
<1> DEFINE P(m, h) == h[0] = base /\ \A i \in 1 .. m : h[i] = g[i][h[i - 1]]
           T == {m \in 0 .. n : \E h \in [0 .. m -> X] : P(m, h)}
<1>1. 0 \in T
  <2> DEFINE h == [i \in 0 .. 0 |-> base]
  <2>1. h \in [0 .. 0 -> X] /\ P(0, h)
    OBVIOUS
  <2>2. 0 \in 0 .. n
    OBVIOUS
  <2> HIDE DEF P, h
  <2>. QED BY <2>1, <2>2
<1>2. ASSUME NEW m \in 1 .. n, m - 1 \in T PROVE m \in T
  <2>1. PICK h \in [0 .. m - 1 -> X] : P(m - 1, h)
    BY <1>2
  <2> DEFINE k == [i \in 0 .. m |-> IF i = m THEN g[m][h[m - 1]] ELSE h[i]]
  <2>2. h[m - 1] \in X /\ m \in 1 .. n
    OBVIOUS
  <2>3. g[m][h[m - 1]] \in X
    BY <2>2
  <2>4. k \in [0 .. m -> X]
    BY <2>3
  <2>5. /\ k[m] = g[m][h[m - 1]]
        /\ \A i \in 0 .. m - 1 : k[i] = h[i]
    OBVIOUS
  <2> HIDE DEF k
  <2>6. k[0] = base
    BY <2>1, <2>5
  <2>7. ASSUME NEW i \in 1 .. m PROVE k[i] = g[i][k[i - 1]]
    <3>1. k[i - 1] = h[i - 1]
      BY <2>5
    <3>2. CASE i = m
      BY <2>5, <3>1, <3>2
    <3>3. CASE i \in 1 .. m - 1
      BY <2>1, <2>5, <3>1, <3>3
    <3>. QED BY <3>2, <3>3
  <2>8. P(m, k) /\ m \in 0 .. n
    BY <2>6, <2>7
  <2> HIDE DEF P
  <2>. QED BY <2>4, <2>8
<1>3. \A m \in 0 .. n : m \in T
  <2> HIDE DEF T
  <2>. QED BY <1>1, <1>2, UpTo
<1>4. PICK h \in [0 .. n -> X] : P(n, h)
  BY <1>3
<1>. QED BY <1>4 DEF LoopStates

(* Every state of a loop is of the kind its steps keep.                      *)
LEMMA LoopKeeps ==
  ASSUME NEW X, NEW base \in X, NEW n \in Nat, NEW g \in [1 .. n -> [X -> X]],
         NEW f, f[0] = base,
         \A i \in 1 .. n : f[i - 1] \in X => f[i] = g[i][f[i - 1]]
  PROVE  \A i \in 0 .. n : f[i] \in X
<1> DEFINE T == {i \in 0 .. n : f[i] \in X}
<1>1. 0 \in T
  OBVIOUS
<1>2. ASSUME NEW i \in 1 .. n, i - 1 \in T PROVE i \in T
  <2>1. f[i] = g[i][f[i - 1]] 
    BY <1>2
  <2>2. f[i] \in X
    BY <1>2, <2>1
  <2>. QED BY <2>2
<1>3. \A i \in 0 .. n : i \in T
  <2> HIDE DEF T
  <2>. QED BY <1>1, <1>2, UpTo
<1>. QED BY <1>3
-----------------------------------------------------------------------------
(* Sorting.                                                                  *)
Addr == 0 .. AddrSpace - 1

Sorted(s)   == \A i, j \in 1 .. Len(s) : i < j => s[i] <= s[j]
Holds(s, a) == \E i \in 1 .. Len(s) : s[i] = a

(* Where an address is inserted: behind all that are not greater.            *)
Place(s, a) == CHOOSE k \in 0 .. Len(s) : \A i \in 1 .. Len(s) : s[i] <= a <=> i <= k

LEMMA PlaceRight ==
  ASSUME NEW s \in Seq(Addr), Sorted(s), NEW a \in Addr
  PROVE  Place(s, a) \in 0 .. Len(s) /\ \A i \in 1 .. Len(s) : s[i] <= a <=> i <= Place(s, a)
<1> DEFINE T == {i \in 1 .. Len(s) : s[i] <= a}
<1>1. \A i \in 1 .. Len(s) : s[i] \in Int
  BY BlockAssumption DEF Addr
<1>2. \A i \in T, j \in 1 .. Len(s) : j < i => j \in T
  BY <1>1 DEF Sorted, Addr
<1>3. \A i \in 1 .. Len(s) : i \in T <=> s[i] <= a
  OBVIOUS
<1> HIDE DEF T
<1>4. \E k \in 0 .. Len(s) : \A i \in 1 .. Len(s) : i \in T <=> i <= k
  <2>1. Len(s) \in Nat
    OBVIOUS
  <2>. QED BY <1>2, <2>1, InitialPart
<1>5. \E k \in 0 .. Len(s) : \A i \in 1 .. Len(s) : s[i] <= a <=> i <= k
  BY <1>3, <1>4
<1>. QED BY <1>5 DEF Place

LEMMA Concatenated ==
  ASSUME NEW S, NEW s \in Seq(S), NEW t \in Seq(S)
  PROVE  /\ s \o t \in Seq(S) /\ Len(s \o t) = Len(s) + Len(t)
         /\ \A i \in 1 .. Len(s) : (s \o t)[i] = s[i]
         /\ \A i \in Len(s) + 1 .. Len(s) + Len(t) : (s \o t)[i] = t[i - Len(s)]
OBVIOUS

(* What inserting makes of a sorted list.                                    *)
LEMMA InsertElements ==
  ASSUME NEW s \in Seq(Addr), Sorted(s), NEW a \in Addr
  PROVE  LET k == Place(s, a) IN
         /\ Insert(s, a) \in Seq(Addr) /\ Len(Insert(s, a)) = Len(s) + 1
         /\ \A i \in 1 .. Len(s) + 1 :
              Insert(s, a)[i] = IF i <= k THEN s[i] ELSE IF i = k + 1 THEN a ELSE s[i - 1]
<1> DEFINE k == Place(s, a)
           t == SubSeq(s, 1, k)
           u == SubSeq(s, k + 1, Len(s))
<1>1. k \in 0 .. Len(s) /\ Len(s) \in Nat
  BY PlaceRight
<1>2. Insert(s, a) = t \o <<a>> \o u
  <2>1. Insert(s, a) = InsertAt(s, k + 1, a)
    BY DEF Insert, Place
  <2>2. (k + 1) - 1 = k
    BY <1>1
  <2>. QED BY <2>1, <2>2 DEF InsertAt
<1> HIDE DEF k
<1>3. t \in Seq(Addr) /\ Len(t) = k /\ \A i \in 1 .. k : t[i] = s[i]
  BY <1>1
<1>4. u \in Seq(Addr) /\ Len(u) = Len(s) - k /\ \A i \in 1 .. Len(s) - k : u[i] = s[i + k]
  BY <1>1
<1>5. <<a>> \in Seq(Addr) /\ Len(<<a>>) = 1 /\ <<a>>[1] = a
  OBVIOUS
<1> HIDE DEF t, u
<1>6. /\ t \o <<a>> \in Seq(Addr) /\ Len(t \o <<a>>) = k + 1
      /\ \A i \in 1 .. k : (t \o <<a>>)[i] = s[i]
      /\ (t \o <<a>>)[k + 1] = a
  BY <1>1, <1>3, <1>5
<1> DEFINE v == t \o <<a>>
<1>7. v \in Seq(Addr) /\ Len(v) = k + 1 /\ (\A i \in 1 .. k : v[i] = s[i]) /\ v[k + 1] = a
  BY <1>6
<1> HIDE DEF v
<1>8. /\ v \o u \in Seq(Addr) /\ Len(v \o u) = Len(v) + Len(u)
      /\ \A i \in 1 .. Len(v) : (v \o u)[i] = v[i]
      /\ \A i \in Len(v) + 1 .. Len(v) + Len(u) : (v \o u)[i] = u[i - Len(v)]
  BY <1>4, <1>7, Concatenated
<1>9. Insert(s, a) = v \o u
  BY <1>2 DEF v
<1>10. ASSUME NEW i \in 1 .. Len(s) + 1
       PROVE  Insert(s, a)[i] = IF i <= k THEN s[i] ELSE IF i = k + 1 THEN a ELSE s[i - 1]
  <2>1. CASE i <= k
    <3>1. i \in 1 .. k /\ i \in 1 .. Len(v)
      BY <1>1, <1>7, <2>1
    <3>. QED BY <1>7, <1>8, <1>9, <2>1, <3>1
  <2>2. CASE i = k + 1
    <3>1. i \in 1 .. Len(v) /\ ~(i <= k)
      BY <1>1, <1>7, <2>2
    <3>. QED BY <1>7, <1>8, <1>9, <2>2, <3>1
  <2>3. CASE i > k + 1
    <3>0. Len(v) = k + 1 /\ Len(u) = Len(s) - k
      BY <1>4, <1>7
    <3>1. i \in Len(v) + 1 .. Len(v) + Len(u) /\ i - Len(v) \in 1 .. Len(s) - k /\ (i - Len(v)) + k = i - 1
      BY <1>1, <2>3, <3>0
    <3>. QED BY <1>1, <1>4, <1>8, <1>9, <2>3, <3>1
  <2>. QED BY <1>1, <2>1, <2>2, <2>3
<1>11. Insert(s, a) \in Seq(Addr) /\ Len(Insert(s, a)) = Len(s) + 1
  BY <1>1, <1>4, <1>7, <1>8, <1>9
<1>. QED BY <1>10, <1>11 DEF k
LEMMA InsertKeepsSorted ==
  ASSUME NEW s \in Seq(Addr), Sorted(s), NEW a \in Addr
  PROVE  /\ Insert(s, a) \in Seq(Addr) /\ Len(Insert(s, a)) = Len(s) + 1
         /\ Sorted(Insert(s, a))
         /\ \A x : Holds(Insert(s, a), x) <=> Holds(s, x) \/ x = a
<1> DEFINE k == Place(s, a)
           t == Insert(s, a)
           n == Len(s)
<1>1. k \in 0 .. n /\ n \in Nat /\ \A i \in 1 .. n : s[i] <= a <=> i <= k
  BY PlaceRight
<1>2. t \in Seq(Addr) /\ Len(t) = n + 1
  BY InsertElements
<1>3. \A i \in 1 .. n + 1 : t[i] = IF i <= k THEN s[i] ELSE IF i = k + 1 THEN a ELSE s[i - 1]
  BY InsertElements
<1>4. \A i \in 1 .. n : s[i] \in Int
  BY BlockAssumption DEF Addr
<1>5. a \in Int /\ \A i, j \in 1 .. n : i < j => s[i] <= s[j]
  BY BlockAssumption DEF Addr, Sorted
<1> HIDE DEF k, t, n
<1>6. ASSUME NEW i \in 1 .. n + 1, NEW j \in 1 .. n + 1, i < j PROVE t[i] <= t[j]
  <2>1. CASE j <= k
    BY <1>1, <1>3, <1>5, <1>6, <2>1
  <2>2. CASE j = k + 1
    BY <1>1, <1>3, <1>5, <1>6, <2>2
  <2>3. CASE j > k + 1
    <3>1. t[j] = s[j - 1] /\ j - 1 \in 1 .. n /\ ~(j - 1 <= k)
      BY <1>1, <1>3, <2>3
    <3>2. CASE i <= k
      BY <1>1, <1>3, <1>5, <1>6, <3>1, <3>2
    <3>3. CASE i = k + 1
      BY <1>1, <1>3, <1>4, <1>5, <1>6, <3>1, <3>3
    <3>4. CASE i > k + 1
      <4>1. t[i] = s[i - 1] /\ i - 1 \in 1 .. n /\ i - 1 < j - 1
        BY <1>1, <1>3, <1>6, <3>4
      <4>. QED BY <1>5, <3>1, <4>1
    <3>. QED BY <1>1, <3>2, <3>3, <3>4
  <2>. QED BY <1>1, <2>1, <2>2, <2>3
<1>7. ASSUME NEW x, \E i \in 1 .. n + 1 : t[i] = x PROVE (\E i \in 1 .. n : s[i] = x) \/ x = a
  <2>1. PICK i \in 1 .. n + 1 : t[i] = x
    BY <1>7
  <2>2. CASE i <= k
    BY <1>1, <1>3, <2>1, <2>2
  <2>3. CASE i = k + 1
    BY <1>1, <1>3, <2>1, <2>3
  <2>4. CASE i > k + 1
    <3>1. i - 1 \in 1 .. n /\ t[i] = s[i - 1]
      BY <1>1, <1>3, <2>4
    <3>. QED BY <2>1, <3>1
  <2>. QED BY <1>1, <2>2, <2>3, <2>4
<1>8. ASSUME NEW i \in 1 .. n PROVE \E j \in 1 .. n + 1 : t[j] = s[i]
  <2>1. CASE i <= k
    BY <1>1, <1>3, <2>1
  <2>2. CASE ~(i <= k)
    <3>1. i + 1 \in 1 .. n + 1 /\ t[i + 1] = s[i]
      BY <1>1, <1>3, <2>2
    <3>. QED BY <3>1
  <2>. QED BY <2>1, <2>2
<1>9. k + 1 \in 1 .. n + 1 /\ t[k + 1] = a
  BY <1>1, <1>3
<1>10. Sorted(t)
  BY <1>2, <1>6 DEF Sorted
<1>11. \A x : Holds(t, x) <=> Holds(s, x) \/ x = a
  BY <1>2, <1>7, <1>8, <1>9 DEF Holds, n
<1>. QED BY <1>2, <1>10, <1>11 DEF t, n

(* The states of the loop that sorts.                                        *)
SortedLists == {s \in Seq(Addr) : Sorted(s)}

LEMMA SortStates ==
  ASSUME NEW addrs \in Seq(Addr)
  PROVE  \E f : /\ SortAddresses(addrs) = f[Len(addrs)]
                /\ f[0] = << >>
                /\ \A i \in 1 .. Len(addrs) : f[i] = Insert(f[i - 1], addrs[i])
                /\ \A i \in 0 .. Len(addrs) : f[i] \in SortedLists
<1> DEFINE n == Len(addrs)
           Defines(f) == f = [i \in 0 .. n |-> IF i = 0 THEN << >> ELSE Insert(f[i - 1], addrs[i])]
           after == CHOOSE f : Defines(f)
           g == [i \in 1 .. n |-> [s \in SortedLists |-> Insert(s, addrs[i])]]
<1>1. SortAddresses(addrs) = after[n]
  BY DEF SortAddresses, Loop
<1>2. n \in Nat /\ \A i \in 1 .. n : addrs[i] \in Addr
  OBVIOUS
<1>3. << >> \in SortedLists
  BY DEF SortedLists, Sorted
<1>4. \A i \in 1 .. n, s \in SortedLists : Insert(s, addrs[i]) \in SortedLists
  BY <1>2, InsertKeepsSorted DEF SortedLists
<1>5. g \in [1 .. n -> [SortedLists -> SortedLists]]
  BY <1>4
<1>6. \A i \in 1 .. n, s \in SortedLists : g[i][s] = Insert(s, addrs[i])
  OBVIOUS
<1> HIDE DEF g, n
<1>7. PICK h : LoopStates(h, SortedLists, << >>, n, g)
  BY <1>2, <1>3, <1>5, LoopExists
<1>8. Defines(h)
  <2>1. \A i \in 1 .. n : i - 1 \in 0 .. n
    BY <1>2
  <2>2. \A i \in 1 .. n : h[i] = Insert(h[i - 1], addrs[i])
    BY <1>6, <1>7, <2>1 DEF LoopStates
  <2>3. \A i \in 0 .. n : h[i] = IF i = 0 THEN << >> ELSE Insert(h[i - 1], addrs[i])
    BY <1>2, <1>7, <2>2 DEF LoopStates
  <2>. QED BY <1>7, <2>3 DEF LoopStates
<1>9. Defines(after)
  BY <1>8
<1> HIDE DEF after
<1>10. after[0] = << >> /\ \A i \in 1 .. n : after[i] = Insert(after[i - 1], addrs[i])
  BY <1>2, <1>9
<1> HIDE DEF Defines
<1>11. \A i \in 1 .. n : after[i - 1] \in SortedLists => after[i] = g[i][after[i - 1]]
  BY <1>6, <1>10
<1>12. \A i \in 0 .. n : after[i] \in SortedLists
  BY <1>2, <1>3, <1>5, <1>10, <1>11, LoopKeeps
<1>. QED BY <1>1, <1>10, <1>12 DEF n
(* The sorted list is sorted, and holds what was given.                      *)
LEMMA SortRight ==
  ASSUME NEW addrs \in Seq(Addr)
  PROVE  /\ SortAddresses(addrs) \in Seq(Addr) /\ Len(SortAddresses(addrs)) = Len(addrs)
         /\ Sorted(SortAddresses(addrs))
         /\ \A x : Holds(SortAddresses(addrs), x) <=> Holds(addrs, x)
<1>1. PICK f : /\ SortAddresses(addrs) = f[Len(addrs)]
               /\ f[0] = << >>
               /\ \A i \in 1 .. Len(addrs) : f[i] = Insert(f[i - 1], addrs[i])
               /\ \A i \in 0 .. Len(addrs) : f[i] \in SortedLists
  BY SortStates
<1> DEFINE n == Len(addrs)
           T == {i \in 0 .. n : Len(f[i]) = i /\ \A x : Holds(f[i], x) <=> \E j \in 1 .. i : addrs[j] = x}
<1>2. n \in Nat /\ \A i \in 1 .. n : addrs[i] \in Addr
  OBVIOUS
<1>3. 0 \in T
  BY <1>1, <1>2 DEF Holds
<1> HIDE DEF n
<1>4. ASSUME NEW i \in 1 .. n, i - 1 \in T PROVE i \in T
  <2>1. i - 1 \in 0 .. n /\ f[i - 1] \in Seq(Addr) /\ Sorted(f[i - 1])
    BY <1>1, <1>2 DEF SortedLists, n
  <2>2. f[i] = Insert(f[i - 1], addrs[i]) /\ addrs[i] \in Addr
    BY <1>1, <1>2 DEF n
  <2>3. Len(f[i]) = Len(f[i - 1]) + 1 /\ \A x : Holds(f[i], x) <=> Holds(f[i - 1], x) \/ x = addrs[i]
    <3> DEFINE s == f[i - 1]
               a == addrs[i]
    <3>1. s \in Seq(Addr) /\ Sorted(s) /\ a \in Addr /\ f[i] = Insert(s, a)
      BY <2>1, <2>2
    <3> HIDE DEF T, s, a
    <3>2. Len(Insert(s, a)) = Len(s) + 1 /\ \A x : Holds(Insert(s, a), x) <=> Holds(s, x) \/ x = a
      BY <3>1, InsertKeepsSorted
    <3>. QED BY <3>1, <3>2 DEF s, a
  <2>4. Len(f[i - 1]) = i - 1 /\ \A x : Holds(f[i - 1], x) <=> \E j \in 1 .. i - 1 : addrs[j] = x
    BY <1>4
  <2>5. Len(f[i]) = i
    BY <1>2, <2>3, <2>4
  <2>6. \A x : (\E j \in 1 .. i : addrs[j] = x) <=> (\E j \in 1 .. i - 1 : addrs[j] = x) \/ x = addrs[i]
    <3>1. \A j \in 1 .. i : j \in 1 .. i - 1 \/ j = i
      BY <1>2
    <3>2. \A j \in 1 .. i - 1 : j \in 1 .. i
      BY <1>2
    <3>3. i \in 1 .. i
      BY <1>2
    <3>. QED BY <3>1, <3>2, <3>3
  <2>7. \A x : Holds(f[i], x) <=> \E j \in 1 .. i : addrs[j] = x
    BY <2>3, <2>4, <2>6
  <2>. QED BY <2>5, <2>7
<1>5. \A i \in 0 .. n : i \in T
  <2> HIDE DEF T
  <2>. QED BY <1>2, <1>3, <1>4, UpTo
<1>6. n \in T /\ f[n] \in SortedLists
  <2>1. n \in 0 .. n
    BY <1>2
  <2>2. f[n] \in SortedLists
    BY <1>1, <2>1 DEF n
  <2> HIDE DEF T
  <2>. QED BY <1>5, <2>1, <2>2
<1>. QED BY <1>1, <1>6 DEF n, SortedLists, Holds
-----------------------------------------------------------------------------
(* Merging. A block is a range of addresses, its length at least one.        *)
Block == [start : Nat, length : Nat \ {0}]

InBlock(x, b)   == b.start <= x /\ x <= BlockEnd(b)
InBlocks(x, bs) == \E j \in 1 .. Len(bs) : InBlock(x, bs[j])
Apart(bs)       == \A j, k \in 1 .. Len(bs) : j < k => BlockEnd(bs[j]) < bs[k].start

(* x lies between two addresses of s that are a small gap apart.             *)
Between(s, x) ==
  \E lo, hi \in 1 .. Len(s) : s[lo] <= x /\ x <= s[hi] /\ s[hi] - s[lo] <= MaxMergeGap

(* What the loop over the sorted addresses s has made of the first i.        *)
Merged(s, i, bs) ==
  /\ bs \in Seq(Block)
  /\ i = 0 => bs = << >>
  /\ i > 0 => bs # << >> /\ BlockEnd(bs[Len(bs)]) = s[i]
  /\ Apart(bs)
  /\ \A m \in 1 .. i : InBlocks(s[m], bs)
  /\ \A j \in 1 .. Len(bs) : \A x \in Nat : InBlock(x, bs[j]) => Between(s, x)
RawBlock == [start : Nat, length : Int]

LEMMA FrontOf ==
  ASSUME NEW S, NEW s \in Seq(S), s # << >>
  PROVE  /\ Last(s) = s[Len(s)] /\ Len(s) \in Nat \ {0}
         /\ Front(s) \in Seq(S) /\ Len(Front(s)) = Len(s) - 1
         /\ \A i \in 1 .. Len(s) - 1 : Front(s)[i] = s[i]
<1>1. Len(s) \in Nat \ {0}
  OBVIOUS
<1>2. Front(s) = SubSeq(s, 1, Len(s) - 1)
  BY DEF Front
<1> DEFINE k == Len(s) - 1
           t == SubSeq(s, 1, k)
<1>3. k \in 0 .. Len(s)
  BY <1>1
<1> HIDE DEF k
<1>4. t \in Seq(S) /\ Len(t) = k /\ \A i \in 1 .. k : t[i] = s[i]
  BY <1>1, <1>3
<1> HIDE DEF t
<1>5. Front(s) = t
  BY <1>2 DEF t, k
<1>. QED BY <1>1, <1>4, <1>5 DEF Last, k

LEMMA Appended ==
  ASSUME NEW S, NEW s \in Seq(S), NEW e \in S
  PROVE  /\ Append(s, e) \in Seq(S) /\ Len(Append(s, e)) = Len(s) + 1
         /\ \A i \in 1 .. Len(s) : Append(s, e)[i] = s[i]
         /\ Append(s, e)[Len(s) + 1] = e
OBVIOUS

Joins(bs, a) == bs # << >> /\ a - BlockEnd(bs[Len(bs)]) <= MaxMergeGap

(* What joining an address makes of the blocks.                              *)
LEMMA JoinExtends ==
  ASSUME NEW bs \in Seq(RawBlock), NEW a \in Nat, Joins(bs, a)
  PROVE  /\ Join(bs, a) \in Seq(RawBlock) /\ Len(Join(bs, a)) = Len(bs) /\ Len(bs) \in Nat \ {0}
         /\ \A j \in 1 .. Len(bs) - 1 : Join(bs, a)[j] = bs[j]
         /\ Join(bs, a)[Len(bs)] =
              [start |-> bs[Len(bs)].start, length |-> a - bs[Len(bs)].start + 1]
<1> DEFINE b == bs[Len(bs)]
           c == [b EXCEPT !.length = a - b.start + 1]
           front == Front(bs)
<1>1. bs # << >> /\ Last(bs) = b
  BY FrontOf DEF Joins
<1>2. Join(bs, a) = Append(front, c)
  BY <1>1 DEF Join, Joins
<1>3. Len(bs) \in Nat \ {0} /\ b \in RawBlock
  BY <1>1
<1>4. c = [start |-> b.start, length |-> a - b.start + 1] /\ c \in RawBlock
  BY <1>3 DEF RawBlock
<1>5. /\ front \in Seq(RawBlock) /\ Len(front) = Len(bs) - 1
      /\ \A i \in 1 .. Len(bs) - 1 : front[i] = bs[i]
  BY <1>1, FrontOf
<1> HIDE DEF front, c
<1>6. /\ Append(front, c) \in Seq(RawBlock) /\ Len(Append(front, c)) = Len(front) + 1
      /\ \A i \in 1 .. Len(front) : Append(front, c)[i] = front[i]
      /\ Append(front, c)[Len(front) + 1] = c
  BY <1>4, <1>5, Appended
<1>7. (Len(bs) - 1) + 1 = Len(bs)
  BY <1>3
<1>. QED BY <1>2, <1>3, <1>4, <1>5, <1>6, <1>7

LEMMA JoinOpens ==
  ASSUME NEW bs \in Seq(RawBlock), NEW a \in Nat, ~ Joins(bs, a)
  PROVE  /\ Join(bs, a) \in Seq(RawBlock) /\ Len(Join(bs, a)) = Len(bs) + 1
         /\ \A j \in 1 .. Len(bs) : Join(bs, a)[j] = bs[j]
         /\ Join(bs, a)[Len(bs) + 1] = [start |-> a, length |-> 1]
<1> DEFINE c == [start |-> a, length |-> 1]
<1>1. Join(bs, a) = Append(bs, c)
  <2>1. bs # << >> => Last(bs) = bs[Len(bs)]
    BY FrontOf
  <2>. QED BY <2>1 DEF Join, Joins
<1>2. c \in RawBlock
  BY DEF RawBlock
<1> HIDE DEF c
<1>3. /\ Append(bs, c) \in Seq(RawBlock) /\ Len(Append(bs, c)) = Len(bs) + 1
      /\ \A i \in 1 .. Len(bs) : Append(bs, c)[i] = bs[i]
      /\ Append(bs, c)[Len(bs) + 1] = c
  BY <1>2, Appended
<1>. QED BY <1>1, <1>3 DEF c

(* The states of the loop that merges.                                       *)
LEMMA MergeStates ==
  ASSUME NEW addrs \in Seq(Addr)
  PROVE  \E f : /\ MergeWithGap(addrs) = f[Len(addrs)]
                /\ f[0] = << >>
                /\ \A i \in 1 .. Len(addrs) : f[i] = Join(f[i - 1], SortAddresses(addrs)[i])
<1> DEFINE s == SortAddresses(addrs)
           n == Len(s)
           Defines(f) == f = [i \in 0 .. n |-> IF i = 0 THEN << >> ELSE Join(f[i - 1], s[i])]
           after == CHOOSE f : Defines(f)
           X == Seq(RawBlock)
           g == [i \in 1 .. n |-> [bs \in X |-> Join(bs, s[i])]]
<1>1. MergeWithGap(addrs) = after[n]
  BY DEF MergeWithGap, Loop
<1>2. s \in Seq(Addr) /\ n = Len(addrs)
  BY SortRight
<1> HIDE DEF s
<1>3. n \in Nat /\ \A i \in 1 .. n : s[i] \in Nat
  BY <1>2, BlockAssumption DEF Addr
<1>4. << >> \in X
  OBVIOUS
<1>5. \A bs \in X, a \in Nat : Join(bs, a) \in X
  BY JoinExtends, JoinOpens
<1> HIDE DEF X
<1>6. g \in [1 .. n -> [X -> X]]
  BY <1>3, <1>5
<1>7. \A i \in 1 .. n, bs \in X : g[i][bs] = Join(bs, s[i])
  OBVIOUS
<1> HIDE DEF g, n
<1>8. PICK h : LoopStates(h, X, << >>, n, g)
  BY <1>3, <1>4, <1>6, LoopExists
<1>9. Defines(h)
  <2>1. \A i \in 1 .. n : i - 1 \in 0 .. n
    BY <1>3
  <2>2. \A i \in 1 .. n : h[i] = Join(h[i - 1], s[i])
    BY <1>7, <1>8, <2>1 DEF LoopStates
  <2>3. \A i \in 0 .. n : h[i] = IF i = 0 THEN << >> ELSE Join(h[i - 1], s[i])
    BY <1>3, <1>8, <2>2 DEF LoopStates
  <2>. QED BY <1>8, <2>3 DEF LoopStates
<1>10. Defines(after)
  BY <1>9
<1> HIDE DEF after
<1>11. after[0] = << >> /\ \A i \in 1 .. n : after[i] = Join(after[i - 1], s[i])
  BY <1>3, <1>10
<1>. QED BY <1>1, <1>2, <1>11 DEF n, s
LEMMA BlockNumbers ==
  ASSUME NEW b \in Block
  PROVE  b \in RawBlock /\ b.start \in Nat /\ b.length \in Nat \ {0} /\ BlockEnd(b) \in Nat /\ b.start <= BlockEnd(b)
BY DEF Block, RawBlock, BlockEnd

(* Lists that agree element by element are of the same blocks.               *)
LEMMA BlockLists ==
  ASSUME NEW S, NEW T, NEW bs \in Seq(S), \A j \in 1 .. Len(bs) : bs[j] \in T
  PROVE  bs \in Seq(T)
OBVIOUS

LEMMA JoinKeepsMerged ==
  ASSUME NEW s \in Seq(Addr), Sorted(s), NEW i \in 1 .. Len(s), NEW bs, Merged(s, i - 1, bs)
  PROVE  Merged(s, i, Join(bs, s[i]))
<1> DEFINE a == s[i]
           n == Len(bs)
           t == Join(bs, a)
<1>1. a \in Nat /\ i \in Nat \ {0} /\ i - 1 \in 0 .. Len(s) /\ \A k \in 1 .. Len(s) : s[k] \in Nat
  BY BlockAssumption DEF Addr
<1>2. /\ bs \in Seq(Block) /\ n \in Nat
      /\ i - 1 = 0 => bs = << >>
      /\ i - 1 > 0 => bs # << >> /\ BlockEnd(bs[n]) = s[i - 1]
      /\ \A j, k \in 1 .. n : j < k => BlockEnd(bs[j]) < bs[k].start
  BY DEF Merged, Apart
<1>3. \A m \in 1 .. i - 1 : \E j \in 1 .. n : InBlock(s[m], bs[j])
  BY DEF Merged, InBlocks
<1>4. \A j \in 1 .. n : \A x \in Nat : InBlock(x, bs[j]) => Between(s, x)
  BY DEF Merged
<1>5. \A j \in 1 .. n : bs[j] \in Block
  BY <1>2
<1>6. bs \in Seq(RawBlock)
  BY <1>2, <1>5, BlockNumbers, BlockLists
<1>7. \A k \in 1 .. i - 1 : s[k] <= a
  BY <1>1 DEF Sorted
<1>8. CASE Joins(bs, a)
  <2> DEFINE b == bs[n]
             c == [start |-> b.start, length |-> a - b.start + 1]
  <2>1. /\ t \in Seq(RawBlock) /\ Len(t) = n /\ n \in Nat \ {0}
        /\ \A j \in 1 .. n - 1 : t[j] = bs[j]
        /\ t[n] = c
    BY <1>1, <1>6, <1>8, JoinExtends
  <2>2. i - 1 \in 1 .. Len(s) /\ BlockEnd(b) = s[i - 1] /\ a - s[i - 1] <= MaxMergeGap
    BY <1>1, <1>2, <1>8 DEF Joins
  <2>3. b \in Block /\ b.start \in Nat /\ b.start <= s[i - 1] /\ s[i - 1] <= a
    <3>1. b \in Block
      BY <1>5, <2>1
    <3>2. s[i - 1] <= a
      BY <1>7, <2>2
    <3>. QED BY <2>2, <3>1, <3>2, BlockNumbers
  <2>4. c.start = b.start /\ BlockEnd(c) = a /\ c \in Block
    <3>1. a - b.start + 1 \in Nat \ {0} /\ b.start + (a - b.start + 1) - 1 = a
      BY <1>1, <2>2, <2>3
    <3>. QED BY <2>3, <3>1 DEF Block, BlockEnd
  <2> HIDE DEF t, a, n
  <2>5. \A j \in 1 .. n : t[j].start = bs[j].start /\ t[j] \in Block
    BY <1>5, <2>1, <2>4
  <2>6. \A j \in 1 .. n - 1 : BlockEnd(t[j]) = BlockEnd(bs[j])
    BY <2>1
  <2>7. t \in Seq(Block)
    BY <2>1, <2>5, BlockLists
  <2> HIDE DEF b, c
  <2>8. Apart(t)
    <3>1. ASSUME NEW j \in 1 .. n, NEW k \in 1 .. n, j < k PROVE BlockEnd(t[j]) < t[k].start
      <4>1. j \in 1 .. n - 1
        BY <2>1, <3>1
      <4>. QED BY <1>2, <2>5, <2>6, <3>1, <4>1
    <3>. QED BY <2>1, <3>1 DEF Apart
  <2>9. \A x \in Nat, j \in 1 .. n : InBlock(x, bs[j]) => InBlock(x, t[j])
    <3>1. ASSUME NEW x \in Nat, NEW j \in 1 .. n, InBlock(x, bs[j]) PROVE InBlock(x, t[j])
      <4>1. CASE j \in 1 .. n - 1
        BY <2>1, <3>1, <4>1
      <4>2. CASE j = n
        <5>1. b.start <= x /\ x <= s[i - 1]
          BY <2>2, <3>1, <4>2 DEF InBlock, b
        <5>. QED BY <1>1, <2>1, <2>2, <2>3, <2>4, <4>2, <5>1 DEF InBlock
      <4>. QED BY <2>1, <4>1, <4>2
    <3>. QED BY <3>1
  <2>10. ASSUME NEW m \in 1 .. i PROVE InBlocks(s[m], t)
    <3>1. CASE m \in 1 .. i - 1
      <4>1. PICK j \in 1 .. n : InBlock(s[m], bs[j])
        BY <1>3, <3>1
      <4>2. s[m] \in Nat
        BY <1>1, <3>1
      <4>. QED BY <2>1, <2>9, <4>1, <4>2 DEF InBlocks
    <3>2. CASE m = i
      <4>1. InBlock(a, t[n]) /\ n \in 1 .. n
        BY <1>1, <2>1, <2>2, <2>3, <2>4 DEF InBlock
      <4>. QED BY <2>1, <3>2, <4>1 DEF InBlocks, a
    <3>. QED BY <1>1, <3>1, <3>2
  <2>11. ASSUME NEW j \in 1 .. n, NEW x \in Nat, InBlock(x, t[j]) PROVE Between(s, x)
    <3>1. CASE InBlock(x, bs[j])
      BY <1>4, <3>1
    <3>2. CASE ~ InBlock(x, bs[j])
      <4>1. j = n
        BY <2>1, <2>11, <3>2
      <4>2. b.start <= x /\ x <= a
        BY <2>1, <2>4, <2>11, <4>1 DEF InBlock
      <4>3. s[i - 1] <= x
        BY <1>1, <2>2, <3>2, <4>1, <4>2 DEF InBlock, b
      <4>. QED BY <2>2, <4>2, <4>3 DEF Between, a
    <3>. QED BY <3>1, <3>2
  <2>12. t # << >> /\ BlockEnd(t[Len(t)]) = a
    BY <2>1, <2>4
  <2>. QED BY <1>1, <2>1, <2>7, <2>8, <2>10, <2>11, <2>12 DEF Merged, a, t
<1>9. CASE ~ Joins(bs, a)
  <2> DEFINE c == [start |-> a, length |-> 1]
  <2>1. /\ t \in Seq(RawBlock) /\ Len(t) = n + 1
        /\ \A j \in 1 .. n : t[j] = bs[j]
        /\ t[n + 1] = c
    BY <1>1, <1>6, <1>9, JoinOpens
  <2>2. c \in Block /\ c.start = a /\ BlockEnd(c) = a
    BY <1>1 DEF Block, BlockEnd
  <2> HIDE DEF c
  <2>3. ASSUME NEW j \in 1 .. n PROVE BlockEnd(bs[j]) < a
    <3>1. bs # << >> /\ i - 1 > 0 /\ i - 1 \in 1 .. Len(s) /\ n \in 1 .. n
      BY <1>1, <1>2, <2>3
    <3>2. BlockEnd(bs[n]) = s[i - 1] /\ a - s[i - 1] > MaxMergeGap /\ s[i - 1] \in Nat
      BY <1>1, <1>2, <1>9, <3>1, BlockAssumption DEF Joins
    <3>3. BlockEnd(bs[n]) < a
      BY <1>1, <3>2, BlockAssumption
    <3>4. CASE j < n
      <4>1. BlockEnd(bs[j]) < bs[n].start
        BY <1>2, <3>1, <3>4
      <4>2. bs[n] \in Block /\ bs[j] \in Block
        BY <1>5, <3>1
      <4>3. BlockEnd(bs[j]) \in Nat /\ bs[n].start \in Nat /\ BlockEnd(bs[n]) \in Nat /\ bs[n].start <= BlockEnd(bs[n])
        BY <4>2, BlockNumbers
      <4>. QED BY <1>1, <3>3, <4>1, <4>3
    <3>. QED BY <1>2, <3>3, <3>4
  <2> HIDE DEF t, a, n
  <2>4. \A j \in 1 .. n + 1 : t[j] \in Block
    BY <1>2, <1>5, <2>1, <2>2
  <2>5. t \in Seq(Block)
    BY <2>1, <2>4, BlockLists
  <2>6. Apart(t)
    <3>1. ASSUME NEW j \in 1 .. n + 1, NEW k \in 1 .. n + 1, j < k PROVE BlockEnd(t[j]) < t[k].start
      <4>1. j \in 1 .. n /\ t[j] = bs[j]
        BY <1>2, <2>1, <3>1
      <4>2. CASE k \in 1 .. n
        BY <1>2, <2>1, <3>1, <4>1, <4>2
      <4>3. CASE k = n + 1
        BY <2>1, <2>2, <2>3, <4>1, <4>3
      <4>. QED BY <1>2, <4>2, <4>3
    <3>. QED BY <2>1, <3>1 DEF Apart
  <2>7. ASSUME NEW m \in 1 .. i PROVE InBlocks(s[m], t)
    <3>1. CASE m \in 1 .. i - 1
      <4>1. PICK j \in 1 .. n : InBlock(s[m], bs[j])
        BY <1>3, <3>1
      <4>2. j \in 1 .. n + 1 /\ t[j] = bs[j]
        BY <1>2, <2>1
      <4>. QED BY <2>1, <4>1, <4>2 DEF InBlocks
    <3>2. CASE m = i
      <4>1. InBlock(a, t[n + 1]) /\ n + 1 \in 1 .. n + 1
        BY <1>1, <1>2, <2>1, <2>2 DEF InBlock
      <4>. QED BY <2>1, <3>2, <4>1 DEF InBlocks, a
    <3>. QED BY <1>1, <3>1, <3>2
  <2>8. ASSUME NEW j \in 1 .. n + 1, NEW x \in Nat, InBlock(x, t[j]) PROVE Between(s, x)
    <3>1. CASE j \in 1 .. n
      BY <1>4, <2>1, <2>8, <3>1
    <3>2. CASE j = n + 1
      <4>1. a <= x /\ x <= a /\ a - a <= MaxMergeGap
        BY <1>1, <2>1, <2>2, <2>8, <3>2, BlockAssumption DEF InBlock
      <4>. QED BY <4>1 DEF Between, a
    <3>. QED BY <1>2, <3>1, <3>2
  <2>9. t # << >> /\ BlockEnd(t[Len(t)]) = a
    BY <1>2, <2>1, <2>2
  <2>. QED BY <1>1, <2>1, <2>5, <2>6, <2>7, <2>8, <2>9 DEF Merged, a, t
<1>. QED BY <1>8, <1>9
(* What merging makes of a list of addresses.                                *)
LEMMA MergeRight ==
  ASSUME NEW addrs \in Seq(Addr)
  PROVE  Merged(SortAddresses(addrs), Len(addrs), MergeWithGap(addrs))
<1> DEFINE s == SortAddresses(addrs)
           n == Len(addrs)
<1>1. PICK f : /\ MergeWithGap(addrs) = f[n]
               /\ f[0] = << >>
               /\ \A i \in 1 .. n : f[i] = Join(f[i - 1], s[i])
  BY MergeStates
<1> DEFINE T == {i \in 0 .. n : Merged(s, i, f[i])}
<1>2. s \in Seq(Addr) /\ Sorted(s) /\ Len(s) = n /\ n \in Nat
  BY SortRight
<1> HIDE DEF s, n
<1>3. 0 \in T
  <2>1. Merged(s, 0, << >>)
    BY DEF Merged, Apart
  <2>. QED BY <1>1, <1>2, <2>1
<1>4. ASSUME NEW i \in 1 .. n, i - 1 \in T PROVE i \in T
  <2>1. Merged(s, i - 1, f[i - 1]) /\ f[i] = Join(f[i - 1], s[i]) /\ i \in 1 .. Len(s)
    BY <1>1, <1>2, <1>4
  <2> DEFINE bs == f[i - 1]
  <2>2. Merged(s, i - 1, bs)
    BY <2>1
  <2> HIDE DEF bs, T
  <2>3. Merged(s, i, Join(bs, s[i]))
    BY <1>2, <2>1, <2>2, JoinKeepsMerged
  <2>. QED BY <1>2, <2>1, <2>3 DEF bs, T
<1>5. \A i \in 0 .. n : i \in T
  <2> HIDE DEF T
  <2>. QED BY <1>2, <1>3, <1>4, UpTo
<1>6. n \in T
  BY <1>2, <1>5
<1>. QED BY <1>1, <1>6 DEF s, n
-----------------------------------------------------------------------------
(* Splitting.                                                                *)
Read == [start : Nat, length : 1 .. MaxReadLength]

LEMMA DivisionUp ==
  ASSUME NEW l \in Nat \ {0}, NEW m \in Nat \ {0}
  PROVE  LET q == (l + m - 1) \div m IN
         q \in Nat \ {0} /\ m * (q - 1) < l /\ l <= m * q
<1> DEFINE x == l + m - 1
           q == x \div m
           p == m * q
<1>1. x \in Nat /\ x >= m
  OBVIOUS
<1>2. q \in Int /\ p <= x /\ x < p + m
  BY <1>1
<1>3. q > 0
  <2>1. SUFFICES ASSUME q <= 0 PROVE FALSE
    BY <1>2
  <2>2. m * q <= 0
    BY <1>2, <2>1
  <2>. QED BY <1>1, <1>2, <2>2
<1>4. m * (q - 1) = p - m
  BY <1>2
<1> HIDE DEF p, q
<1>5. p \in Int
  BY <1>2 DEF p
<1>6. p - m < l /\ l <= p
  BY <1>2, <1>5
<1>. QED BY <1>2, <1>3, <1>4, <1>6 DEF p, q

LEMMA Division ==
  ASSUME NEW y \in Nat, NEW m \in Nat \ {0}
  PROVE  (y \div m) \in Nat /\ m * (y \div m) <= y /\ y < m * (y \div m) + m
OBVIOUS

LEMMA Times ==
  ASSUME NEW m \in Nat, NEW j \in Nat, NEW k \in Nat
  PROVE  m * j \in Nat /\ (j <= k => m * j <= m * k) /\ (j < k => m * j + m <= m * k)
<1>1. m * j \in Nat
  OBVIOUS
<1>2. ASSUME j <= k PROVE m * j <= m * k
  <2>1. k - j \in Nat /\ m * (k - j) = m * k - m * j
    BY <1>2
  <2>2. m * (k - j) \in Nat
    BY <2>1
  <2>. QED BY <2>1, <2>2
<1>3. ASSUME j < k PROVE m * j + m <= m * k
  <2>1. k - j - 1 \in Nat /\ m * (k - j - 1) = m * k - m * j - m
    BY <1>3
  <2>2. m * (k - j - 1) \in Nat
    BY <2>1
  <2>. QED BY <2>1, <2>2
<1>. QED BY <1>1, <1>2, <1>3

LEMMA TimesLess ==
  ASSUME NEW m \in Nat, NEW j \in Nat, NEW k \in Nat, m * j < m * k
  PROVE  j < k
<1>. SUFFICES ASSUME k <= j PROVE FALSE
  OBVIOUS
<1>1. m * k <= m * j /\ m * k \in Nat /\ m * j \in Nat
  BY Times
<1>. QED BY <1>1
LEMMA NeededRight ==
  ASSUME NEW b \in Block
  PROVE  /\ Needed(b) \in Nat \ {0} /\ b.length <= MaxReadLength * Needed(b)
         /\ \A i \in 1 .. Needed(b) : (i - 1) * MaxReadLength \in Nat /\ (i - 1) * MaxReadLength < b.length
<1> DEFINE q == Needed(b)
<1>1. b.length \in Nat \ {0} /\ MaxReadLength \in Nat \ {0}
  BY BlockAssumption DEF Block
<1>2. q \in Nat \ {0} /\ MaxReadLength * (q - 1) < b.length /\ b.length <= MaxReadLength * q
  BY <1>1, DivisionUp DEF Needed
<1> HIDE DEF q
<1>3. ASSUME NEW i \in 1 .. q
      PROVE  (i - 1) * MaxReadLength \in Nat /\ (i - 1) * MaxReadLength < b.length
  <2>1. i - 1 \in Nat /\ q - 1 \in Nat /\ i - 1 <= q - 1
    BY <1>2
  <2>2. MaxReadLength * (i - 1) \in Nat /\ MaxReadLength * (i - 1) <= MaxReadLength * (q - 1) /\ MaxReadLength * (q - 1) \in Nat
    BY <1>1, <2>1, Times
  <2>3. MaxReadLength * (i - 1) = (i - 1) * MaxReadLength
    BY <1>1, <2>1
  <2>. QED BY <1>1, <1>2, <2>2, <2>3
<1>. QED BY <1>2, <1>3 DEF q

(* How many requests the first j blocks need.                                *)
Counts(w, total, bs) ==
  /\ w \in [0 .. Len(bs) -> 0 .. total]
  /\ w[0] = 0
  /\ \A j \in 1 .. Len(bs) : w[j] = w[j - 1] + Needed(bs[j])

LEMMA CountStates ==
  ASSUME NEW bs \in Seq(Block)
  PROVE  NeededFor(bs) \in Nat /\ \E w : Counts(w, NeededFor(bs), bs)
<1> DEFINE n == Len(bs)
           Defines(f) == f = [i \in 0 .. n |-> IF i = 0 THEN 0 ELSE AddNeeded(f[i - 1], bs[i])]
           after == CHOOSE f : Defines(f)
           g == [i \in 1 .. n |-> [c \in Nat |-> AddNeeded(c, bs[i])]]
<1>1. NeededFor(bs) = after[n]
  BY DEF NeededFor, Loop
<1>2. n \in Nat /\ \A i \in 1 .. n : bs[i] \in Block
  OBVIOUS
<1>3. ASSUME NEW c \in Nat, NEW b \in Block PROVE AddNeeded(c, b) = c + Needed(b) /\ AddNeeded(c, b) \in Nat
  BY NeededRight DEF AddNeeded
<1>4. g \in [1 .. n -> [Nat -> Nat]]
  BY <1>2, <1>3
<1>5. \A i \in 1 .. n, c \in Nat : g[i][c] = AddNeeded(c, bs[i])
  OBVIOUS
<1> HIDE DEF g, n
<1>6. PICK h : LoopStates(h, Nat, 0, n, g)
  BY <1>2, <1>4, LoopExists
<1>7. /\ h \in [0 .. n -> Nat] /\ h[0] = 0
      /\ \A i \in 1 .. n : h[i] = AddNeeded(h[i - 1], bs[i]) /\ h[i - 1] \in Nat /\ h[i] \in Nat
  <2>1. \A i \in 1 .. n : i - 1 \in 0 .. n /\ i \in 0 .. n
    BY <1>2
  <2>. QED BY <1>5, <1>6, <2>1 DEF LoopStates
<1>8. Defines(h)
  <2>1. \A i \in 0 .. n : h[i] = IF i = 0 THEN 0 ELSE AddNeeded(h[i - 1], bs[i])
    BY <1>2, <1>7
  <2>. QED BY <1>7, <2>1
<1>9. Defines(after)
  BY <1>8
<1> HIDE DEF after
<1>10. after[0] = 0 /\ \A i \in 1 .. n : after[i] = AddNeeded(after[i - 1], bs[i])
  BY <1>2, <1>9
<1> HIDE DEF Defines
<1>11. \A i \in 0 .. n : after[i] \in Nat
  <2>1. \A i \in 1 .. n : after[i - 1] \in Nat => after[i] = g[i][after[i - 1]]
    BY <1>5, <1>10
  <2> DEFINE X == Nat
  <2>2. 0 \in X /\ g \in [1 .. n -> [X -> X]] /\ after[0] = 0
    BY <1>4, <1>10
  <2>3. \A i \in 1 .. n : after[i - 1] \in X => after[i] = g[i][after[i - 1]]
    BY <2>1
  <2> HIDE DEF X
  <2>4. \A i \in 0 .. n : after[i] \in X
    BY <1>2, <2>2, <2>3, LoopKeeps
  <2>. QED BY <2>4 DEF X
<1>12. ASSUME NEW i \in 1 .. n
       PROVE  /\ i - 1 \in 0 .. n /\ after[i - 1] \in Nat /\ after[i] \in Nat
              /\ after[i] = after[i - 1] + Needed(bs[i]) /\ after[i - 1] <= after[i]
  <2>1. i - 1 \in 0 .. n /\ i \in 0 .. n
    BY <1>2
  <2>2. after[i - 1] \in Nat /\ after[i] \in Nat /\ bs[i] \in Block
    BY <1>2, <1>11, <2>1
  <2>3. after[i] = AddNeeded(after[i - 1], bs[i])
    BY <1>10
  <2>4. AddNeeded(after[i - 1], bs[i]) = after[i - 1] + Needed(bs[i])
    BY <1>3, <2>2
  <2>5. Needed(bs[i]) \in Nat
    BY <2>2, NeededRight
  <2>. QED BY <2>1, <2>2, <2>3, <2>4, <2>5
<1>13. \A i \in 0 .. n : after[i] \in 0 .. after[n]
  <2> DEFINE T == {k \in 0 .. n : after[n - k] <= after[n]}
  <2>1. 0 \in T
    BY <1>2, <1>11
  <2>2. ASSUME NEW k \in 1 .. n, k - 1 \in T PROVE k \in T
    <3>1. n - (k - 1) \in 1 .. n /\ n - (k - 1) - 1 = n - k /\ n \in 0 .. n
      BY <1>2
    <3>2. /\ after[n - k] <= after[n - (k - 1)] /\ after[n - (k - 1)] <= after[n]
          /\ after[n - k] \in Nat /\ after[n - (k - 1)] \in Nat /\ after[n] \in Nat
      BY <1>11, <1>12, <2>2, <3>1
    <3>. QED BY <1>2, <3>2
  <2>3. \A k \in 0 .. n : k \in T
    <3> HIDE DEF T
    <3>. QED BY <1>2, <2>1, <2>2, UpTo
  <2>4. ASSUME NEW i \in 0 .. n PROVE after[i] \in 0 .. after[n]
    <3>1. n - i \in 0 .. n /\ n - (n - i) = i /\ n \in 0 .. n
      BY <1>2
    <3>. QED BY <1>11, <2>3, <3>1
  <2>. QED BY <2>4
<1>14. after \in [0 .. n -> 0 .. after[n]]
  <2>1. after = [i \in 0 .. n |-> after[i]]
    BY <1>9 DEF Defines
  <2>. QED BY <1>13, <2>1
<1>15. n \in 0 .. n /\ after[n] \in Nat
  BY <1>2, <1>11
<1>. QED BY <1>1, <1>10, <1>12, <1>14, <1>15 DEF Counts, n

(* The pieces of a block: where piece i starts, and how long it is.          *)
LEMMA PieceOf ==
  ASSUME NEW b \in Block, NEW n \in 1 .. Needed(b), NEW i \in 1 .. n,
         NEW off, off = (i - 1) * MaxReadLength
  PROVE  /\ off \in Nat /\ off < b.length
         /\ SplitInto(b, n)[i] \in Read
         /\ SplitInto(b, n)[i].start = b.start + off
         /\ SplitInto(b, n)[i].length <= b.length - off
         /\ SplitInto(b, n)[i].length # b.length - off => SplitInto(b, n)[i].length = MaxReadLength
<1> DEFINE rest == b.length - off
           p == [start |-> b.start + off, length |-> IF rest > MaxReadLength THEN MaxReadLength ELSE rest]
<1>1. b.length \in Nat \ {0} /\ b.start \in Nat /\ MaxReadLength \in Nat \ {0}
  BY BlockAssumption DEF Block
<1>2. off \in Nat /\ off < b.length
  <2>1. i \in 1 .. Needed(b)
    BY NeededRight
  <2>. QED BY <2>1, NeededRight
<1>3. SplitInto(b, n)[i] = p
  BY DEF SplitInto
<1>4. rest \in Nat \ {0}
  BY <1>1, <1>2
<1> HIDE DEF rest
<1>5. p \in Read /\ p.start = b.start + off /\ p.length <= rest /\ (p.length # rest => p.length = MaxReadLength)
  BY <1>1, <1>2, <1>4 DEF Read
<1> HIDE DEF p
<1>. QED BY <1>2, <1>3, <1>5 DEF rest

LEMMA PiecesFit ==
  ASSUME NEW b \in Block, NEW n \in 1 .. Needed(b)
  PROVE  /\ SplitInto(b, n) \in Seq(Read) /\ Len(SplitInto(b, n)) = n /\ Apart(SplitInto(b, n))
         /\ \A k \in 1 .. n, x \in Nat : InBlock(x, SplitInto(b, n)[k]) => InBlock(x, b)
         /\ n = Needed(b) => \A x \in Nat : InBlock(x, b) => InBlocks(x, SplitInto(b, n))
<1> DEFINE t == SplitInto(b, n)
<1>1. b.length \in Nat \ {0} /\ b.start \in Nat /\ MaxReadLength \in Nat \ {0}
  BY BlockAssumption DEF Block
<1>2. n \in Nat \ {0} /\ \A i \in 1 .. n : t[i] \in Read
  <2>1. n \in Nat \ {0}
    BY NeededRight
  <2>. QED BY <2>1, PieceOf
<1>3. t \in Seq(Read) /\ Len(t) = n
  <2>1. t \in [1 .. n -> Read]
    BY <1>2 DEF SplitInto
  <2>2. n \in Nat
    BY <1>2
  <2> HIDE DEF t
  <2>. QED BY <2>1, <2>2
<1>4. ASSUME NEW j \in 1 .. n, NEW k \in 1 .. n, j < k PROVE BlockEnd(t[j]) < t[k].start
  <2> DEFINE offj == (j - 1) * MaxReadLength
             offk == (k - 1) * MaxReadLength
  <2>1. offj \in Nat /\ t[j] \in Read /\ t[j].start = b.start + offj /\ t[j].length <= MaxReadLength
    BY PieceOf, BlockAssumption DEF Read
  <2>2. offk \in Nat /\ t[k].start = b.start + offk
    BY PieceOf
  <2>3. offj + MaxReadLength <= offk
    <3>1. j - 1 \in Nat /\ k - 1 \in Nat /\ j - 1 < k - 1
      BY <1>2, <1>4
    <3>2. MaxReadLength * (j - 1) + MaxReadLength <= MaxReadLength * (k - 1)
      BY <1>1, <3>1, Times
    <3>3. MaxReadLength * (j - 1) = offj /\ MaxReadLength * (k - 1) = offk
      BY <1>1, <3>1
    <3>. QED BY <3>2, <3>3
  <2>4. t[j].length \in Nat
    BY <2>1, BlockAssumption DEF Read
  <2> HIDE DEF t, offj, offk
  <2>. QED BY <1>1, <2>1, <2>2, <2>3, <2>4 DEF BlockEnd
<1>5. ASSUME NEW k \in 1 .. n, NEW x \in Nat, InBlock(x, t[k]) PROVE InBlock(x, b)
  <2> DEFINE off == (k - 1) * MaxReadLength
  <2>1. off \in Nat /\ t[k] \in Read /\ t[k].start = b.start + off /\ t[k].length <= b.length - off
    BY PieceOf
  <2>2. t[k].length \in Nat
    BY <2>1, BlockAssumption DEF Read
  <2> HIDE DEF t, off
  <2>. QED BY <1>1, <1>5, <2>1, <2>2 DEF InBlock, BlockEnd
<1>6. ASSUME n = Needed(b), NEW x \in Nat, InBlock(x, b) PROVE InBlocks(x, t)
  <2> DEFINE y == x - b.start
             d == y \div MaxReadLength
             off == MaxReadLength * d
  <2>1. y \in Nat /\ y < b.length
    BY <1>1, <1>6 DEF InBlock, BlockEnd
  <2>2. d \in Nat /\ off <= y /\ y < off + MaxReadLength
    <3> HIDE DEF y
    <3>. QED BY <1>1, <2>1, Division
  <2>3. b.length <= MaxReadLength * n /\ MaxReadLength * n \in Nat
    BY <1>1, <1>2, <1>6, NeededRight
  <2> HIDE DEF d, y
  <2>4. off \in Nat
    BY <1>1, <2>2
  <2>5. d < n
    <3>1. MaxReadLength * d < MaxReadLength * n
      BY <1>1, <2>1, <2>2, <2>3, <2>4
    <3>. QED BY <1>1, <1>2, <2>2, <3>1, TimesLess
  <2> DEFINE i == d + 1
  <2>6. i \in 1 .. n /\ off = (i - 1) * MaxReadLength
    BY <1>1, <1>2, <2>2, <2>5
  <2> HIDE DEF i, off
  <2>7. /\ t[i].start = b.start + off /\ t[i] \in Read
        /\ t[i].length # b.length - off => t[i].length = MaxReadLength
    BY <2>6, PieceOf
  <2>8. t[i].length \in Nat
    BY <2>7, BlockAssumption DEF Read
  <2> HIDE DEF t
  <2>9. InBlock(x, t[i])
    BY <1>1, <2>1, <2>2, <2>4, <2>7, <2>8 DEF InBlock, BlockEnd, y, off
  <2>. QED BY <1>3, <2>6, <2>9 DEF InBlocks
<1> HIDE DEF t
<1>7. Apart(t)
  BY <1>3, <1>4 DEF Apart
<1>. QED BY <1>3, <1>5, <1>6, <1>7 DEF t
(* What the loop over the blocks has made of the first i, whatever the limit *)
(* on the number of requests.                                                *)
Split(bs, i, rs) ==
  /\ rs \in Seq(Read)
  /\ Apart(rs)
  /\ \A k \in 1 .. Len(rs) : \E j \in 1 .. i : \A x \in Nat : InBlock(x, rs[k]) => InBlock(x, bs[j])

(* As long as the limit is not met, nothing is left out.                     *)
Complete(w, bs, i, rs) ==
  /\ Len(rs) <= w[i]
  /\ \A j \in 1 .. i, x \in Nat : InBlock(x, bs[j]) => InBlocks(x, rs)

LEMMA SplitCountRight ==
  ASSUME NEW b \in Block, NEW room \in Int
  PROVE  /\ SplitCount(b, room) \in 1 .. Needed(b)
         /\ Needed(b) <= room => SplitCount(b, room) = Needed(b)
<1> DEFINE q == Needed(b)
<1>1. q \in Nat \ {0}
  BY NeededRight
<1>2. SplitCount(b, room) = IF q <= room THEN q ELSE IF room > 0 THEN room ELSE 1
  BY DEF SplitCount, Needed
<1> HIDE DEF q
<1>3. SplitCount(b, room) \in 1 .. q /\ (q <= room => SplitCount(b, room) = q)
  BY <1>1, <1>2
<1>. QED BY <1>3 DEF q

LEMMA ReadIsBlock ==
  ASSUME NEW r \in Read
  PROVE  r \in Block /\ r.start \in Nat /\ BlockEnd(r) \in Nat
         /\ InBlock(r.start, r) /\ InBlock(BlockEnd(r), r)
<1>1. r.start \in Nat /\ r.length \in Nat \ {0} /\ r \in Block
  BY BlockAssumption DEF Read, Block
<1>2. BlockEnd(r) = r.start + (r.length - 1)
  BY <1>1 DEF BlockEnd
<1>. QED BY <1>1, <1>2 DEF InBlock

LEMMA AddSplitKeepsSplit ==
  ASSUME NEW bs \in Seq(Block), Apart(bs), NEW i \in 1 .. Len(bs), NEW rs, Split(bs, i - 1, rs)
  PROVE  Split(bs, i, AddSplit(rs, bs[i]))
<1> DEFINE b == bs[i]
           n == SplitCount(b, MaxReadRequests - Len(rs))
           t == SplitInto(b, n)
           u == AddSplit(rs, b)
           l == Len(rs)
<1>1. /\ rs \in Seq(Read) /\ l \in Nat
      /\ \A j, k \in 1 .. l : j < k => BlockEnd(rs[j]) < rs[k].start
  BY DEF Split, Apart
<1>2. \A k \in 1 .. l : \E j \in 1 .. i - 1 : \A x \in Nat : InBlock(x, rs[k]) => InBlock(x, bs[j])
  BY DEF Split
<1>3. b \in Block /\ i \in Nat \ {0} /\ Len(bs) \in Nat /\ MaxReadRequests - l \in Int
  BY <1>1, BlockAssumption
<1>4. n \in 1 .. Needed(b)
  BY <1>3, SplitCountRight
<1>5. u = rs \o t
  BY DEF AddSplit
<1> HIDE DEF n
<1>6. /\ t \in Seq(Read) /\ Len(t) = n /\ Apart(t)
      /\ \A k \in 1 .. n, x \in Nat : InBlock(x, t[k]) => InBlock(x, b)
  BY <1>3, <1>4, PiecesFit
<1>7. n \in Nat
  BY <1>3, <1>4, NeededRight
<1> HIDE DEF t, u
<1>8. /\ u \in Seq(Read) /\ Len(u) = l + n
      /\ \A k \in 1 .. l : u[k] = rs[k]
      /\ \A k \in l + 1 .. l + n : u[k] = t[k - l]
  BY <1>1, <1>5, <1>6, Concatenated
<1>9. \A k \in l + 1 .. l + n : k - l \in 1 .. n
  BY <1>1, <1>7
<1>10. \A j \in 1 .. i - 1 : BlockEnd(bs[j]) < b.start
  BY <1>3 DEF Apart
<1>11. \A k \in 1 .. l : rs[k] \in Read
  BY <1>1
<1>12. \A k \in 1 .. n : t[k] \in Read
  BY <1>6
<1> HIDE DEF l, b
<1>13. ASSUME NEW k \in 1 .. l PROVE BlockEnd(rs[k]) < b.start
  <2>1. BlockEnd(rs[k]) \in Nat /\ InBlock(BlockEnd(rs[k]), rs[k])
    BY <1>11, ReadIsBlock
  <2>2. PICK j \in 1 .. i - 1 : \A x \in Nat : InBlock(x, rs[k]) => InBlock(x, bs[j])
    BY <1>2
  <2>3. BlockEnd(rs[k]) <= BlockEnd(bs[j])
    BY <2>1, <2>2 DEF InBlock
  <2>4. BlockEnd(bs[j]) \in Nat /\ b.start \in Nat
    <3>1. bs[j] \in Block
      BY <1>3
    <3>. QED BY <1>3, <3>1, BlockNumbers
  <2>. QED BY <1>10, <2>1, <2>3, <2>4
<1>14. ASSUME NEW k \in 1 .. n PROVE b.start <= t[k].start /\ t[k].start \in Nat
  <2>1. t[k].start \in Nat /\ InBlock(t[k].start, t[k])
    BY <1>12, ReadIsBlock
  <2>. QED BY <1>6, <2>1 DEF InBlock
<1>15. ASSUME NEW j \in 1 .. l + n, NEW k \in 1 .. l + n, j < k PROVE BlockEnd(u[j]) < u[k].start
  <2>1. CASE k \in 1 .. l
    <3>1. j \in 1 .. l
      BY <1>1, <1>15, <2>1
    <3>. QED BY <1>1, <1>8, <1>15, <2>1, <3>1
  <2>2. CASE k \in l + 1 .. l + n /\ j \in 1 .. l
    <3>1. u[k] = t[k - l] /\ k - l \in 1 .. n /\ u[j] = rs[j]
      BY <1>8, <1>9, <2>2
    <3>2. BlockEnd(rs[j]) < b.start /\ b.start <= t[k - l].start /\ t[k - l].start \in Nat
      BY <1>13, <1>14, <2>2, <3>1
    <3>3. BlockEnd(rs[j]) \in Nat /\ b.start \in Nat
      BY <1>3, <1>11, <2>2, BlockNumbers, ReadIsBlock
    <3>. QED BY <3>1, <3>2, <3>3
  <2>3. CASE k \in l + 1 .. l + n /\ j \in l + 1 .. l + n
    <3>1. u[k] = t[k - l] /\ k - l \in 1 .. n /\ u[j] = t[j - l] /\ j - l \in 1 .. n /\ j - l < k - l
      BY <1>1, <1>8, <1>9, <1>15, <2>3
    <3>. QED BY <1>6, <3>1 DEF Apart
  <2>. QED BY <1>1, <1>7, <2>1, <2>2, <2>3
<1>16. ASSUME NEW k \in 1 .. l + n
       PROVE  \E j \in 1 .. i : \A x \in Nat : InBlock(x, u[k]) => InBlock(x, bs[j])
  <2>1. CASE k \in 1 .. l
    <3>1. PICK j \in 1 .. i - 1 : \A x \in Nat : InBlock(x, rs[k]) => InBlock(x, bs[j])
      BY <1>2, <2>1
    <3>2. j \in 1 .. i /\ u[k] = rs[k]
      BY <1>3, <1>8, <2>1
    <3>. QED BY <3>1, <3>2
  <2>2. CASE k \in l + 1 .. l + n
    <3>1. u[k] = t[k - l] /\ k - l \in 1 .. n
      BY <1>8, <1>9, <2>2
    <3>2. i \in 1 .. i
      BY <1>3
    <3>. QED BY <1>6, <3>1, <3>2 DEF b
  <2>3. l \in Nat
    BY <1>1
  <2>4. k \in 1 .. l \/ k \in l + 1 .. l + n
    BY <1>7, <2>3
  <2>. QED BY <2>1, <2>2, <2>4
<1>17. Apart(u)
  BY <1>8, <1>15 DEF Apart
<1>. QED BY <1>8, <1>16, <1>17 DEF Split, u, b
LEMMA AddSplitKeepsComplete ==
  ASSUME NEW bs \in Seq(Block), NEW i \in 1 .. Len(bs), NEW rs \in Seq(Read),
         NEW total \in Nat, total <= MaxReadRequests, NEW w, Counts(w, total, bs),
         Complete(w, bs, i - 1, rs)
  PROVE  Complete(w, bs, i, AddSplit(rs, bs[i]))
<1> DEFINE b == bs[i]
           n == SplitCount(b, MaxReadRequests - Len(rs))
           t == SplitInto(b, n)
           u == AddSplit(rs, b)
           l == Len(rs)
<1>1. b \in Block /\ i \in Nat \ {0} /\ l \in Nat /\ MaxReadRequests \in Nat /\ b.length \in Nat
  BY BlockAssumption, BlockNumbers
<1>2. w[i - 1] \in 0 .. total /\ w[i] \in 0 .. total /\ w[i] = w[i - 1] + Needed(b)
  <2>1. i \in 0 .. Len(bs) /\ i - 1 \in 0 .. Len(bs)
    BY <1>1
  <2>. QED BY <2>1 DEF Counts
<1>3. l <= w[i - 1] /\ \A j \in 1 .. i - 1, x \in Nat : InBlock(x, bs[j]) => InBlocks(x, rs)
  BY DEF Complete
<1>4. Needed(b) \in Nat \ {0}
  BY <1>1, NeededRight
<1>5. n = Needed(b)
  <2>1. MaxReadRequests - l \in Int /\ Needed(b) <= MaxReadRequests - l
    BY <1>1, <1>2, <1>3, <1>4
  <2>. QED BY <1>1, <2>1, SplitCountRight
<1>6. u = rs \o t
  BY DEF AddSplit
<1> HIDE DEF n
<1>7. /\ t \in Seq(Read) /\ Len(t) = n
      /\ \A x \in Nat : InBlock(x, b) => InBlocks(x, t)
  <2>1. n \in 1 .. Needed(b)
    BY <1>4, <1>5
  <2>. QED BY <1>1, <1>5, <2>1, PiecesFit
<1> HIDE DEF t, u
<1>8. /\ Len(u) = l + n
      /\ \A k \in 1 .. l : u[k] = rs[k]
      /\ \A k \in l + 1 .. l + n : u[k] = t[k - l]
  BY <1>6, <1>7, Concatenated
<1>9. \A k \in 1 .. n : k + l \in l + 1 .. l + n /\ (k + l) - l = k
  BY <1>1, <1>4, <1>5
<1>10. \A k \in 1 .. l : k \in 1 .. l + n
  BY <1>1, <1>4, <1>5
<1>11. \A k \in l + 1 .. l + n : k \in 1 .. l + n
  BY <1>1
<1>12. Len(u) <= w[i]
  BY <1>1, <1>2, <1>3, <1>4, <1>5, <1>8
<1> HIDE DEF l
<1>13. ASSUME NEW j \in 1 .. i, NEW x \in Nat, InBlock(x, bs[j]) PROVE InBlocks(x, u)
  <2>1. CASE j \in 1 .. i - 1
    <3>1. PICK k \in 1 .. l : InBlock(x, rs[k])
      BY <1>3, <1>13, <2>1 DEF InBlocks, l
    <3>. QED BY <1>8, <1>10, <3>1 DEF InBlocks
  <2>2. CASE j = i
    <3>1. PICK k \in 1 .. n : InBlock(x, t[k])
      BY <1>7, <1>13, <2>2 DEF InBlocks
    <3>2. u[k + l] = t[k] /\ k + l \in 1 .. l + n
      BY <1>8, <1>9, <1>11
    <3>. QED BY <1>8, <3>1, <3>2 DEF InBlocks
  <2>. QED BY <1>1, <2>1, <2>2
<1>. QED BY <1>12, <1>13 DEF Complete, u, b

(* The states of the loop that splits.                                       *)
LEMMA SplitStates ==
  ASSUME NEW bs \in Seq(Block)
  PROVE  \E f : /\ SplitBlocks(bs) = f[Len(bs)]
                /\ f[0] = << >>
                /\ \A i \in 1 .. Len(bs) : f[i] = AddSplit(f[i - 1], bs[i])
<1> DEFINE n == Len(bs)
           Defines(f) == f = [i \in 0 .. n |-> IF i = 0 THEN << >> ELSE AddSplit(f[i - 1], bs[i])]
           after == CHOOSE f : Defines(f)
           X == Seq(Read)
           g == [i \in 1 .. n |-> [rs \in X |-> AddSplit(rs, bs[i])]]
<1>1. SplitBlocks(bs) = after[n]
  BY DEF SplitBlocks, Loop
<1>2. n \in Nat /\ \A i \in 1 .. n : bs[i] \in Block
  OBVIOUS
<1>3. << >> \in X
  OBVIOUS
<1>4. ASSUME NEW rs \in X, NEW b \in Block PROVE AddSplit(rs, b) \in X
  <2> DEFINE c == SplitCount(b, MaxReadRequests - Len(rs))
             t == SplitInto(b, c)
  <2>1. MaxReadRequests - Len(rs) \in Int
    BY BlockAssumption
  <2>2. c \in 1 .. Needed(b)
    BY <2>1, SplitCountRight
  <2> HIDE DEF c
  <2>3. t \in Seq(Read)
    BY <2>2, PiecesFit
  <2>4. AddSplit(rs, b) = rs \o t
    BY DEF AddSplit, c
  <2> HIDE DEF t
  <2>. QED BY <2>3, <2>4, Concatenated
<1> HIDE DEF X
<1>5. g \in [1 .. n -> [X -> X]]
  BY <1>2, <1>4
<1>6. \A i \in 1 .. n, rs \in X : g[i][rs] = AddSplit(rs, bs[i])
  OBVIOUS
<1> HIDE DEF g, n
<1>7. PICK h : LoopStates(h, X, << >>, n, g)
  BY <1>2, <1>3, <1>5, LoopExists
<1>8. Defines(h)
  <2>1. \A i \in 1 .. n : i - 1 \in 0 .. n
    BY <1>2
  <2>2. \A i \in 1 .. n : h[i] = AddSplit(h[i - 1], bs[i])
    BY <1>6, <1>7, <2>1 DEF LoopStates
  <2>3. \A i \in 0 .. n : h[i] = IF i = 0 THEN << >> ELSE AddSplit(h[i - 1], bs[i])
    BY <1>2, <1>7, <2>2 DEF LoopStates
  <2>. QED BY <1>7, <2>3 DEF LoopStates
<1>9. Defines(after)
  BY <1>8
<1> HIDE DEF after
<1>10. after[0] = << >> /\ \A i \in 1 .. n : after[i] = AddSplit(after[i - 1], bs[i])
  BY <1>2, <1>9
<1>. QED BY <1>1, <1>10 DEF n

(* What splitting makes of the blocks.                                       *)
LEMMA SplitRight ==
  ASSUME NEW bs \in Seq(Block), Apart(bs)
  PROVE  /\ Split(bs, Len(bs), SplitBlocks(bs))
         /\ \A w : \A total \in 0 .. MaxReadRequests :
              Counts(w, total, bs) => Complete(w, bs, Len(bs), SplitBlocks(bs))
<1> DEFINE n == Len(bs)
<1>1. PICK f : /\ SplitBlocks(bs) = f[n]
               /\ f[0] = << >>
               /\ \A i \in 1 .. n : f[i] = AddSplit(f[i - 1], bs[i])
  BY SplitStates
<1>2. n \in Nat
  OBVIOUS
<1> HIDE DEF n
<1>3. \A i \in 0 .. n : Split(bs, i, f[i])
  <2> DEFINE T == {i \in 0 .. n : Split(bs, i, f[i])}
  <2>1. 0 \in T
    <3>1. Split(bs, 0, << >>)
      BY DEF Split, Apart
    <3>. QED BY <1>1, <1>2, <3>1
  <2>2. ASSUME NEW i \in 1 .. n, i - 1 \in T PROVE i \in T
    <3> DEFINE rs == f[i - 1]
    <3>1. Split(bs, i - 1, rs) /\ f[i] = AddSplit(rs, bs[i]) /\ i \in 1 .. Len(bs)
      BY <1>1, <2>2 DEF n
    <3> HIDE DEF rs, T
    <3>2. Split(bs, i, AddSplit(rs, bs[i]))
      BY <3>1, AddSplitKeepsSplit
    <3>. QED BY <1>2, <3>1, <3>2 DEF T
  <2>3. \A i \in 0 .. n : i \in T
    <3> HIDE DEF T
    <3>. QED BY <1>2, <2>1, <2>2, UpTo
  <2>. QED BY <2>3
<1>4. ASSUME NEW w, NEW total \in 0 .. MaxReadRequests, Counts(w, total, bs)
      PROVE  Complete(w, bs, n, f[n])
  <2> DEFINE T == {i \in 0 .. n : Complete(w, bs, i, f[i])}
  <2>1. 0 \in T
    <3>1. Complete(w, bs, 0, << >>)
      BY <1>4 DEF Complete, Counts
    <3>. QED BY <1>1, <1>2, <3>1
  <2>2. ASSUME NEW i \in 1 .. n, i - 1 \in T PROVE i \in T
    <3> DEFINE rs == f[i - 1]
    <3>1. Complete(w, bs, i - 1, rs) /\ f[i] = AddSplit(rs, bs[i]) /\ i \in 1 .. Len(bs)
      BY <1>1, <2>2 DEF n
    <3>2. rs \in Seq(Read)
      <4>1. i - 1 \in 0 .. n
        BY <1>2
      <4>. QED BY <1>3, <4>1 DEF Split
    <3>3. total \in Nat /\ total <= MaxReadRequests
      BY BlockAssumption
    <3> HIDE DEF rs, T
    <3>4. Complete(w, bs, i, AddSplit(rs, bs[i]))
      BY <1>4, <3>1, <3>2, <3>3, AddSplitKeepsComplete
    <3>. QED BY <1>2, <3>1, <3>4 DEF T
  <2>3. \A i \in 0 .. n : i \in T
    <3> HIDE DEF T
    <3>. QED BY <1>2, <2>1, <2>2, UpTo
  <2>. QED BY <1>2, <2>3
<1>5. Split(bs, n, f[n])
  BY <1>2, <1>3
<1>. QED BY <1>1, <1>4, <1>5 DEF n
-----------------------------------------------------------------------------
(* The reads of one sort of addresses.                                       *)
Reads(addrs) == SplitBlocks(MergeWithGap(addrs))

(* They are short and apart, they read only what is between two addresses a  *)
(* small gap apart, and all addresses unless the limit may be met.           *)
LEMMA ReadsRight ==
  ASSUME NEW addrs \in Seq(Addr)
  PROVE  /\ Reads(addrs) \in Seq(Read) /\ Apart(Reads(addrs))
         /\ \A k \in 1 .. Len(Reads(addrs)), x \in Nat : InBlock(x, Reads(addrs)[k]) =>
              \E lo, hi \in Addr : /\ Holds(addrs, lo) /\ Holds(addrs, hi)
                                   /\ lo <= x /\ x <= hi /\ hi - lo <= MaxMergeGap
         /\ NeededFor(MergeWithGap(addrs)) \in Nat
         /\ NeededFor(MergeWithGap(addrs)) <= MaxReadRequests =>
              \A a : Holds(addrs, a) => InBlocks(a, Reads(addrs))
<1> DEFINE s == SortAddresses(addrs)
           bs == MergeWithGap(addrs)
           rs == Reads(addrs)
           n == Len(addrs)
           needed == NeededFor(bs)
<1>1. /\ s \in Seq(Addr) /\ Len(s) = n /\ n \in Nat
      /\ \A x : Holds(s, x) <=> Holds(addrs, x)
  BY SortRight
<1>2. Merged(s, n, bs)
  BY MergeRight
<1>3. rs = SplitBlocks(bs)
  BY DEF Reads
<1> HIDE DEF s, bs, rs, n
<1>4. bs \in Seq(Block) /\ Apart(bs)
  BY <1>2 DEF Merged
<1>5. needed \in Nat /\ \E w : Counts(w, needed, bs)
  BY <1>4, CountStates
<1> HIDE DEF needed
<1>6. /\ Split(bs, Len(bs), rs)
      /\ \A w : \A total \in 0 .. MaxReadRequests :
           Counts(w, total, bs) => Complete(w, bs, Len(bs), rs)
  BY <1>3, <1>4, SplitRight
<1>7. ASSUME NEW k \in 1 .. Len(rs), NEW x \in Nat, InBlock(x, rs[k])
      PROVE  \E lo, hi \in Addr : /\ Holds(addrs, lo) /\ Holds(addrs, hi)
                                  /\ lo <= x /\ x <= hi /\ hi - lo <= MaxMergeGap
  <2>1. PICK j \in 1 .. Len(bs) : \A y \in Nat : InBlock(y, rs[k]) => InBlock(y, bs[j])
    BY <1>6 DEF Split
  <2>2. Between(s, x)
    BY <1>2, <1>7, <2>1 DEF Merged
  <2>3. PICK lo, hi \in 1 .. Len(s) : s[lo] <= x /\ x <= s[hi] /\ s[hi] - s[lo] <= MaxMergeGap
    BY <2>2 DEF Between
  <2>4. s[lo] \in Addr /\ s[hi] \in Addr
    BY <1>1
  <2>5. Holds(addrs, s[lo]) /\ Holds(addrs, s[hi])
    BY <1>1, <2>3 DEF Holds
  <2>. QED BY <2>3, <2>4, <2>5
<1>8. ASSUME needed <= MaxReadRequests, NEW a, Holds(addrs, a) PROVE InBlocks(a, rs)
  <2>1. PICK m \in 1 .. Len(s) : s[m] = a
    BY <1>1, <1>8 DEF Holds
  <2>2. m \in 1 .. n /\ a \in Nat
    BY <1>1, <2>1, BlockAssumption DEF Addr
  <2>3. PICK j \in 1 .. Len(bs) : InBlock(a, bs[j])
    BY <1>2, <2>1, <2>2 DEF Merged, InBlocks
  <2>4. needed \in 0 .. MaxReadRequests
    BY <1>5, <1>8, BlockAssumption
  <2>5. \E w : Complete(w, bs, Len(bs), rs)
    BY <1>5, <1>6, <2>4
  <2>. QED BY <2>2, <2>3, <2>5 DEF Complete
<1>9. rs \in Seq(Read) /\ Apart(rs)
  BY <1>6 DEF Split
<1>. QED BY <1>5, <1>7, <1>8, <1>9 DEF rs, needed, bs

(* Each address that is in a read is in one.                                 *)
LEMMA InOne ==
  ASSUME NEW rs \in Seq(Read), Apart(rs), NEW x \in Nat,
         NEW j \in 1 .. Len(rs), NEW k \in 1 .. Len(rs), InBlock(x, rs[j]), InBlock(x, rs[k])
  PROVE  j = k
<1>1. ASSUME NEW p \in 1 .. Len(rs), NEW q \in 1 .. Len(rs), p < q, InBlock(x, rs[p]), InBlock(x, rs[q])
      PROVE  FALSE
  <2>1. BlockEnd(rs[p]) < rs[q].start /\ rs[p] \in Read /\ rs[q] \in Read
    BY <1>1 DEF Apart
  <2>2. BlockEnd(rs[p]) \in Nat /\ rs[q].start \in Nat
    BY <2>1, ReadIsBlock
  <2>. QED BY <1>1, <2>1, <2>2 DEF InBlock
<1>2. j < k \/ k < j \/ j = k
  OBVIOUS
<1>. QED BY <1>1, <1>2

LEMMA AddBitsRight ==
  ASSUME NEW s \in Seq(Addr), NEW e \in Entry
  PROVE  AddBits(s, e) \in Seq(Addr) /\ Len(AddBits(s, e)) <= Len(s) + 1
<1>1. e.addr \in Addr
  BY DEF Entry, Addr
<1>2. CASE e.type = "BIT"
  <2>1. AddBits(s, e) = Append(s, e.addr)
    BY <1>2 DEF AddBits
  <2>. QED BY <1>1, <2>1, Appended
<1>3. CASE e.type # "BIT"
  BY <1>3 DEF AddBits
<1>. QED BY <1>2, <1>3

LEMMA AddWordsRight ==
  ASSUME NEW s \in Seq(Addr), NEW e \in Entry
  PROVE  AddWords(s, e) \in Seq(Addr) /\ Len(AddWords(s, e)) <= Len(s) + 2
<1> DEFINE t == RegistersOf(e)
<1>1. e.addr \in Addr /\ (e.addr + 1) % AddrSpace \in Addr
  BY BlockAssumption DEF Entry, Addr
<1>2. t \in Seq(Addr) /\ Len(t) \in 1 .. 2
  <2>1. <<e.addr, (e.addr + 1) % AddrSpace>> \in Seq(Addr) /\ <<e.addr>> \in Seq(Addr)
    BY <1>1
  <2>. QED BY <2>1 DEF RegistersOf
<1>3. AddWords(s, e) = IF e.type = "BIT" THEN s ELSE s \o t
  BY DEF AddWords
<1> HIDE DEF t
<1> DEFINE l == Len(s)
           k == Len(t)
<1>4. s \o t \in Seq(Addr) /\ Len(s \o t) = l + k /\ l \in Nat /\ k \in 1 .. 2
  BY <1>2, Concatenated
<1> HIDE DEF l, k
<1>5. l + k <= l + 2 /\ l <= l + 2
  BY <1>4
<1>. QED BY <1>3, <1>4, <1>5 DEF l
LEMMA BitStates ==
  ASSUME NEW es \in Seq(Entry)
  PROVE  \E f : /\ BitAddrs(es) = f[Len(es)]
                /\ f[0] = << >>
                /\ \A i \in 1 .. Len(es) : f[i] = AddBits(f[i - 1], es[i])
<1> DEFINE n == Len(es)
           Defines(f) == f = [i \in 0 .. n |-> IF i = 0 THEN << >> ELSE AddBits(f[i - 1], es[i])]
           after == CHOOSE f : Defines(f)
           X == Seq(Addr)
           g == [i \in 1 .. n |-> [s \in X |-> AddBits(s, es[i])]]
<1>1. BitAddrs(es) = after[n]
  BY DEF BitAddrs, Loop
<1>2. n \in Nat /\ \A i \in 1 .. n : es[i] \in Entry
  OBVIOUS
<1>3. << >> \in X
  OBVIOUS
<1>4. \A s \in X, e \in Entry : AddBits(s, e) \in X
  BY AddBitsRight
<1> HIDE DEF X
<1>5. g \in [1 .. n -> [X -> X]]
  BY <1>2, <1>4
<1>6. \A i \in 1 .. n, s \in X : g[i][s] = AddBits(s, es[i])
  OBVIOUS
<1> HIDE DEF g, n
<1>7. PICK h : LoopStates(h, X, << >>, n, g)
  BY <1>2, <1>3, <1>5, LoopExists
<1>8. Defines(h)
  <2>1. \A i \in 1 .. n : i - 1 \in 0 .. n
    BY <1>2
  <2>2. \A i \in 1 .. n : h[i] = AddBits(h[i - 1], es[i])
    BY <1>6, <1>7, <2>1 DEF LoopStates
  <2>3. \A i \in 0 .. n : h[i] = IF i = 0 THEN << >> ELSE AddBits(h[i - 1], es[i])
    BY <1>2, <1>7, <2>2 DEF LoopStates
  <2>. QED BY <1>7, <2>3 DEF LoopStates
<1>9. Defines(after)
  BY <1>8
<1> HIDE DEF after
<1>10. after[0] = << >> /\ \A i \in 1 .. n : after[i] = AddBits(after[i - 1], es[i])
  BY <1>2, <1>9
<1>. QED BY <1>1, <1>10 DEF n

LEMMA BitAddrsRight ==
  ASSUME NEW es \in Seq(Entry)
  PROVE  BitAddrs(es) \in Seq(Addr) /\ Len(BitAddrs(es)) <= Len(es)
<1> DEFINE n == Len(es)
<1>1. PICK f : /\ BitAddrs(es) = f[n]
               /\ f[0] = << >>
               /\ \A i \in 1 .. n : f[i] = AddBits(f[i - 1], es[i])
  BY BitStates
<1> DEFINE T == {i \in 0 .. n : f[i] \in Seq(Addr) /\ Len(f[i]) <= i}
<1>2. n \in Nat /\ \A i \in 1 .. n : es[i] \in Entry
  OBVIOUS
<1> HIDE DEF n
<1>3. 0 \in T
  <2>1. << >> \in Seq(Addr) /\ Len(<< >>) = 0 /\ 0 \in 0 .. n
    BY <1>2
  <2>2. f[0] \in Seq(Addr) /\ Len(f[0]) = 0
    BY <1>1, <2>1
  <2>. QED BY <2>1, <2>2
<1>4. ASSUME NEW i \in 1 .. n, i - 1 \in T PROVE i \in T
  <2> DEFINE s == f[i - 1]
             e == es[i]
             t == AddBits(s, e)
  <2>1. s \in Seq(Addr) /\ Len(s) <= (i - 1) /\ e \in Entry /\ f[i] = t
    BY <1>1, <1>2, <1>4
  <2> HIDE DEF T, s, e
  <2>2. t \in Seq(Addr) /\ Len(t) <= Len(s) + 1
    BY <2>1, AddBitsRight
  <2> DEFINE l == Len(s)
             k == Len(t)
  <2>3. l \in Nat /\ k \in Nat /\ k <= l + 1 /\ l <= (i - 1)
    BY <2>1, <2>2
  <2> HIDE DEF t, l, k
  <2>4. k <= i /\ i \in 0 .. n
    BY <1>2, <2>3
  <2>. QED BY <2>1, <2>2, <2>4 DEF T, k
<1>5. \A i \in 0 .. n : i \in T
  <2> HIDE DEF T
  <2>. QED BY <1>2, <1>3, <1>4, UpTo
<1>6. n \in T
  BY <1>2, <1>5
<1>. QED BY <1>1, <1>6 DEF n

LEMMA WordStates ==
  ASSUME NEW es \in Seq(Entry)
  PROVE  \E f : /\ WordAddrs(es) = f[Len(es)]
                /\ f[0] = << >>
                /\ \A i \in 1 .. Len(es) : f[i] = AddWords(f[i - 1], es[i])
<1> DEFINE n == Len(es)
           Defines(f) == f = [i \in 0 .. n |-> IF i = 0 THEN << >> ELSE AddWords(f[i - 1], es[i])]
           after == CHOOSE f : Defines(f)
           X == Seq(Addr)
           g == [i \in 1 .. n |-> [s \in X |-> AddWords(s, es[i])]]
<1>1. WordAddrs(es) = after[n]
  BY DEF WordAddrs, Loop
<1>2. n \in Nat /\ \A i \in 1 .. n : es[i] \in Entry
  OBVIOUS
<1>3. << >> \in X
  OBVIOUS
<1>4. \A s \in X, e \in Entry : AddWords(s, e) \in X
  BY AddWordsRight
<1> HIDE DEF X
<1>5. g \in [1 .. n -> [X -> X]]
  BY <1>2, <1>4
<1>6. \A i \in 1 .. n, s \in X : g[i][s] = AddWords(s, es[i])
  OBVIOUS
<1> HIDE DEF g, n
<1>7. PICK h : LoopStates(h, X, << >>, n, g)
  BY <1>2, <1>3, <1>5, LoopExists
<1>8. Defines(h)
  <2>1. \A i \in 1 .. n : i - 1 \in 0 .. n
    BY <1>2
  <2>2. \A i \in 1 .. n : h[i] = AddWords(h[i - 1], es[i])
    BY <1>6, <1>7, <2>1 DEF LoopStates
  <2>3. \A i \in 0 .. n : h[i] = IF i = 0 THEN << >> ELSE AddWords(h[i - 1], es[i])
    BY <1>2, <1>7, <2>2 DEF LoopStates
  <2>. QED BY <1>7, <2>3 DEF LoopStates
<1>9. Defines(after)
  BY <1>8
<1> HIDE DEF after
<1>10. after[0] = << >> /\ \A i \in 1 .. n : after[i] = AddWords(after[i - 1], es[i])
  BY <1>2, <1>9
<1>. QED BY <1>1, <1>10 DEF n

LEMMA WordAddrsRight ==
  ASSUME NEW es \in Seq(Entry)
  PROVE  WordAddrs(es) \in Seq(Addr) /\ Len(WordAddrs(es)) <= 2 * Len(es)
<1> DEFINE n == Len(es)
<1>1. PICK f : /\ WordAddrs(es) = f[n]
               /\ f[0] = << >>
               /\ \A i \in 1 .. n : f[i] = AddWords(f[i - 1], es[i])
  BY WordStates
<1> DEFINE T == {i \in 0 .. n : f[i] \in Seq(Addr) /\ Len(f[i]) <= 2 * i}
<1>2. n \in Nat /\ \A i \in 1 .. n : es[i] \in Entry
  OBVIOUS
<1> HIDE DEF n
<1>3. 0 \in T
  <2>1. << >> \in Seq(Addr) /\ Len(<< >>) = 0 /\ 0 \in 0 .. n
    BY <1>2
  <2>2. f[0] \in Seq(Addr) /\ Len(f[0]) = 0
    BY <1>1, <2>1
  <2>. QED BY <2>1, <2>2
<1>4. ASSUME NEW i \in 1 .. n, i - 1 \in T PROVE i \in T
  <2> DEFINE s == f[i - 1]
             e == es[i]
             t == AddWords(s, e)
  <2>1. s \in Seq(Addr) /\ Len(s) <= 2 * (i - 1) /\ e \in Entry /\ f[i] = t
    BY <1>1, <1>2, <1>4
  <2> HIDE DEF T, s, e
  <2>2. t \in Seq(Addr) /\ Len(t) <= Len(s) + 2
    BY <2>1, AddWordsRight
  <2> DEFINE l == Len(s)
             k == Len(t)
  <2>3. l \in Nat /\ k \in Nat /\ k <= l + 2 /\ l <= 2 * (i - 1)
    BY <2>1, <2>2
  <2> HIDE DEF t, l, k
  <2>4. k <= 2 * i /\ i \in 0 .. n
    BY <1>2, <2>3
  <2>. QED BY <2>1, <2>2, <2>4 DEF T, k
<1>5. \A i \in 0 .. n : i \in T
  <2> HIDE DEF T
  <2>. QED BY <1>2, <1>3, <1>4, UpTo
<1>6. n \in T
  BY <1>2, <1>5
<1>. QED BY <1>1, <1>6 DEF n
-----------------------------------------------------------------------------
(* The requests of a list of entries: coils first, then registers.           *)
Request == [op : {"READ_COILS", "READ_HOLDING_REGISTERS"}, addr : Nat, len : 1 .. MaxReadLength]

LEMMA GeneratedRequests ==
  ASSUME NEW es,
         NEW cs, cs = Reads(BitAddrs(es)), cs \in Seq(Read),
         NEW ws, ws = Reads(WordAddrs(es)), ws \in Seq(Read)
  PROVE  /\ GenerateRequests(es) \in Seq(Request)
         /\ Len(GenerateRequests(es)) = Len(cs) + Len(ws)
         /\ \A i \in 1 .. Len(cs) : GenerateRequests(es)[i] = ReadOf("READ_COILS", cs[i])
         /\ \A i \in Len(cs) + 1 .. Len(cs) + Len(ws) :
              GenerateRequests(es)[i] = ReadOf("READ_HOLDING_REGISTERS", ws[i - Len(cs)])
<1> DEFINE s == ReadsOf("READ_COILS", cs)
           t == ReadsOf("READ_HOLDING_REGISTERS", ws)
           m == Len(cs)
           n == Len(ws)
<1>1. GenerateRequests(es) = s \o t
  BY DEF GenerateRequests, Reads
<1>2. m \in Nat /\ n \in Nat /\ (\A i \in 1 .. m : cs[i] \in Read) /\ (\A i \in 1 .. n : ws[i] \in Read)
  OBVIOUS
<1>3. /\ s \in Seq(Request) /\ Len(s) = m
      /\ \A i \in 1 .. m : s[i] = ReadOf("READ_COILS", cs[i])
  <2>1. s \in [1 .. m -> Request] /\ \A i \in 1 .. m : s[i] = ReadOf("READ_COILS", cs[i])
    BY <1>2 DEF ReadsOf, ReadOf, Read, Request
  <2> HIDE DEF s, m
  <2>. QED BY <1>2, <2>1
<1>4. /\ t \in Seq(Request) /\ Len(t) = n
      /\ \A i \in 1 .. n : t[i] = ReadOf("READ_HOLDING_REGISTERS", ws[i])
  <2>1. t \in [1 .. n -> Request] /\ \A i \in 1 .. n : t[i] = ReadOf("READ_HOLDING_REGISTERS", ws[i])
    BY <1>2 DEF ReadsOf, ReadOf, Read, Request
  <2> HIDE DEF t, n
  <2>. QED BY <1>2, <2>1
<1> HIDE DEF s, t, m, n
<1>5. /\ s \o t \in Seq(Request)
      /\ Len(s \o t) = m + n
      /\ \A i \in 1 .. m : (s \o t)[i] = s[i]
      /\ \A i \in m + 1 .. m + n : (s \o t)[i] = t[i - m]
  <2>1. /\ s \o t \in Seq(Request)
        /\ Len(s \o t) = Len(s) + Len(t)
        /\ \A i \in 1 .. Len(s) : (s \o t)[i] = s[i]
        /\ \A i \in Len(s) + 1 .. Len(s) + Len(t) : (s \o t)[i] = t[i - Len(s)]
    BY <1>3, <1>4, Concatenated
  <2>2. Len(s) = m /\ Len(t) = n
    BY <1>3, <1>4
  <2>. QED BY <2>1, <2>2
<1>6. \A i \in m + 1 .. m + n : i - m \in 1 .. n
  BY <1>2
<1>7. /\ \A i \in 1 .. m : (s \o t)[i] = ReadOf("READ_COILS", cs[i])
      /\ \A i \in m + 1 .. m + n : (s \o t)[i] = ReadOf("READ_HOLDING_REGISTERS", ws[i - m])
  BY <1>3, <1>4, <1>5, <1>6
<1>. QED BY <1>1, <1>5, <1>7 DEF m, n

(* What a read reads: the addresses in its block.                            *)
LEMMA ReadByBlock ==
  ASSUME NEW r \in Read, NEW op
  PROVE  /\ ReadOf(op, r).len \in 1 .. MaxReadLength
         /\ \A y \in ReadBy(ReadOf(op, r)) : \E x \in Nat : y = <<op, x>> /\ InBlock(x, r)
         /\ \A o, x : <<o, x>> \in ReadBy(ReadOf(op, r)) => o = op /\ x \in Nat /\ InBlock(x, r)
         /\ \A x \in Nat : InBlock(x, r) => <<op, x>> \in ReadBy(ReadOf(op, r))
<1>1. r.start \in Nat /\ r.length \in 1 .. MaxReadLength /\ r.length \in Nat
  BY BlockAssumption DEF Read
<1>2. /\ ReadOf(op, r).len = r.length
      /\ ReadBy(ReadOf(op, r)) = {<<op, a>> : a \in r.start .. r.start + r.length - 1}
  BY DEF ReadOf, ReadBy
<1>3. \A x \in r.start .. r.start + r.length - 1 : x \in Nat /\ InBlock(x, r)
  BY <1>1 DEF InBlock, BlockEnd
<1>4. \A x \in Nat : InBlock(x, r) => x \in r.start .. r.start + r.length - 1
  BY <1>1 DEF InBlock, BlockEnd
<1>5. \A o, x : <<o, x>> \in ReadBy(ReadOf(op, r)) => o = op /\ x \in r.start .. r.start + r.length - 1
  BY <1>2
<1>6. \A y \in ReadBy(ReadOf(op, r)) : \E x \in r.start .. r.start + r.length - 1 : y = <<op, x>>
  BY <1>2
<1>7. \A x \in r.start .. r.start + r.length - 1 : <<op, x>> \in ReadBy(ReadOf(op, r))
  BY <1>2
<1>. QED BY <1>1, <1>2, <1>3, <1>4, <1>5, <1>6, <1>7
LEMMA RequestsTyped ==
  ASSUME NEW es \in Seq(Entry)
  PROVE  GenerateRequests(es) \in Seq(Request)
<1> DEFINE bits == BitAddrs(es)
           words == WordAddrs(es)
<1>1. bits \in Seq(Addr) /\ words \in Seq(Addr)
  BY BitAddrsRight, WordAddrsRight
<1> HIDE DEF bits, words
<1>2. Reads(bits) \in Seq(Read) /\ Reads(words) \in Seq(Read)
  BY <1>1, ReadsRight
<1>. QED BY <1>2, GeneratedRequests DEF bits, words

LEMMA HoldsToSet ==
  ASSUME NEW s \in Seq(Addr)
  PROVE  \A a : Holds(s, a) <=> a \in ToSet(s)
BY DEF Holds, ToSet

(* A request that reads one sort of addresses fits the wanted ones.          *)
FitsIn(r, op, addrs) ==
  /\ r.len \in 1 .. MaxReadLength
  /\ \A x \in ReadBy(r) :
       /\ x[1] = op /\ x[2] \in Addr /\ x = <<x[1], x[2]>>
       /\ \E lo, hi \in {<<op, a>> : a \in ToSet(addrs)} :
            /\ lo[1] = x[1] /\ hi[1] = x[1]
            /\ lo[2] <= x[2] /\ x[2] <= hi[2] /\ hi[2] - lo[2] <= MaxMergeGap

LEMMA ReadFits ==
  ASSUME NEW addrs \in Seq(Addr), NEW op, NEW k \in 1 .. Len(Reads(addrs)),
         NEW r, r = ReadOf(op, Reads(addrs)[k])
  PROVE  FitsIn(r, op, addrs)
<1> DEFINE b == Reads(addrs)[k]
<1>1. b \in Read
  BY ReadsRight
<1>2. \A y \in Nat : InBlock(y, b) =>
        \E lo, hi \in Addr : /\ Holds(addrs, lo) /\ Holds(addrs, hi)
                             /\ lo <= y /\ y <= hi /\ hi - lo <= MaxMergeGap
  BY ReadsRight
<1> HIDE DEF b
<1>3. /\ ReadOf(op, b).len \in 1 .. MaxReadLength
      /\ \A x \in ReadBy(ReadOf(op, b)) : \E y \in Nat : x = <<op, y>> /\ InBlock(y, b)
  BY <1>1, ReadByBlock
<1>4. r = ReadOf(op, b)
  BY DEF b
<1>5. ASSUME NEW x \in ReadBy(r)
      PROVE  /\ x[1] = op /\ x[2] \in Addr /\ x = <<x[1], x[2]>>
             /\ \E lo, hi \in {<<op, a>> : a \in ToSet(addrs)} :
                  /\ lo[1] = x[1] /\ hi[1] = x[1]
                  /\ lo[2] <= x[2] /\ x[2] <= hi[2] /\ hi[2] - lo[2] <= MaxMergeGap
  <2>1. PICK y \in Nat : x = <<op, y>> /\ InBlock(y, b)
    BY <1>3, <1>4
  <2>2. PICK lo \in Addr, hi \in Addr : /\ Holds(addrs, lo) /\ Holds(addrs, hi)
                                        /\ lo <= y /\ y <= hi /\ hi - lo <= MaxMergeGap
    BY <1>2, <2>1
  <2>3. lo \in ToSet(addrs) /\ hi \in ToSet(addrs)
    BY <2>2, HoldsToSet
  <2>4. y \in Addr
    BY <2>2, BlockAssumption DEF Addr
  <2> DEFINE S == {<<op, a>> : a \in ToSet(addrs)}
  <2>5. <<op, lo>> \in S /\ <<op, hi>> \in S
    BY <2>3
  <2>6. x[1] = op /\ x[2] = y
    BY <2>1
  <2>. QED BY <2>1, <2>2, <2>4, <2>5, <2>6
<1>. QED BY <1>3, <1>4, <1>5 DEF FitsIn

(* What RequestsFit says, of any list of entries.                            *)
Fit(es) ==
  \A i \in 1 .. Len(GenerateRequests(es)) :
    /\ GenerateRequests(es)[i].len \in 1 .. MaxReadLength
    /\ ReadBy(GenerateRequests(es)[i]) \subseteq ({"READ_COILS", "READ_HOLDING_REGISTERS"}
                                                    \X (0 .. AddrSpace - 1))
    /\ \A x \in ReadBy(GenerateRequests(es)[i]) :
         \E lo, hi \in Wanted(es) :
           /\ lo[1] = x[1] /\ hi[1] = x[1]
           /\ lo[2] <= x[2] /\ x[2] <= hi[2] /\ hi[2] - lo[2] <= MaxMergeGap

LEMMA RequestsOfEntriesFit ==
  ASSUME NEW es \in Seq(Entry)
  PROVE  Fit(es)
<1> DEFINE bits == BitAddrs(es)
           words == WordAddrs(es)
           cs == Reads(bits)
           ws == Reads(words)
           rs == GenerateRequests(es)
           ops == {"READ_COILS", "READ_HOLDING_REGISTERS"}
<1>1. bits \in Seq(Addr) /\ words \in Seq(Addr)
  BY BitAddrsRight, WordAddrsRight
<1>2. /\ Wanted(es) = {<<"READ_COILS", a>> : a \in ToSet(bits)}
                        \cup {<<"READ_HOLDING_REGISTERS", a>> : a \in ToSet(words)}
  BY DEF Wanted
<1>3. cs \in Seq(Read) /\ ws \in Seq(Read)
  <2> HIDE DEF bits, words
  <2>. QED BY <1>1, ReadsRight
<1>4. /\ Len(rs) = Len(cs) + Len(ws)
      /\ \A i \in 1 .. Len(cs) : rs[i] = ReadOf("READ_COILS", cs[i])
      /\ \A i \in Len(cs) + 1 .. Len(cs) + Len(ws) :
           rs[i] = ReadOf("READ_HOLDING_REGISTERS", ws[i - Len(cs)])
  BY <1>3, GeneratedRequests
<1>5. Len(cs) \in Nat /\ Len(ws) \in Nat
  BY <1>3
<1> HIDE DEF bits, words, rs
<1>6. ASSUME NEW i \in 1 .. Len(rs)
      PROVE  /\ rs[i].len \in 1 .. MaxReadLength
             /\ ReadBy(rs[i]) \subseteq (ops \X Addr)
             /\ \A x \in ReadBy(rs[i]) :
                  \E lo, hi \in Wanted(es) :
                    /\ lo[1] = x[1] /\ hi[1] = x[1]
                    /\ lo[2] <= x[2] /\ x[2] <= hi[2] /\ hi[2] - lo[2] <= MaxMergeGap
  <2>1. CASE i \in 1 .. Len(cs)
    <3>1. FitsIn(rs[i], "READ_COILS", bits)
      <4> DEFINE r == rs[i]
      <4>1. r = ReadOf("READ_COILS", Reads(bits)[i]) /\ i \in 1 .. Len(Reads(bits))
        BY <1>4, <2>1
      <4> HIDE DEF r
      <4>. QED BY <1>1, <4>1, ReadFits DEF r
    <3>2. ReadBy(rs[i]) \subseteq (ops \X Addr)
      BY <3>1 DEF FitsIn
    <3> DEFINE S == {<<"READ_COILS", a>> : a \in ToSet(bits)}
    <3>3. S \subseteq Wanted(es)
      BY <1>2
    <3> HIDE DEF S
    <3>. QED BY <3>1, <3>2, <3>3 DEF S, FitsIn
  <2>2. CASE i \in Len(cs) + 1 .. Len(cs) + Len(ws)
    <3> DEFINE k == i - Len(cs)
    <3>0. k \in 1 .. Len(ws)
      BY <1>5, <2>2
    <3>1. FitsIn(rs[i], "READ_HOLDING_REGISTERS", words)
      <4> DEFINE r == rs[i]
      <4>1. r = ReadOf("READ_HOLDING_REGISTERS", Reads(words)[k]) /\ k \in 1 .. Len(Reads(words))
        BY <1>4, <2>2, <3>0
      <4> HIDE DEF r, k
      <4>. QED BY <1>1, <4>1, ReadFits DEF r
    <3>2. ReadBy(rs[i]) \subseteq (ops \X Addr)
      BY <3>1 DEF FitsIn
    <3> DEFINE S == {<<"READ_HOLDING_REGISTERS", a>> : a \in ToSet(words)}
    <3>3. S \subseteq Wanted(es)
      BY <1>2
    <3> HIDE DEF S
    <3>. QED BY <3>1, <3>2, <3>3 DEF S, FitsIn
  <2>3. i \in 1 .. Len(cs) \/ i \in Len(cs) + 1 .. Len(cs) + Len(ws)
    BY <1>4, <1>5
  <2>. QED BY <2>1, <2>2, <2>3
<1>. QED BY <1>6 DEF Fit, rs, Addr
(* The reads of coils do not overlap, nor do those of registers, so an address *)
(* is read once at most.                                                      *)
LEMMA AtMostOneReads ==
  ASSUME NEW es \in Seq(Entry), NEW x \in Wanted(es),
         NEW i \in 1 .. Len(GenerateRequests(es)), NEW j \in 1 .. Len(GenerateRequests(es)),
         x \in ReadBy(GenerateRequests(es)[i]), x \in ReadBy(GenerateRequests(es)[j])
  PROVE  i = j
<1> DEFINE bits == BitAddrs(es)
           words == WordAddrs(es)
           cs == Reads(bits)
           ws == Reads(words)
           rs == GenerateRequests(es)
           m == Len(cs)
           n == Len(ws)
<1>1. bits \in Seq(Addr) /\ words \in Seq(Addr)
  BY BitAddrsRight, WordAddrsRight
<1> HIDE DEF bits, words
<1>2. cs \in Seq(Read) /\ Apart(cs) /\ ws \in Seq(Read) /\ Apart(ws)
  BY <1>1, ReadsRight
<1>3. /\ m \in Nat /\ n \in Nat /\ Len(rs) = m + n
      /\ \A k \in 1 .. m : rs[k] = ReadOf("READ_COILS", cs[k]) /\ cs[k] \in Read
      /\ \A k \in m + 1 .. m + n : rs[k] = ReadOf("READ_HOLDING_REGISTERS", ws[k - m])
      /\ \A k \in 1 .. n : ws[k] \in Read
  BY <1>2, GeneratedRequests DEF bits, words
<1> DEFINE Coil(k) == k \in 1 .. m /\ \E a \in Nat : x = <<"READ_COILS", a>> /\ InBlock(a, cs[k])
           Register(k) == /\ k \in m + 1 .. m + n /\ k - m \in 1 .. n
                          /\ \E a \in Nat : x = <<"READ_HOLDING_REGISTERS", a>> /\ InBlock(a, ws[k - m])
<1> HIDE DEF cs, ws, m, n
<1>4. ASSUME NEW k \in 1 .. m + n, x \in ReadBy(rs[k]) PROVE Coil(k) \/ Register(k)
  <2>1. CASE k \in 1 .. m
    BY <1>3, <1>4, <2>1, ReadByBlock
  <2>2. CASE k \in m + 1 .. m + n
    <3>1. k - m \in 1 .. n
      BY <1>3, <2>2
    <3>2. rs[k] = ReadOf("READ_HOLDING_REGISTERS", ws[k - m]) /\ ws[k - m] \in Read
      BY <1>3, <2>2, <3>1
    <3>. QED BY <1>4, <2>2, <3>1, <3>2, ReadByBlock
  <2>. QED BY <1>3, <2>1, <2>2
<1>5. (Coil(i) \/ Register(i)) /\ (Coil(j) \/ Register(j))
  BY <1>3, <1>4
<1>6. "READ_COILS" # "READ_HOLDING_REGISTERS"
  OBVIOUS
<1>7. CASE Coil(i) /\ Coil(j)
  <2>1. PICK a \in Nat : x = <<"READ_COILS", a>> /\ InBlock(a, cs[i])
    BY <1>7
  <2>2. InBlock(a, cs[j]) /\ i \in 1 .. m /\ j \in 1 .. m
    BY <1>7, <2>1
  <2>. QED BY <1>2, <2>1, <2>2, InOne DEF m
<1>8. CASE Register(i) /\ Register(j)
  <2>1. PICK a \in Nat : x = <<"READ_HOLDING_REGISTERS", a>> /\ InBlock(a, ws[i - m])
    BY <1>8
  <2>2. InBlock(a, ws[j - m]) /\ i - m \in 1 .. n /\ j - m \in 1 .. n
    BY <1>8, <2>1
  <2>3. i - m = j - m
    BY <1>2, <2>1, <2>2, InOne DEF n
  <2>. QED BY <1>3, <2>3
<1>. QED BY <1>5, <1>6, <1>7, <1>8

(* Within the limit, each address that is wanted is read.                     *)
LEMMA OneReads ==
  ASSUME NEW es \in Seq(Entry), WithinLimit(es), NEW x \in Wanted(es)
  PROVE  \E i \in 1 .. Len(GenerateRequests(es)) : x \in ReadBy(GenerateRequests(es)[i])
<1> DEFINE bits == BitAddrs(es)
           words == WordAddrs(es)
           cs == Reads(bits)
           ws == Reads(words)
           rs == GenerateRequests(es)
           c == NeededFor(MergeWithGap(bits))
           w == NeededFor(MergeWithGap(words))
<1>1. /\ bits \in Seq(Addr) /\ words \in Seq(Addr)
      /\ c \in Nat /\ w \in Nat /\ c <= MaxReadRequests /\ w <= MaxReadRequests
  <2>1. bits \in Seq(Addr) /\ words \in Seq(Addr)
    BY BitAddrsRight, WordAddrsRight
  <2>2. c + w <= MaxReadRequests
    BY DEF WithinLimit
  <2> HIDE DEF bits, words
  <2>3. c \in Nat /\ w \in Nat
    BY <2>1, ReadsRight
  <2> HIDE DEF c, w
  <2>. QED BY <2>1, <2>2, <2>3, BlockAssumption
<1>2. /\ Wanted(es) = {<<"READ_COILS", a>> : a \in ToSet(bits)}
                        \cup {<<"READ_HOLDING_REGISTERS", a>> : a \in ToSet(words)}
  BY DEF Wanted
<1> HIDE DEF bits, words
<1>3. /\ cs \in Seq(Read) /\ \A a \in ToSet(bits) : a \in Addr /\ InBlocks(a, cs)
      /\ ws \in Seq(Read) /\ \A a \in ToSet(words) : a \in Addr /\ InBlocks(a, ws)
  <2>1. (\A a \in ToSet(bits) : a \in Addr) /\ (\A a \in ToSet(words) : a \in Addr)
    BY <1>1 DEF ToSet
  <2>. QED BY <1>1, <2>1, ReadsRight, HoldsToSet
<1>4. /\ Len(rs) = Len(cs) + Len(ws)
      /\ \A i \in 1 .. Len(cs) : rs[i] = ReadOf("READ_COILS", cs[i])
      /\ \A i \in Len(cs) + 1 .. Len(cs) + Len(ws) :
           rs[i] = ReadOf("READ_HOLDING_REGISTERS", ws[i - Len(cs)])
  BY <1>3, GeneratedRequests DEF bits, words
<1> DEFINE m == Len(cs)
           n == Len(ws)
<1>5. /\ m \in Nat /\ n \in Nat /\ Len(rs) = m + n
      /\ (\A i \in 1 .. m : cs[i] \in Read) /\ (\A i \in 1 .. n : ws[i] \in Read)
  BY <1>3, <1>4
<1>6. /\ \A i \in 1 .. m : rs[i] = ReadOf("READ_COILS", cs[i])
      /\ \A i \in m + 1 .. m + n : rs[i] = ReadOf("READ_HOLDING_REGISTERS", ws[i - m]) /\ i - m \in 1 .. n
  BY <1>4, <1>5
<1> HIDE DEF cs, ws, rs, m, n
<1>7. CASE \E a \in ToSet(bits) : x = <<"READ_COILS", a>>
  <2>1. PICK a \in ToSet(bits) : x = <<"READ_COILS", a>>
    BY <1>7
  <2>2. a \in Nat /\ InBlocks(a, cs)
    BY <1>3, <2>1, BlockAssumption DEF Addr
  <2>3. PICK i \in 1 .. m : InBlock(a, cs[i])
    BY <2>2 DEF InBlocks, m
  <2>4. x \in ReadBy(rs[i])
    BY <1>5, <1>6, <2>1, <2>2, <2>3, ReadByBlock
  <2>5. i \in 1 .. m + n
    BY <1>5, <2>3
  <2>. QED BY <1>5, <2>4, <2>5 DEF rs
<1>8. CASE \E a \in ToSet(words) : x = <<"READ_HOLDING_REGISTERS", a>>
  <2>1. PICK a \in ToSet(words) : x = <<"READ_HOLDING_REGISTERS", a>>
    BY <1>8
  <2>2. a \in Nat /\ InBlocks(a, ws)
    BY <1>3, <2>1, BlockAssumption DEF Addr
  <2>3. PICK k \in 1 .. n : InBlock(a, ws[k])
    BY <2>2 DEF InBlocks, n
  <2> DEFINE i == k + m
  <2>4. i \in m + 1 .. m + n /\ i - m = k /\ i \in 1 .. m + n
    BY <1>5, <2>3
  <2> HIDE DEF i
  <2>5. x \in ReadBy(rs[i])
    BY <1>5, <1>6, <2>1, <2>2, <2>3, <2>4, ReadByBlock
  <2>. QED BY <1>5, <2>4, <2>5 DEF rs
<1>. QED BY <1>2, <1>7, <1>8
-----------------------------------------------------------------------------
(* The lists of entries that the model makes.                                *)
EntriesOK == entries \in Seq(Entry)

LEMMA EntriesStayOK == Spec => []EntriesOK
<1>1. Init => EntriesOK
  BY DEF Init, EntriesOK
<1>2. EntriesOK /\ [Next]_entries => EntriesOK'
  <2> SUFFICES ASSUME EntriesOK, [Next]_entries PROVE EntriesOK'
    OBVIOUS
  <2>1. CASE UNCHANGED entries
    BY <2>1 DEF EntriesOK
  <2>2. ASSUME NEW e \in Entry, AddEntry(e) PROVE EntriesOK'
    BY <2>2, Appended DEF EntriesOK, AddEntry
  <2>. QED BY <2>1, <2>2 DEF Next
<1>. QED BY <1>1, <1>2, PTL DEF Spec

(* The requests of a round are short, within the address space, and read     *)
(* nothing far from what is wanted, for every list of entries: whether the   *)
(* limit on the requests is met or not does not matter here.                 *)
THEOREM RequestsAlwaysFit == Spec => []RequestsFit
<1>1. EntriesOK => RequestsFit
  <2> SUFFICES ASSUME EntriesOK PROVE RequestsFit
    OBVIOUS
  <2>1. Fit(entries)
    BY RequestsOfEntriesFit DEF EntriesOK
  <2>. QED BY <2>1 DEF Fit, RequestsFit, Requests
<1>. QED BY <1>1, EntriesStayOK, PTL

(* No address that is polled is read twice in a round, and each is read if   *)
(* its entries need no more requests than a round may have: for every list   *)
(* of entries, however long.                                                 *)
THEOREM AddressesReadOnce == Spec => []EachAddressOnce
<1>1. EntriesOK => EachAddressOnce
  <2> DEFINE Reading(x) == {i \in 1 .. Len(Requests) : x \in ReadBy(Requests[i])}
  <2> SUFFICES ASSUME EntriesOK, NEW x \in Wanted(entries)
               PROVE  Cardinality(Reading(x)) <= 1 /\ (WithinLimit(entries) => Cardinality(Reading(x)) = 1)
    BY DEF EachAddressOnce
  <2>1. \A i, j \in Reading(x) : i = j
    BY AtMostOneReads DEF EntriesOK, Requests
  <2>2. WithinLimit(entries) => Reading(x) # {}
    BY OneReads DEF EntriesOK, Requests
  <2> DEFINE R == Reading(x)
  <2> HIDE DEF R
  <2>3. CASE R = {}
    BY <2>2, <2>3, FS_EmptySet DEF R
  <2>4. CASE R # {}
    <3>1. PICK i \in R : TRUE
      BY <2>4
    <3>2. R = {i}
      BY <2>1, <3>1 DEF R
    <3>3. Cardinality(R) = 1
      BY <3>2, FS_Singleton
    <3>. QED BY <3>3 DEF R
  <2>. QED BY <2>3, <2>4
<1>. QED BY <1>1, EntriesStayOK, PTL
=============================================================================
