----------------------------- MODULE HashCache ------------------------------
(***************************************************************************)
(* The register cache of the panel (device_storage.c): a fixed array of    *)
(* nodes used as an open-addressing hash table with linear probing. Coils  *)
(* and registers share the array; the flag "bit" is part of the key. Nodes *)
(* are never removed one by one: only HashCache_Init empties the array.    *)
(*                                                                         *)
(* All calls come from the main loop, so each call is one step.            *)
(***************************************************************************)
EXTENDS Naturals, Sequences, FiniteSets

CONSTANTS
  Size,       (* HASH_CACHE_SIZE, 257 in the code                          *)
  AddrSpace,  (* number of addresses: 2^16 in the code, addresses wrap     *)
  Word        (* values of a 16-bit register                               *)

ASSUME SizeAssumption == Size \in Nat \ {0}
ASSUME AddrAssumption == AddrSpace \in Nat \ {0}
ASSUME WordAssumption == {0, 1} \subseteq Word

VARIABLES
  cache,      (* g_hash_cache                                              *)
  ret,        (* what the last call returned                               *)
  out         (* what it stored through its out-parameter, if it did       *)

vars == <<cache, ret, out>>

Address == 0 .. AddrSpace - 1
Slot    == 0 .. Size - 1
Key     == Address \X BOOLEAN
Coil(a) == <<a, TRUE>>
Reg(a)  == <<a, FALSE>>

Node  == [valid : BOOLEAN, key : Key, value : Word]
Blank == [valid |-> FALSE, key |-> Reg(0), value |-> 0]

NoSlot == Size
-----------------------------------------------------------------------------
(* hash_cache_index, and the d-th node that hash_cache_find looks at. *)
Home(k)     == (k[1] * 131 + (IF k[2] THEN 1 ELSE 0)) % Size
Probe(k, d) == (Home(k) + d) % Size

HoldsAddressOnly(node, k) == node.valid /\ node.key[1] = k[1]
Holds(node, k) == node.valid /\ node.key = k

(* The loop of hash_cache_find stops at the first node that is free or holds *)
(* the key, and gives up after Size steps.                                   *)
Stops(t, k) == {d \in Slot : ~t[Probe(k, d)].valid \/ Holds(t[Probe(k, d)], k)}
First(S)    == CHOOSE d \in S : \A e \in S : d <= e
Find(t, k)  == IF Stops(t, k) = {} THEN NoSlot ELSE Probe(k, First(Stops(t, k)))

(* create_if_missing = false: only a node that holds the key will do.        *)
Known(t, k) == Find(t, k) # NoSlot /\ t[Find(t, k)].valid

(* create_if_missing = true: fails only if the loop gave up.                 *)
CanEnter(t, k) == Find(t, k) # NoSlot

(* The array after giving key k the value v, and after only entering it.     *)
Write(t, k, v) ==
  IF ~CanEnter(t, k) THEN t
  ELSE [t EXCEPT ![Find(t, k)] = [valid |-> TRUE, key |-> k, value |-> v]]

Enter(t, k) == IF Known(t, k) THEN t ELSE Write(t, k, 0)

ValueAt(t, k)  == t[Find(t, k)].value
BitValueAsCoilWord(b) == IF b THEN 255 ELSE 0
BitValue(b)    == IF b THEN 1 ELSE 0
NextAddress(a) == (a + 1) % AddrSpace
-----------------------------------------------------------------------------
Init ==
  /\ cache = [s \in Slot |-> Blank]
  /\ ret = TRUE
  /\ out = << >>

HashCache_InitFirstNodeOnly ==
  /\ cache' = [cache EXCEPT ![0] = Blank]
  /\ ret' = TRUE
  /\ out' = << >>

HashCache_Init ==
  /\ cache' = [s \in Slot |-> Blank]
  /\ ret' = TRUE
  /\ out' = << >>

Register(k) ==
  /\ cache' = Enter(cache, k)
  /\ ret' = CanEnter(cache, k)
  /\ out' = << >>

HashCache_RegisterBit(a)  == Register(Coil(a))
HashCache_RegisterWord(a) == Register(Reg(a))

Store(k, v) ==
  /\ cache' = Write(cache, k, v)
  /\ ret' = CanEnter(cache, k)
  /\ out' = << >>

HashCache_SetBit(a, b)  == Store(Coil(a), BitValue(b))
HashCache_SetWord(a, v) == Store(Reg(a), v)

(* DeviceStorage_ToggleBit: an unknown coil counts as off. *)
DeviceStorage_ToggleBit(a) ==
  HashCache_SetBit(a, ~(Known(cache, Coil(a)) /\ ValueAt(cache, Coil(a)) # 0))

(* The low word first; the high word only if the low one was stored. *)
HashCache_SetDWord(a, low, high) ==
  LET lo  == Reg(a)
      hi  == Reg(NextAddress(a))
      mid == Write(cache, lo, low)
  IN /\ cache' = IF CanEnter(cache, lo) THEN Write(mid, hi, high) ELSE cache
     /\ ret' = (CanEnter(cache, lo) /\ CanEnter(mid, hi))
     /\ out' = << >>

Fetch(k) ==
  /\ ret' = Known(cache, k)
  /\ out' = IF Known(cache, k) THEN <<ValueAt(cache, k)>> ELSE << >>
  /\ UNCHANGED cache

HashCache_GetBit(a)  == Fetch(Coil(a))
HashCache_GetWord(a) == Fetch(Reg(a))

HashCache_GetDWord(a) ==
  LET lo == Reg(a)
      hi == Reg(NextAddress(a))
      both == Known(cache, lo) /\ Known(cache, hi)
  IN /\ ret' = both
     /\ out' = IF both THEN <<ValueAt(cache, lo), ValueAt(cache, hi)>> ELSE << >>
     /\ UNCHANGED cache

Has(k) ==
  /\ ret' = Known(cache, k)
  /\ out' = << >>
  /\ UNCHANGED cache

HashCache_HasBit(a)  == Has(Coil(a))
HashCache_HasWord(a) == Has(Reg(a))

Next ==
  \/ HashCache_Init
  \/ \E a \in Address :
       \/ HashCache_RegisterBit(a)
       \/ HashCache_RegisterWord(a)
       \/ HashCache_GetBit(a)
       \/ HashCache_GetWord(a)
       \/ HashCache_GetDWord(a)
       \/ HashCache_HasBit(a)
       \/ HashCache_HasWord(a)
       \/ DeviceStorage_ToggleBit(a)
       \/ \E b \in BOOLEAN : HashCache_SetBit(a, b)
       \/ \E v \in Word : HashCache_SetWord(a, v)
       \/ \E low, high \in Word : HashCache_SetDWord(a, low, high)

Spec == Init /\ [][Next]_vars
-----------------------------------------------------------------------------
(* The array holds nodes, and a coil's node holds 0 or 1: the menu and the   *)
(* poll manager compare cached coils with 0 and 1.                           *)
TypeOK ==
  /\ cache \in [Slot -> Node]
  /\ \A s \in Slot : cache[s].valid /\ cache[s].key[2] => cache[s].value \in {0, 1}
  /\ ret \in BOOLEAN
  /\ out \in Seq(Word)

(* How many steps the probe of key k takes to come to slot s. *)
Distance(k, s) == IF s >= Home(k) THEN s - Home(k) ELSE s + Size - Home(k)

(* Every entry can be reached: on the way from the home slot of its key to   *)
(* the entry there is no free node and no other node with that key. This is  *)
(* what makes hash_cache_find correct: a hole would make it stop too early,  *)
(* a second node with the key would answer with a stale value.               *)
PathIntact(t, s) ==
  \A d \in 0 .. Distance(t[s].key, s) - 1 :
    LET n == t[Probe(t[s].key, d)] IN n.valid /\ n.key # t[s].key

Reachable == \A s \in Slot : cache[s].valid => PathIntact(cache, s)

(* The map that callers observe through hash_cache_find. *)
Contents(t) == [k \in {j \in Key : Known(t, j)} |-> ValueAt(t, k)]

Abstract == INSTANCE AddressTable
  WITH Value <- Word, Zero <- 0, Capacity <- Size, table <- Contents(cache)

(* The hash table behaves as a bounded map: what a call returns and changes  *)
(* is what AddressTable says, so probing never loses an entry, never mixes   *)
(* up a coil with a register, and reports "full" only when it is full.       *)
ImplementsTable == Abstract!Spec
=============================================================================
