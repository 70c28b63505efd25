---------------------------- MODULE AddressTable ----------------------------
(***************************************************************************)
(* What the register cache of the panel promises to the code that uses it  *)
(* (the menu, the poll manager and the Modbus controller): a map from      *)
(* device addresses to their last known values, of bounded size, in which  *)
(* an address that has once been entered stays until the table is reset,   *)
(* an entry changes only when its own address is written, and entering an  *)
(* address fails only when the table holds Capacity other addresses.       *)
(* HashCache implements it by open addressing.                             *)
(***************************************************************************)
EXTENDS Naturals, Sequences, FiniteSets

CONSTANTS
  Key,       (* the addresses: pairs of an address and "is it a coil"      *)
  Value,     (* the values an entry may hold                               *)
  Zero,      (* the value of an address that was registered, never written *)
  Capacity   (* how many addresses the table holds                         *)

VARIABLES
  table,     (* the map: a function on the addresses entered so far        *)
  ret,       (* did the last call succeed                                  *)
  out        (* the values the last call wrote through its out-parameter   *)

vars == <<table, ret, out>>

Empty == [k \in {} |-> Zero]

Put(t, k, v) == [j \in DOMAIN t \cup {k} |-> IF j = k THEN v ELSE t[j]]

\* May the address be written: it is there, or there is room to enter it.
Room(t, k) == k \in DOMAIN t \/ Cardinality(DOMAIN t) < Capacity

Init ==
  /\ table = Empty
  /\ ret = TRUE
  /\ out = << >>

Reset ==
  /\ table' = Empty
  /\ ret' = TRUE
  /\ out' = << >>

Register(k) ==
  /\ ret' = Room(table, k)
  /\ table' = IF Room(table, k) /\ k \notin DOMAIN table
              THEN Put(table, k, Zero) ELSE table
  /\ out' = << >>

Store(k, v) ==
  /\ ret' = Room(table, k)
  /\ table' = IF Room(table, k) THEN Put(table, k, v) ELSE table
  /\ out' = << >>

(* Two entries written one after the other. The second may find no room: the *)
(* call fails although the first entry has changed.                          *)
StorePair(k, l, v, w) ==
  LET first == Put(table, k, v) IN
  /\ out' = << >>
  /\ \/ ~Room(table, k) /\ ret' = FALSE /\ UNCHANGED table
     \/ Room(table, k) /\ ~Room(first, l) /\ ret' = FALSE /\ table' = first
     \/ Room(table, k) /\ Room(first, l) /\ ret' = TRUE
        /\ table' = Put(first, l, w)

Read(k) ==
  /\ ret' = (k \in DOMAIN table)
  /\ out' = IF k \in DOMAIN table THEN <<table[k]>> ELSE << >>
  /\ UNCHANGED table

ReadPair(k, l) ==
  /\ ret' = ({k, l} \subseteq DOMAIN table)
  /\ out' = IF {k, l} \subseteq DOMAIN table THEN <<table[k], table[l]>> ELSE << >>
  /\ UNCHANGED table

Has(k) ==
  /\ ret' = (k \in DOMAIN table)
  /\ out' = << >>
  /\ UNCHANGED table

Next ==
  \/ Reset
  \/ \E k \in Key : Register(k) \/ Read(k) \/ Has(k)
  \/ \E k \in Key, v \in Value : Store(k, v)
  \/ \E k, l \in Key : ReadPair(k, l)
  \/ \E k, l \in Key, v, w \in Value : StorePair(k, l, v, w)

Spec == Init /\ [][Next]_vars
=============================================================================
