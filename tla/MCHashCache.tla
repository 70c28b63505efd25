----------------------------- MODULE MCHashCache ----------------------------
(* Six keys compete for the MCSize nodes of the table: it fills up, probes    *)
(* wrap around, keys collide, and the high word of a dword wraps to address 0. *)
EXTENDS HashCache

MCSize      == 3
MCAddrSpace == 3
MCWord      == {0, 1}
=============================================================================
