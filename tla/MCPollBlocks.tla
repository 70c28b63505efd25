---------------------------- MODULE MCPollBlocks ----------------------------
(* Every list of up to MaxEntries entries, one entry longer at each step. *)
EXTENDS PollBlocks, FiniteSets

CONSTANT MaxEntries  (* bound of the model: addresses polled at a time *)

ASSUME EntriesAssumption == MaxEntries \in Nat

VARIABLE entries

Init == entries = << >>
AddEntry(e) == Len(entries) < MaxEntries /\ entries' = Append(entries, e)
Next == \E e \in Entry : AddEntry(e)
Spec == Init /\ [][Next]_entries
-----------------------------------------------------------------------------
Requests == GenerateRequests(entries)

(* The requests of a round read every address that is polled, and each of    *)
(* them once: sorting, merging and splitting lose nothing and repeat nothing,*)
(* in whatever order, with whatever duplicates and overlaps the addresses    *)
(* come. If the addresses need more requests than a round may have, some are *)
(* not read, but none is read twice.                                         *)
EachAddressOnce ==
  \A w \in Wanted(entries) :
    LET reads == Cardinality({i \in 1 .. Len(Requests) : w \in ReadBy(Requests[i])})
    IN reads <= 1 /\ (WithinLimit(entries) => reads = 1)

(* A request is never longer than the slave answers, never empty, stays      *)
(* within the address space, and reads nothing that nobody wants but for the *)
(* short gaps: of any address that is read there is one that is wanted on    *)
(* either side, MaxMergeGap apart at most.                                   *)
RequestsFit ==
  \A i \in 1 .. Len(Requests) :
    /\ Requests[i].len \in 1 .. MaxReadLength
    /\ ReadBy(Requests[i]) \subseteq ({"READ_COILS", "READ_HOLDING_REGISTERS"}
                                         \X (0 .. AddrSpace - 1))
    /\ \A x \in ReadBy(Requests[i]) :
         \E lo, hi \in Wanted(entries) :
           /\ lo[1] = x[1] /\ hi[1] = x[1]
           /\ lo[2] <= x[2] /\ x[2] <= hi[2] /\ hi[2] - lo[2] <= MaxMergeGap
=============================================================================
