----------------------------- MODULE PollBlocks -----------------------------
(***************************************************************************)
(* How user_poll.c makes read requests of the addresses to be polled: coils *)
(* and registers are told apart, sorted, merged into blocks when the gap    *)
(* between them is small, and blocks that are too long are split. The       *)
(* definitions are pure: Polling uses them, and MCPollBlocks checks them    *)
(* over every short list of addresses.                                      *)
(***************************************************************************)
EXTENDS Integers, Sequences, SequencesExt

CONSTANTS
  AddrSpace,      (* addresses are uint16_t: 2^16                            *)
  MaxMergeGap,    (* MAX_MERGE_GAP: 5                                        *)
  MaxReadLength,  (* MAX_READ_LENGTH: 48                                     *)
  MaxReadRequests (* MAX_REQUESTS: 30                                        *)

ASSUME BlockAssumption ==
  /\ AddrSpace \in Nat \ {0} /\ MaxMergeGap \in Nat
  /\ MaxReadLength \in Nat \ {0} /\ MaxReadRequests \in Nat \ {0}

Types == {"BIT", "WORD", "DWORD"}
Entry == [addr : 0 .. AddrSpace - 1, type : Types]
-----------------------------------------------------------------------------
(* The two sorts of addresses on the line; a dword is two registers.         *)
RegistersOf(e) == IF e.type = "DWORD" THEN <<e.addr, (e.addr + 1) % AddrSpace>> ELSE <<e.addr>>

AddBits(s, e)  == IF e.type = "BIT" THEN Append(s, e.addr) ELSE s
AddWords(s, e) == IF e.type = "BIT" THEN s ELSE s \o RegistersOf(e)

(* What a loop over s makes of base, one element after the other.            *)
Loop(Step(_, _), base, s) ==
  LET after[i \in 0 .. Len(s)] == IF i = 0 THEN base ELSE Step(after[i - 1], s[i])
  IN after[Len(s)]

BitAddrs(entries)  == Loop(AddBits, << >>, entries)
WordAddrs(entries) == Loop(AddWords, << >>, entries)

(* sort_addresses inserts each address behind those that are not greater.    *)
Insert(s, a) ==
  InsertAt(s, (CHOOSE k \in 0 .. Len(s) : \A i \in 1 .. Len(s) : s[i] <= a <=> i <= k) + 1, a)

UnsortedAddresses(addrs) == addrs
SortAddresses(addrs) == Loop(Insert, << >>, addrs)

(* merge_with_gap: an address joins the block before it if it is at most     *)
(* MaxMergeGap behind the end of that block.                                 *)
BlockEnd(b) == b.start + b.length - 1

Join(blocks, a) ==
  IF blocks # << >> /\ a - BlockEnd(Last(blocks)) <= MaxMergeGap
  THEN Append(Front(blocks), [Last(blocks) EXCEPT !.length = a - Last(blocks).start + 1])
  ELSE Append(blocks, [start |-> a, length |-> 1])

MergeWithGap(addrs) == Loop(Join, << >>, SortAddresses(addrs))

(* split_blocks: the requests of one block. The limit on the number of      *)
(* requests leaves the inner loop only: every block gets one request.       *)
Needed(b) == (b.length + MaxReadLength - 1) \div MaxReadLength

SplitCount(b, room) ==
  IF Needed(b) <= room THEN Needed(b) ELSE IF room > 0 THEN room ELSE 1

SplitIntoTails(b, n) ==
  [i \in 1 .. n |->
     LET offset == (i - 1) * MaxReadLength
     IN [start |-> b.start + offset, length |-> b.length - offset]]

SplitInto(b, n) ==
  [i \in 1 .. n |->
     LET offset == (i - 1) * MaxReadLength
         rest == b.length - offset
     IN [start |-> b.start + offset,
         length |-> IF rest > MaxReadLength THEN MaxReadLength ELSE rest]]

AddSplit(reqs, b) == reqs \o SplitInto(b, SplitCount(b, MaxReadRequests - Len(reqs)))
SplitBlocks(blocks) == Loop(AddSplit, << >>, blocks)

ReadOf(op, b) == [op |-> op, addr |-> b.start, len |-> b.length]
ReadsOf(op, blocks) == [i \in 1 .. Len(blocks) |-> ReadOf(op, blocks[i])]

GenerateRequests(entries) ==
  ReadsOf("READ_COILS", SplitBlocks(MergeWithGap(BitAddrs(entries))))
    \o ReadsOf("READ_HOLDING_REGISTERS", SplitBlocks(MergeWithGap(WordAddrs(entries))))
-----------------------------------------------------------------------------
(* What has to be read of a list of entries, and what a request reads:       *)
(* addresses with the function that reads them.                              *)
Wanted(entries) ==
  {<<"READ_COILS", a>> : a \in ToSet(BitAddrs(entries))}
    \cup {<<"READ_HOLDING_REGISTERS", a>> : a \in ToSet(WordAddrs(entries))}
ReadBy(r) == {<<r.op, a>> : a \in r.addr .. r.addr + r.len - 1}

(* The requests that the blocks of a list of entries need. The array of the  *)
(* round has a place for MaxReadRequests, coils and registers together.      *)
AddNeeded(n, b) == n + Needed(b)
NeededFor(blocks) == Loop(AddNeeded, 0, blocks)

WithinLimit(entries) ==
  NeededFor(MergeWithGap(BitAddrs(entries))) + NeededFor(MergeWithGap(WordAddrs(entries)))
    <= MaxReadRequests
=============================================================================
