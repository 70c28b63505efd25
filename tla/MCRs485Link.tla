---------------------------- MODULE MCRs485Link -----------------------------
(* Two requests, one retry, at most two answers on their way. The commands:   *)
(* two writes that differ in their value, or two reads that differ in their   *)
(* function, so that the data of one may pass as data of the other.           *)
EXTENDS Rs485Link

MCWord == {0, 1}

Cmd(op, addr, words, len) == [op |-> op, addr |-> addr, words |-> words, len |-> len]

MCReadReg  == Cmd("READ_HOLDING_REGISTERS", 0, << >>, 1)
MCReadCoil == Cmd("READ_COILS", 0, << >>, 9)

MCWrites == {Cmd("WRITE_SINGLE_REGISTER", 0, <<v>>, 0) : v \in MCWord}

MCReads == {MCReadReg, MCReadCoil}

Ans(code, n) == [code |-> code, data |-> [i \in 1 .. n |-> 1]]

MCAnswers ==
  {Ans("SUCESS", n) : n \in {0, 1, 16}} \cup {Ans(c, 0) : c \in {"NACK", "ACKERR", "EXCEPTION"}}

MCDamages == {0, 3}
MCNoDamage == {0}
=============================================================================
