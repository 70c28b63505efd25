--------------------------- MODULE MCModbusMaster ---------------------------
(* A read and a write, and frames of every kind: the echo of the write, the   *)
(* late answer to a read of coils, a refusal, and a damaged answer.           *)
EXTENDS ModbusMaster

Cmd(op, addr, words, len) == [op |-> op, addr |-> addr, words |-> words, len |-> len]

MCCommands ==
  { Cmd("READ_HOLDING_REGISTERS", 0, << >>, 1),
    Cmd("WRITE_SINGLE_REGISTER", 0, <<1>>, 0) }

Frame(kind, op, word, size, bad) ==
  [kind |-> kind, op |-> op, addr |-> 0, word |-> word, size |-> size, bad |-> bad]

MCFrames ==
  { Frame("data", "READ_COILS", 0, 2, 0),
    Frame("data", "READ_HOLDING_REGISTERS", 0, 2, 3),
    Frame("exception", "READ_HOLDING_REGISTERS", 0, 0, 0),
    Frame("echo", "WRITE_SINGLE_REGISTER", 1, 0, 0) }
=============================================================================
