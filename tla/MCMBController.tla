--------------------------- MODULE MCMBController ---------------------------
(* Queues of two requests, two retries, a failure counter that wraps at five; *)
(* three requests are made, among them a write of two registers and a read     *)
(* whose answer may be longer or shorter than was asked for.                  *)
EXTENDS MBController

MCWord == {0, 1}

Cmd(op, addr, words, len) == [op |-> op, addr |-> addr, words |-> words, len |-> len]

MCCommands ==
  { Cmd("WRITE_MULTIPLE_REGISTERS", 1, <<1, 0>>, 0),
    Cmd("WRITE_SINGLE_COIL", 0, <<1>>, 0),
    Cmd("READ_HOLDING_REGISTERS", 0, << >>, 2),
    Cmd("UNSUPPORTED", 0, << >>, 0) }

Ans(code, data) == [code |-> code, data |-> data]

MCAnswers ==
  { Ans("SUCESS", <<1, 1>>), Ans("SUCESS", <<0>>), Ans("NACK", << >>),
    Ans("EXCEPTION", << >>) }
=============================================================================
