-------------------------- MODULE MCMomentaryKey ---------------------------
(* A ring of two writes, one retry; a request is answered or times out.      *)
EXTENDS MomentaryKey

MCWord == {0, 1}
MCAnswers == {[code |-> c, data |-> << >>] : c \in {"SUCESS", "NACK"}}
MCOthers == {[op |-> "WRITE_SINGLE_REGISTER", addr |-> 1, words |-> <<1>>, len |-> 0]}
=============================================================================
