------------------------------ MODULE MCPanel -------------------------------
(* The keys of the chords, F2, F5 and F6. The times of the code are cut down  *)
(* to a few ticks and keep their order: the filter is shorter than the        *)
(* debounce time by what NoEventFromOneBounce needs, a suspend is asked for   *)
(* before a shutdown.                                                         *)
EXTENDS Panel

MCKeys == {F2, F5, F6}
=============================================================================
