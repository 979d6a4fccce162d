----------------------------- MODULE MCMf4Writer -----------------------------
(* Frames without data, of one and of two bytes, some of which look like   *)
(* the ID of a record, and one that is too long.                           *)
EXTENDS Mf4Writer

MCData == {<< >>, <<1>>, <<2, 1>>, <<0, 0, 0>>}
=============================================================================
