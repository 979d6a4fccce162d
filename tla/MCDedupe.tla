------------------------------ MODULE MCDedupe ------------------------------
(* Dedupe with two goroutines and three contents; the third carries an       *)
(* identifier that is not deduplicated.                                      *)
EXTENDS Dedupe, TLC

CONSTANTS rpm, rpm2, door, engine, body

MCHashOf == rpm :> 1 @@ rpm2 :> 2 @@ door :> 3

MCIdOf == rpm :> engine @@ rpm2 :> engine @@ door :> body
=============================================================================
