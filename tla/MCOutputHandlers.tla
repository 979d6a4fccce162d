-------------------------- MODULE MCOutputHandlers --------------------------
(* OutputHandlers with one filter that rejects the second message.         *)
EXTENDS OutputHandlers

MCRejects == [name \in {"dedupe"} |-> {2}]
=============================================================================
