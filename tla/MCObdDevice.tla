---------------------------- MODULE MCObdDevice ----------------------------
(* ObdDevice with identifiers of three bits and one PID.                   *)
EXTENDS ObdDevice

CONSTANT p1

MCBits == {0, 1, 2}

(* None, one, and two that share a bit. *)
MCFilterLists == {{}, {{0}}, {{0, 1}, {0, 2}}}

(* The second answer identifier is among the filters already. *)
MCResponseIds == {{0, 1, 2}, {0}}

MCPIDs == {p1}
=============================================================================
