------------------------- MODULE MCMessageDispatch -------------------------
(* MessageDispatch on two interfaces and three listeners: an output that  *)
(* takes everything, a signal dispatcher of interface can0, and a group   *)
(* with the "or" operator.                                                 *)
EXTENDS MessageDispatch, TLC

CONSTANTS can0, can1, csv, sd0, tap

MCConn == {can0, can1}

OneInterface(c) == [Operator |-> "and", Filters |-> <<{c}>>]

AnyInterface == [Operator |-> "or", Filters |-> <<{can0}, {can1}>>]

MCFilterGroups ==
    csv :> NoFilter @@ sd0 :> OneInterface(can0) @@ tap :> AnyInterface
=============================================================================
