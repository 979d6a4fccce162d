--------------------------- MODULE MCSignalDispatch ---------------------------
(* SignalDispatch with parsers from Dbc: a multiplexed message whose branches  *)
(* hold a listing of PIDs, a nested switch and a speed, and a second parser    *)
(* that knows one plain signal of the same message.                            *)
EXTENDS SignalDispatch, Dbc, TLC

CONSTANTS can0, can1, csv, mqtt


Plain(n) == [Name |-> n, IsMultiplexer |-> FALSE, IsMultiplexed |-> FALSE,
             MultiplexerValue |-> {}]
Leaf(n, v) == [Plain(n) EXCEPT !.IsMultiplexed = TRUE, !.MultiplexerValue = v]
Switch(s) == [s EXCEPT !.IsMultiplexer = TRUE]

(* Three branches: 0 lists PIDs, 1 holds a switch of its own, 2 the speed. *)
OBD2 == [Name |-> "OBD2",
         Signals |-> <<Switch(Plain("S01PID")), Leaf("S01PID20", {}),
                       Switch(Leaf("Bank", {0})), Leaf("Speed", {1})>>]
Other == [Name |-> "Other", Signals |-> <<Plain("Load")>>]

MCParsers == << [id \in {"7E8"} |-> OBD2], [id \in {"7E8"} |-> Other] >>

Data(mux, bank) ==
    "S01PID" :> mux @@ "S01PID20" :> {31, 0} @@ "Bank" :> bank
        @@ "Speed" :> {3} @@ "Load" :> {2}

(* A listing of PIDs 21 and 40, and a nested branch. *)
Listing == [ID |-> "7E8", Data |-> Data({}, {})]
Nested  == [ID |-> "7E8", Data |-> Data({0}, {1})]

MCParse ==
    can0 :> (Listing :> ParseAll(MCParsers, Listing))
    @@ can1 :> (Nested :> ParseAll(<<MCParsers[1]>>, Nested))

(* can0 drops the switch and PID 21, can1 keeps of message OBD2 all but *)
(* the switches.                                                          *)
MCGroup ==
    can0 :> [Op |-> "or", Mode |-> "exclude",
             Rules |-> << [Field |-> "signal", Negated |-> FALSE,
                           Matches |-> {<<"S01PID", 0>>}],
                          [Field |-> "signal", Negated |-> FALSE,
                           Matches |-> {<<"S01PID_Supported", 33>>}] >>]
    @@ can1 :> [Op |-> "and", Mode |-> "include",
                Rules |-> << [Field |-> "message", Negated |-> FALSE,
                              Matches |-> {<<"OBD2", 0>>}],
                             [Field |-> "signal", Negated |-> TRUE,
                              Matches |-> {<<"S01PID", 0>>, <<"Bank", 0>>}] >>]
=============================================================================
