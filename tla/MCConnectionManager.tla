------------------------ MODULE MCConnectionManager ------------------------
(* ConnectionManager with an SLCAN, a SocketCAN and a third connection that *)
(* simulates or plays a log back; the first two have the same name.         *)
EXTENDS ConnectionManager, TLC, Sequences

CONSTANTS made, serial, bus

MCConn == {made, serial, bus}

MCConfigured == <<made, serial, bus>>

MCNetworks ==
    {made :> k @@ serial :> "slcan" @@ bus :> "socketcan" : k \in {"sim", "playback"}}

MCName == made :> "a" @@ serial :> "a" @@ bus :> "b"
=============================================================================
