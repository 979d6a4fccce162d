----------------------------- MODULE Receivers -----------------------------
(***************************************************************************)
(* The receive loops of internal/connection/{simulate, playback, slcan,    *)
(* socketcan}, as they share one bounded channel to the dispatcher, one    *)
(* WaitGroup and one context.  What a frame holds is data; adapters and    *)
(* sockets are external.                                                   *)
(***************************************************************************)
EXTENDS Naturals, FiniteSets

CONSTANTS Conn,         (* connections                                       *)
          Networks,     (* configurations: what each connection may be       *)
          Looped,       (* connections that start over at the end of the log *)
          Entries,      (* frames in a log file                              *)
          ChannelSize   (* capacity of the channel to the dispatcher         *)

Kinds == {"sim", "playback", "slcan", "socketcan"}

ASSUME ReceiversAssumption ==
    /\ IsFiniteSet(Conn)
    /\ Networks \subseteq [Conn -> Kinds]
    /\ Looped \subseteq Conn
    /\ Entries \in Nat
    /\ ChannelSize \in Nat \ {0}

VARIABLES
    pc,         \* where the loop of a connection is
    opened, streaming,
    quit,       \* the quit channel of SLCAN: none, open, closed
    source,     \* adapter or socket: none, up, failed, closed
    left,       \* entries of the log file still to be played
    channel,    \* messages waiting for the dispatcher
    cancelled,  \* the context is done
    kind,       \* of a connection, as configured
    wg          \* count of the WaitGroup

link == <<opened, streaming, quit, source>>
loops == <<pc, left, channel, wg>>
given == <<cancelled, kind>>

(* Those that have a device behind them. *)
Wired(c) == kind[c] \in {"slcan", "socketcan"}

Running == {c \in Conn : pc[c] \notin {"off", "ended"}}

LoopTypes ==
    /\ pc \in [Conn -> {"off", "head", "entry", "read", "send", "sleep", "check", "ended"}]
    /\ opened \in [Conn -> BOOLEAN]
    /\ streaming \in [Conn -> BOOLEAN]
    /\ quit \in [Conn -> {"none", "open", "closed"}]
    /\ source \in [Conn -> {"none", "up", "failed", "closed"}]
    /\ left \in [Conn -> 0..Entries]
    /\ channel \in 0..ChannelSize
    /\ cancelled \in BOOLEAN
    /\ kind \in Networks
    /\ wg \in 0..Cardinality(Conn)

LoopInit ==
    /\ pc = [c \in Conn |-> "off"]
    /\ opened = [c \in Conn |-> FALSE]
    /\ streaming = [c \in Conn |-> FALSE]
    /\ quit = [c \in Conn |-> "none"]
    /\ source = [c \in Conn |-> "none"]
    /\ left = [c \in Conn |-> 0]
    /\ channel = 0
    /\ cancelled = FALSE
    /\ kind \in Networks
    /\ wg = 0

Goto(c, step) == pc' = [pc EXCEPT ![c] = step] /\ UNCHANGED wg

(* The goroutine ends, and with it its share of the WaitGroup. *)
End(c) == pc' = [pc EXCEPT ![c] = "ended"] /\ wg' = wg - 1

-----------------------------------------------------------------------------
(* The operations of a connection. *)

Open(c) ==
    /\ opened' = [opened EXCEPT ![c] = TRUE]
    /\ source' = [source EXCEPT ![c] = IF Wired(c) THEN "up" ELSE @]

Close(c) ==
    /\ opened' = [opened EXCEPT ![c] = FALSE]
    /\ source' = [source EXCEPT ![c] = IF Wired(c) THEN "closed" ELSE @]

FirstStep(c) == CASE kind[c] = "sim" -> "send"
                  [] kind[c] = "playback" -> "head"
                  [] OTHER -> "read"

(* A playback whose file has no known format starts no goroutine.  SLCAN   *)
(* and SocketCAN panic on a device that was never opened.                  *)
Receive(c) ==
    /\ pc[c] = "off"
    /\ Wired(c) => source[c] # "none"
    /\ streaming' = [streaming EXCEPT ![c] = TRUE]
    /\ quit' = [quit EXCEPT ![c] = IF kind[c] = "slcan" THEN "open" ELSE @]
    /\ \/ pc' = [pc EXCEPT ![c] = FirstStep(c)] /\ wg' = wg + 1
       \/ kind[c] = "playback" /\ UNCHANGED <<pc, wg>>

(* Of SocketCAN the first of two steps: the receiver is closed. *)
CloseReceiver(c) ==
    /\ kind[c] = "socketcan"
    /\ source' = [source EXCEPT ![c] = "closed"]
    /\ UNCHANGED <<opened, streaming, quit>>

StopStreaming(c) ==
    /\ streaming' = [streaming EXCEPT ![c] = FALSE]
    /\ quit' = [quit EXCEPT ![c] = IF @ = "open" THEN "closed" ELSE @]
    /\ UNCHANGED <<opened, source>>

-----------------------------------------------------------------------------
(* The loops. *)

(* The send of SLCAN is not a select. *)
Send(c) ==
    /\ pc[c] = "send"
    /\ channel < ChannelSize
    /\ channel' = channel + 1
    /\ CASE kind[c] = "sim" -> Goto(c, "sleep") /\ UNCHANGED left
         [] kind[c] = "playback" ->
              /\ left' = [left EXCEPT ![c] = @ - 1]
              /\ IF left[c] > 1 THEN Goto(c, "entry")
                 ELSE IF c \in Looped THEN Goto(c, "head") ELSE End(c)
         [] OTHER -> Goto(c, "read") /\ UNCHANGED left
    /\ UNCHANGED <<link, given>>

(* Mutant: the simulator's send is not a select either. *)
WatchesContextLess(c) ==
    \/ pc[c] = "sleep"
    \/ pc[c] = "send" /\ kind[c] \notin {"slcan", "sim"}
    \/ pc[c] = "read" /\ kind[c] = "slcan"

(* The ctx.Done() cases; a blocked Receive of SocketCAN sees no context.   *)
WatchesContext(c) ==
    CASE pc[c] = "send" -> kind[c] # "slcan"
      [] pc[c] = "sleep" -> TRUE
      [] pc[c] = "read" -> kind[c] = "slcan"
      [] OTHER -> FALSE

SeeContext(c) ==
    /\ WatchesContext(c)
    /\ cancelled
    /\ End(c)
    /\ UNCHANGED <<link, left, channel, given>>

(* Playback parses the file anew for each round. *)
Parse(c) ==
    /\ pc[c] = "head"
    /\ IF streaming[c]
       THEN \/ Entries > 0 /\ Goto(c, "entry") /\ left' = [left EXCEPT ![c] = Entries]
            \/ End(c) /\ UNCHANGED left
       ELSE End(c) /\ UNCHANGED left
    /\ UNCHANGED <<link, channel, given>>

NextEntry(c) ==
    /\ pc[c] = "entry"
    /\ IF streaming[c] THEN \E step \in {"sleep", "send"} : Goto(c, step) ELSE End(c)
    /\ UNCHANGED <<link, left, channel, given>>

Timer(c) ==
    /\ pc[c] = "sleep"
    /\ Goto(c, IF kind[c] = "socketcan" THEN "read" ELSE "send")
    /\ UNCHANGED <<link, left, channel, given>>

Frame(c) ==
    /\ pc[c] = "read"
    /\ source[c] = "up"
    /\ Goto(c, "send")
    /\ UNCHANGED <<link, left, channel, given>>

(* Whether the adapter closes its channel then is up to its library. *)
ChannelCloses(c) ==
    /\ pc[c] = "read"
    /\ kind[c] = "slcan"
    /\ source[c] \in {"failed", "closed"}
    /\ End(c)
    /\ UNCHANGED <<link, left, channel, given>>

(* Receive of a socket that yields no more returns false. *)
NoFrame(c) ==
    /\ pc[c] = "read"
    /\ kind[c] = "socketcan"
    /\ source[c] \in {"failed", "closed"}
    /\ Goto(c, "check")
    /\ UNCHANGED <<link, left, channel, given>>

SeeQuit(c) ==
    /\ pc[c] = "read"
    /\ quit[c] = "closed"
    /\ End(c)
    /\ UNCHANGED <<link, left, channel, given>>

(* Mutant: after each frame that fails it waits and tries again. *)
CheckNothing(c) ==
    /\ pc[c] = "check"
    /\ Goto(c, "sleep")
    /\ UNCHANGED <<link, left, channel, given>>

(* SocketCAN waits before it tries its old receiver again. *)
CheckStreaming(c) ==
    /\ pc[c] = "check"
    /\ IF streaming[c] THEN Goto(c, "sleep") ELSE End(c)
    /\ UNCHANGED <<link, left, channel, given>>

Loop(c) ==
    \/ Send(c) \/ Parse(c) \/ NextEntry(c) \/ Timer(c)
    \/ NoFrame(c) \/ CheckStreaming(c)

-----------------------------------------------------------------------------
(* The world. *)
DeviceFails(c) ==
    /\ source[c] = "up"
    /\ source' = [source EXCEPT ![c] = "failed"]
    /\ UNCHANGED <<loops, opened, streaming, quit, given>>

Cancel ==
    /\ ~cancelled
    /\ cancelled' = TRUE
    /\ UNCHANGED <<loops, link, kind>>

(* The dispatcher takes a message; after a cancel it need not. *)
Drain ==
    /\ channel > 0
    /\ channel' = channel - 1
    /\ UNCHANGED <<link, pc, left, wg, given>>

(* A loop that no select gets out of where it is. *)
Stuck(c) ==
    \/ kind[c] = "slcan" /\ pc[c] = "send" /\ channel = ChannelSize
    \/ kind[c] = "socketcan" /\ pc[c] = "read" /\ source[c] = "up"
=============================================================================
