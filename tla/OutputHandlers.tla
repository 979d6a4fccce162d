--------------------------- MODULE OutputHandlers ---------------------------
(***************************************************************************)
(* The channel handlers of the outputs that write one thing per message:   *)
(* internal/output/{csv, crtd, mqtt}/client.go with the buffered writers   *)
(* of internal/parser/{csv, crtd}.  A handler of signals is one of         *)
(* messages without filters.  The process may crash and start again on the *)
(* same file.  A line is cut into pieces, the unit of the buffer (external *)
(* bufio); a message is its number in its session.                         *)
(***************************************************************************)
EXTENDS OutputFile

channel == <<sent, taken, closed>>
writer == <<buffer, file, failed, accepted>>
broker == <<connected, waiting>>
vars == <<sink, session, handler, sent, taken, closed, filters, ticked,
          buffer, file, failed, accepted, connected, waiting>>

FileSinks == {"csv", "csv with header", "crtd"}
Sinks == FileSinks \cup {"mqtt", "mqtt acknowledged"}

TypeOK ==
    /\ sink \in Sinks
    /\ session \in 0..MaxSessions
    /\ handler \in {"down", "receiving", "closing", "returned"}
    /\ {sent, taken} \subseteq 0..MaxMessages /\ closed \in BOOLEAN
    /\ filters \subseteq DOMAIN Rejects
    /\ {ticked, failed, connected} \subseteq BOOLEAN
    /\ {buffer, file} \cup {accepted[s] : s \in Sessions} \subseteq Seq(Piece)
    /\ Len(buffer) <= Capacity
    /\ waiting \subseteq Messages

Init ==
    /\ sink \in Sinks
    /\ session = 0
    /\ handler = "down"
    /\ sent = 0 /\ taken = 0 /\ closed = FALSE
    /\ filters = {}
    /\ ticked = FALSE
    /\ buffer = <<>> /\ file = <<>> /\ failed = FALSE
    /\ accepted = [s \in Sessions |-> <<>>]
    /\ connected = FALSE
    /\ waiting = {}

-----------------------------------------------------------------------------
(* The buffered writer. *)

(* A write of the pieces, or one cut short: bufio keeps the error, and     *)
(* refuses everything after it.                                            *)
WriteOut(pieces, rest) ==
    \/ /\ file' = file \o pieces
       /\ buffer' = rest
       /\ UNCHANGED failed
    \/ \E n \in 0..(Len(pieces) - 1) :
        /\ file' = file \o SubSeq(pieces, 1, n)
        /\ buffer' = SubSeq(pieces, n + 1, Len(pieces))
        /\ failed' = TRUE

Accept(s, n) == accepted' = [accepted EXCEPT ![s] = @ \o Line(s, n)]

(* Mutant: what does not fit goes past the buffer. *)
AppendLinePast(n) ==
    /\ Accept(session, n)
    /\ CASE failed -> UNCHANGED <<buffer, file, failed>>
         [] ~failed /\ Len(buffer) + Pieces <= Capacity ->
              buffer' = buffer \o Line(session, n) /\ UNCHANGED <<file, failed>>
         [] OTHER -> WriteOut(Line(session, n), buffer)

(* A full buffer goes to the file, in the middle of a line if need be. *)
AppendLine(n) ==
    LET all == buffer \o Line(session, n) IN
    /\ Accept(session, n)
    /\ CASE failed -> UNCHANGED <<buffer, file, failed>>
         [] ~failed /\ Len(all) <= Capacity -> buffer' = all /\ UNCHANGED <<file, failed>>
         [] OTHER -> WriteOut(SubSeq(all, 1, Capacity), SubSeq(all, Capacity + 1, Len(all)))

Flush ==
    /\ IF failed THEN UNCHANGED <<buffer, file, failed>> ELSE WriteOut(buffer, <<>>)
    /\ UNCHANGED accepted

-----------------------------------------------------------------------------
(* The process. *)

(* The header of a CSV file waits in the buffer; that of a CRTD file is    *)
(* flushed, and if that fails the process does not start.  The file is     *)
(* opened for appending.  MQTT starts connected or not at all.             *)
Start ==
    /\ handler = "down"
    /\ session < MaxSessions
    /\ session' = session + 1
    /\ LET header == Line(session', 0) IN
        CASE sink = "csv with header" ->
                /\ buffer' = header /\ Accept(session', 0)
                /\ handler' = "receiving"
                /\ UNCHANGED file
          [] sink = "crtd" ->
                \E n \in 0..Pieces :
                    /\ file' = file \o SubSeq(header, 1, n)
                    /\ Accept(session', 0)
                    /\ handler' = IF n = Pieces THEN "receiving" ELSE "down"
                    /\ UNCHANGED buffer
          [] OTHER -> handler' = "receiving" /\ UNCHANGED <<buffer, file, accepted>>
    /\ connected' = (sink \notin FileSinks)
    /\ UNCHANGED <<sink, channel, filters, ticked, failed, waiting>>

(* It crashes, or exits: what is in memory is gone. *)
Stop ==
    /\ handler # "down"
    /\ handler' = "down"
    /\ sent' = 0 /\ taken' = 0 /\ closed' = FALSE
    /\ filters' = {} /\ ticked' = FALSE
    /\ buffer' = <<>> /\ failed' = FALSE
    /\ connected' = FALSE /\ waiting' = {}
    /\ UNCHANGED <<sink, session, file, accepted>>

(* FilterSet.Add, at any time: a name that is taken is refused. *)
AddFilter(name) ==
    /\ handler = "receiving"
    /\ filters' = filters \cup {name}
    /\ UNCHANGED <<sink, session, handler, channel, ticked, writer, broker>>

Send ==
    /\ handler = "receiving"
    /\ ~closed
    /\ sent < MaxMessages /\ sent - taken < ChannelSize
    /\ sent' = sent + 1
    /\ UNCHANGED <<sink, session, handler, taken, closed, filters, ticked, writer, broker>>

CloseChannel ==
    /\ handler = "receiving"
    /\ ~closed
    /\ closed' = TRUE
    /\ UNCHANGED <<sink, session, handler, sent, taken, filters, ticked, writer, broker>>

(* The broker; the library connects again by itself. *)
LoseOrFindBroker ==
    /\ sink \notin FileSinks
    /\ handler # "down"
    /\ connected' = ~connected
    /\ UNCHANGED <<sink, session, handler, channel, filters, ticked, writer, waiting>>

-----------------------------------------------------------------------------
(* The handler. *)

(* One filter that matches is enough. *)
ShouldFilter(n) == \E name \in filters : n \in Rejects[name]

(* HandleCanMessage of CSV and CRTD. *)
Write(n) == IF ShouldFilter(n) THEN UNCHANGED writer ELSE AppendLine(n)

(* HandleCanMessage of MQTT: without a connection the message is dropped;  *)
(* an acknowledgement is waited for in a goroutine of its own.             *)
Publish(n) ==
    waiting' = IF connected /\ ~ShouldFilter(n) /\ sink = "mqtt acknowledged"
               THEN waiting \cup {n} ELSE waiting

Take ==
    /\ handler = "receiving"
    /\ taken < sent
    /\ taken' = taken + 1
    /\ IF sink \in FileSinks THEN Write(taken') /\ UNCHANGED waiting
       ELSE Publish(taken') /\ UNCHANGED writer
    /\ UNCHANGED <<sink, session, handler, sent, closed, filters, ticked, connected>>

Tick ==
    /\ sink \in FileSinks
    /\ handler = "receiving"
    /\ ~ticked
    /\ ticked' = TRUE
    /\ UNCHANGED <<sink, session, handler, channel, filters, writer, broker>>

(* Mutant: the buffer waits to be full. *)
FlushNothingAtTick ==
    /\ handler = "receiving"
    /\ ticked
    /\ ticked' = FALSE
    /\ UNCHANGED <<sink, session, handler, channel, filters, writer, broker>>

FlushAtTick ==
    /\ handler = "receiving"
    /\ ticked
    /\ ticked' = FALSE
    /\ Flush
    /\ UNCHANGED <<sink, session, handler, channel, filters, broker>>

(* The channel is closed and empty. *)
EndOfInput ==
    /\ handler = "receiving"
    /\ closed /\ taken = sent
    /\ IF sink \in FileSinks THEN Flush /\ handler' = "closing"
       ELSE UNCHANGED writer /\ handler' = "returned"
    /\ UNCHANGED <<sink, session, channel, filters, ticked, broker>>

(* The deferred Close flushes once more. *)
Close ==
    /\ handler = "closing"
    /\ Flush
    /\ handler' = "returned"
    /\ UNCHANGED <<sink, session, channel, filters, ticked, broker>>

Acknowledge(n) ==
    /\ n \in waiting
    /\ connected
    /\ waiting' = waiting \ {n}
    /\ UNCHANGED <<sink, session, handler, channel, filters, ticked, writer, connected>>

(* publishAckTimeout has passed. *)
GiveUp(n) ==
    /\ n \in waiting
    /\ waiting' = waiting \ {n}
    /\ UNCHANGED <<sink, session, handler, channel, filters, ticked, writer, connected>>

Handler == Take \/ FlushAtTick \/ EndOfInput \/ Close

Next ==
    \/ Start \/ Stop \/ Send \/ CloseChannel \/ LoseOrFindBroker
    \/ Handler \/ Tick
    \/ \E name \in DOMAIN Rejects : AddFilter(name)
    \/ \E n \in Messages : Acknowledge(n) \/ GiveUp(n)

Spec == Init /\ [][Next]_vars

(* The ticker ticks, and of the select's cases that are ready again and    *)
(* again each is taken.  The broker owes nothing.                          *)
FairSpec ==
    /\ Spec
    /\ WF_vars(Tick)
    /\ SF_vars(Take) /\ SF_vars(FlushAtTick) /\ WF_vars(EndOfInput \/ Close)
    /\ \A n \in Messages : WF_vars(GiveUp(n))

-----------------------------------------------------------------------------
(* Messages of this session whose fate is open: in the channel, in the     *)
(* buffer, or with an acknowledgement that may still come.                 *)
Unsettled ==
    {n \in 1..sent : \/ n > taken
                     \/ \E k \in DOMAIN buffer : buffer[k].line = n /\ ~failed
                     \/ n \in waiting}

(* Every message comes to an end, whatever the broker does and however     *)
(* little traffic there is to fill the buffer, unless the process stops.   *)
EveryMessageSettles == (Unsettled # {}) ~> (Unsettled = {} \/ handler = "down")
=============================================================================
