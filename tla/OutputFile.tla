----------------------------- MODULE OutputFile -----------------------------
(***************************************************************************)
(* What the channel handlers of the outputs keep, with the buffered        *)
(* writers of internal/parser/{csv, crtd} and the file they append to; and *)
(* what must hold of the file.  OutputHandlers has the steps.              *)
(***************************************************************************)
EXTENDS Naturals, Sequences, FiniteSets

CONSTANTS MaxMessages,  (* bound on the messages of a session                *)
          ChannelSize,
          Pieces,       (* of a line                                         *)
          Capacity,     (* of the buffer, in pieces                          *)
          Rejects,      (* function from names of filters to the messages    *)
          MaxSessions   (* bound on the starts of the process                *)

ASSUME OutputAssumption ==
    /\ {MaxMessages, ChannelSize, Pieces, MaxSessions} \subseteq Nat \ {0}
    /\ Capacity \in Nat /\ Capacity >= Pieces
    /\ \A name \in DOMAIN Rejects : Rejects[name] \subseteq 1..MaxMessages

VARIABLES
    sink,       \* what the handler writes to
    session,    \* number of the process
    handler,    \* down, receiving, closing, returned
    sent, taken, closed,    \* of the channel
    filters,    \* names registered
    ticked,     \* a tick waits in the ticker's channel
    buffer, file,
    failed,     \* the error bufio keeps
    accepted,   \* of each session, the pieces given to the writer
    connected,  \* to the broker
    waiting     \* messages whose acknowledgement a goroutine waits for

Messages == 1..MaxMessages
Sessions == 1..MaxSessions
Piece == [session : Sessions, line : 0..MaxMessages, piece : 1..Pieces]

(* Line 0 is the header. *)
Line(s, n) == [k \in 1..Pieces |-> [session |-> s, line |-> n, piece |-> k]]

-----------------------------------------------------------------------------
(* What a session put into a file that keeps the sessions apart. *)
Before(s) == Cardinality({i \in 1..Len(file) : file[i].session < s})

Of(s) == SubSeq(file, Before(s) + 1, Before(s + 1))

Begins(a, b) == Len(a) <= Len(b) /\ \A i \in 1..Len(a) : a[i] = b[i]

(* The file keeps the sessions apart and holds of each what it was given,  *)
(* in order and without a gap, up to some piece: up to what the buffer     *)
(* holds while no write has failed, so that a crash costs no more than     *)
(* that, and up to the end once the handler has returned.                  *)
FileReadsBack ==
    /\ \A i, j \in 1..Len(file) : i < j => file[i].session <= file[j].session
    /\ \A s \in 1..session : Begins(Of(s), accepted[s])
    /\ handler # "down" /\ ~failed => Of(session) \o buffer = accepted[session]
    /\ handler = "returned" /\ ~failed => buffer = <<>>
=============================================================================
