------------------------- MODULE ConnectionManager -------------------------
(***************************************************************************)
(* internal/connection/connection_manager.go: the registry of connections  *)
(* and what it does with all of them.  One owner adds the connections of   *)
(* the configuration in their order, opens, endings and closes; ReceiveAll *)
(* blocks a goroutine of its own until the loops have ended.  OpenAll,     *)
(* CloseAll and ReceiveAll work on a copy of the registry, one connection  *)
(* after the other, in any order.                                          *)
(***************************************************************************)
EXTENDS Receivers

CONSTANTS Configured,   (* the connections in the order they are added       *)
          Name,         (* of each; names need not differ                    *)
          MaxEndings    (* bound on DeleteConnection, CloseAll, Discontinue  *)

ASSUME ManagerAssumption ==
    /\ Configured \in [1..Cardinality(Conn) -> Conn]
    /\ \A c \in Conn : \E k \in DOMAIN Configured : Configured[k] = c
    /\ MaxEndings \in Nat

VARIABLES
    registry,   \* function from ids to connections
    nextID, endings,
    id,         \* the id a connection was given, and keeps
    owner,      \* what the owner does: its operation, copy and rest of it
    receiver    \* the same of ReceiveAll

manager == <<registry, nextID, endings, id, owner, receiver>>
vars == <<pc, opened, streaming, quit, source, left, channel, cancelled, kind, wg,
          registry, nextID, endings, id, owner, receiver>>

Registered == {registry[i] : i \in DOMAIN registry}

Ids == 0..(Cardinality(Conn) - 1)

NoId == Cardinality(Conn)

Added == {c \in Conn : id[c] # NoId}

Between == [op |-> "none", all |-> {}, todo |-> {}]

Doing(op, all) == [op |-> op, all |-> all, todo |-> all]

TypeOK ==
    /\ LoopTypes
    /\ DOMAIN registry \subseteq Ids /\ Registered \subseteq Conn
    /\ nextID \in 0..Cardinality(Conn)
    /\ id \in [Conn -> Ids \cup {NoId}]
    /\ endings \in 0..MaxEndings
    /\ owner \in [op : {"none", "OpenAll", "CloseAll", "Discontinue"},
                  all : SUBSET Conn, todo : SUBSET Conn]
    /\ receiver \in [at : {"off", "start", "wait", "returned"}, todo : SUBSET Conn]

Init ==
    /\ LoopInit
    /\ registry = [i \in {} |-> {}]
    /\ nextID = 0
    /\ id = [c \in Conn |-> NoId]
    /\ endings = 0
    /\ owner = Between
    /\ receiver = [at |-> "off", todo |-> {}]

-----------------------------------------------------------------------------
(* The owner is between two operations. *)
Idle == owner = Between

CountEnding ==
    /\ endings < MaxEndings
    /\ endings' = endings + 1

(* Connect adds before anything receives. *)
MayAdd(c) ==
    /\ Idle
    /\ receiver.at = "off"
    /\ nextID < Cardinality(Conn)
    /\ c = Configured[nextID + 1]

AddAs(c, i) ==
    /\ id' = [id EXCEPT ![c] = i]
    /\ registry' = [j \in DOMAIN registry \cup {i} |-> IF j = i THEN c ELSE registry[j]]
    /\ nextID' = nextID + 1
    /\ UNCHANGED <<loops, link, given, endings, owner, receiver>>

(* Mutant: the next id is the size of the registry. *)
AddBySize(c) == MayAdd(c) /\ AddAs(c, Cardinality(DOMAIN registry))

Add(c) == MayAdd(c) /\ AddAs(c, nextID)

(* Some connection of that name; an error of its Close is ignored.  Close  *)
(* panics on an SLCAN or SocketCAN connection that was never opened.       *)
DeleteConnection(name) ==
    /\ Idle
    /\ CountEnding
    /\ \E i \in DOMAIN registry :
        LET c == registry[i] IN
        /\ Name[c] = name
        /\ Wired(c) => source[c] # "none"
        /\ registry' = [j \in DOMAIN registry \ {i} |-> registry[j]]
        /\ Close(c) \/ (Wired(c) /\ UNCHANGED <<opened, source>>)
    /\ UNCHANGED <<loops, streaming, quit, given, nextID, id, owner, receiver>>

(* The owner opens what is configured, once, before it receives; it closes *)
(* what it opened.                                                         *)
BeginOpenAll ==
    /\ Idle
    /\ receiver.at = "off"
    /\ Added = Conn /\ (\A c \in Conn : ~opened[c])
    /\ owner' = Doing("OpenAll", Registered)
    /\ UNCHANGED <<loops, link, given, registry, nextID, endings, id, receiver>>

BeginCloseAll ==
    /\ Idle
    /\ CountEnding
    /\ \A c \in Registered : Wired(c) => source[c] # "none"
    /\ owner' = Doing("CloseAll", Registered)
    /\ UNCHANGED <<loops, link, given, registry, nextID, id, receiver>>

(* One of the copy; the first error ends the operation. *)
DoNext(op, Works(_)) ==
    /\ owner.op = op
    /\ \E c \in owner.todo :
        \/ /\ Works(c)
           /\ owner' = [owner EXCEPT !.todo = @ \ {c}]
        \/ /\ Wired(c)
           /\ owner' = Between
           /\ UNCHANGED <<opened, source>>
    /\ UNCHANGED <<loops, streaming, quit, given, registry, nextID, endings, id, receiver>>

OpenNext == DoNext("OpenAll", Open)

(* Mutant: an error is passed over. *)
CloseNextWhatever ==
    /\ owner.op = "CloseAll"
    /\ \E c \in owner.todo :
        /\ Close(c) \/ (Wired(c) /\ UNCHANGED <<opened, source>>)
        /\ owner' = [owner EXCEPT !.todo = @ \ {c}]
    /\ UNCHANGED <<loops, streaming, quit, given, registry, nextID, endings, id, receiver>>

CloseNext == DoNext("CloseAll", Close)

(* It returns without an error. *)
EndAll(op) ==
    /\ owner.op = op
    /\ owner.todo = {}
    /\ owner' = Between
    /\ UNCHANGED <<loops, link, given, registry, nextID, endings, id, receiver>>

(* Discontinue of a connection that receives, once: SLCAN panics on the    *)
(* second.  SocketCAN closes its receiver first, and gives up if that      *)
(* fails.                                                                  *)
Discontinue(c) ==
    /\ Idle
    /\ CountEnding
    /\ streaming[c]
    /\ IF kind[c] = "socketcan"
       THEN CloseReceiver(c) /\ owner' = Doing("Discontinue", {c})
       ELSE StopStreaming(c) /\ UNCHANGED owner
    /\ UNCHANGED <<loops, given, registry, nextID, id, receiver>>

EndDiscontinue ==
    /\ owner.op = "Discontinue"
    /\ \E c \in owner.todo : StopStreaming(c)
    /\ owner' = Between
    /\ UNCHANGED <<loops, given, registry, nextID, endings, id, receiver>>

-----------------------------------------------------------------------------
BeginReceiveAll ==
    /\ receiver.at = "off"
    /\ Idle
    /\ Added = Conn /\ (\A c \in Registered : opened[c])
    /\ receiver' = [at |-> "start", todo |-> Registered]
    /\ UNCHANGED <<loops, link, given, registry, nextID, endings, id, owner>>

ReceiveNext ==
    /\ receiver.at = "start"
    /\ \E c \in receiver.todo :
        /\ Receive(c)
        /\ receiver' = [receiver EXCEPT !.todo = @ \ {c}]
    /\ UNCHANGED <<opened, source, left, channel, given, registry, nextID, endings, id, owner>>

EndReceive ==
    /\ receiver.at = "start"
    /\ receiver.todo = {}
    /\ receiver' = [receiver EXCEPT !.at = "wait"]
    /\ UNCHANGED <<loops, link, given, registry, nextID, endings, id, owner>>

Wait ==
    /\ receiver.at = "wait"
    /\ wg = 0
    /\ receiver' = [receiver EXCEPT !.at = "returned"]
    /\ UNCHANGED <<loops, link, given, registry, nextID, endings, id, owner>>

-----------------------------------------------------------------------------
Owner ==
    \/ \E c \in Conn : Add(c) \/ Discontinue(c)
    \/ \E c \in Conn : DeleteConnection(Name[c])
    \/ BeginOpenAll \/ OpenNext \/ EndAll("OpenAll")
    \/ BeginCloseAll \/ CloseNext \/ EndAll("CloseAll")
    \/ EndDiscontinue

ReceiveAll == BeginReceiveAll \/ ReceiveNext \/ EndReceive \/ Wait

LoopStep(c) ==
    /\ Loop(c) \/ Frame(c) \/ ChannelCloses(c) \/ SeeContext(c) \/ SeeQuit(c)
    /\ UNCHANGED manager

World == (Cancel \/ Drain \/ \E c \in Conn : DeviceFails(c)) /\ UNCHANGED manager

Next == Owner \/ ReceiveAll \/ World \/ \E c \in Conn : LoopStep(c)

Spec == Init /\ [][Next]_vars

(* The manager's operations and the loops go on, a select case that is     *)
(* ready again and again is taken, and the dispatcher takes messages until *)
(* the context is done.                                                    *)
FairSpec ==
    /\ Spec
    /\ WF_vars(OpenNext \/ CloseNext \/ EndDiscontinue \/ ReceiveNext \/ EndReceive \/ Wait)
    /\ WF_vars(~cancelled /\ Drain /\ UNCHANGED manager)
    /\ \A c \in Conn :
        /\ SF_vars(Loop(c) /\ UNCHANGED manager)
        /\ SF_vars((SeeContext(c) \/ SeeQuit(c)) /\ UNCHANGED manager)

-----------------------------------------------------------------------------
(* An id names one connection for good, also when others were deleted in   *)
(* between: the outputs look names up by the id a message carries.         *)
IdsStayApart ==
    /\ \A c, d \in Added : id[c] = id[d] => c = d
    /\ \A i \in DOMAIN registry : id[registry[i]] = i

(* An OpenAll or CloseAll that reports no error has opened or closed every *)
(* connection it began with, and a ReceiveAll that returns has no loop     *)
(* left behind.                                                            *)
AllMeansAll ==
    [][/\ EndAll("OpenAll") => \A c \in owner.all : opened[c]
       /\ EndAll("CloseAll") => \A c \in owner.all : ~opened[c]
       /\ Wait => Running = {}]_vars

(* After a cancel every loop ends, except an SLCAN loop whose message does *)
(* not fit into the channel any more, and a SocketCAN loop that waits for  *)
(* a frame: these two are where a shutdown may hang.                       *)
CancelEndsLoops == cancelled ~> \A c \in Running : Stuck(c)

(* The simulator does not look at the flag. *)
Discontinued == {c \in Running : kind[c] # "sim" /\ ~streaming[c]}

(* A connection that was discontinued stops receiving, wherever its loop   *)
(* was at that moment, as long as the dispatcher runs.                     *)
DiscontinueEndsLoops == Discontinued # {} ~> (Discontinued = {} \/ cancelled)
=============================================================================
