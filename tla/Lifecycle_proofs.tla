--------------------------- MODULE Lifecycle_proofs ---------------------------
(***************************************************************************)
(* Theorems about what starts, and what ends, in the process.  Of the      *)
(* connection manager: ids that stay apart, operations on all connections  *)
(* that are answerable for all of them, and a WaitGroup that counts the    *)
(* loops.  Of the application, in the second part: who is registered and   *)
(* served when traffic starts, and when the process may exit.              *)
(***************************************************************************)
EXTENDS ConnectionManager, AppWiring, FiniteSetTheorems, TLAPS

LEMMA Size == IsFiniteSet(Conn) /\ Cardinality(Conn) \in Nat
BY ReceiversAssumption, FS_CardinalityType DEF ReceiversAssumption

(* No connection is configured twice. *)
LEMMA ConfiguredOnce ==
    \A j, k \in 1..Cardinality(Conn) : Configured[j] = Configured[k] => j = k
<1> DEFINE N == 1..Cardinality(Conn)
<1>1. IsFiniteSet(N) /\ Cardinality(N) = Cardinality(Conn)
  <2>1. 1 \in Int /\ Cardinality(Conn) \in Int
    BY Size
  <2>2. Cardinality(N) = IF 1 > Cardinality(Conn) THEN 0 ELSE Cardinality(Conn) - 1 + 1
    BY <2>1, FS_Interval
  <2>3. QED  BY <2>1, <2>2, FS_Interval, Size
<1>2. Configured \in Surjection(N, Conn)
  BY ManagerAssumption DEF ManagerAssumption, Surjection
<1>3. Configured \in Injection(N, Conn)
  BY <1>1, <1>2, Size, FS_SurjSameCardinalityImpliesInj
<1>4. QED  BY <1>3 DEF Injection, IsInjective

-----------------------------------------------------------------------------
(* The id of a connection says when it was added, and the registry files   *)
(* connections under their ids.                                            *)
IdsOnce ==
    /\ nextID \in 0..Cardinality(Conn)
    /\ id \in [Conn -> Nat]
    /\ \A c \in Added : id[c] < nextID /\ Configured[id[c] + 1] = c
    /\ \A i \in DOMAIN registry : registry[i] \in Added /\ id[registry[i]] = i

Doings == [op : {"none", "OpenAll", "CloseAll", "Discontinue"},
           all : SUBSET Conn, todo : SUBSET Conn]

(* What an operation on all has behind it stays opened, or closed. *)
BehindIt ==
    /\ opened \in [Conn -> BOOLEAN]
    /\ Registered \subseteq Conn
    /\ owner \in Doings
    /\ owner.op = "OpenAll" => \A c \in owner.all \ owner.todo : opened[c]
    /\ owner.op = "CloseAll" => \A c \in owner.all \ owner.todo : ~opened[c]

(* The WaitGroup counts the loops. *)
WgCounts ==
    /\ DOMAIN pc = Conn
    /\ wg = Cardinality(Running)

ToReceive == receiver \in [at : {"off", "start", "wait", "returned"}, todo : SUBSET Conn]

-----------------------------------------------------------------------------
(* Steps on ids. *)

LEMMA IdsInit == Init => IdsOnce
<1> SUFFICES ASSUME Init PROVE IdsOnce
  OBVIOUS
<1>1. Added = {}
  BY DEF Init, Added
<1>2. DOMAIN registry = {}
  BY DEF Init
<1>3. id \in [Conn -> Nat] /\ nextID \in 0..Cardinality(Conn)
  BY Size DEF Init, NoId
<1>4. QED  BY <1>1, <1>2, <1>3 DEF IdsOnce

(* A new connection gets an id no other has. *)
LEMMA IdsAdd == ASSUME NEW c \in Conn, IdsOnce, Add(c) PROVE IdsOnce'
<1>1. nextID \in 0..(Cardinality(Conn) - 1) /\ nextID + 1 \in 1..Cardinality(Conn)
  BY Size DEF IdsOnce, Add, MayAdd
<1>2. nextID' = nextID + 1 /\ c = Configured[nextID + 1]
  BY DEF Add, MayAdd, AddAs
<1>3. id' = [id EXCEPT ![c] = nextID] /\ id \in [Conn -> Nat]
  BY DEF Add, AddAs, IdsOnce
<1>4. c \notin Added
  <2> SUFFICES ASSUME c \in Added PROVE FALSE
    OBVIOUS
  <2>1. id[c] < nextID /\ Configured[id[c] + 1] = c /\ id[c] \in Nat
    BY <1>3 DEF IdsOnce
  <2>2. id[c] + 1 \in 1..Cardinality(Conn) /\ id[c] + 1 # nextID + 1
    BY <2>1, <1>1, Size
  <2>3. QED  BY <2>1, <2>2, <1>1, <1>2, ConfiguredOnce
<1>5. Added' = Added \cup {c} /\ id'[c] = nextID /\ \A d \in Added : id'[d] = id[d]
  <2>1. nextID # NoId /\ id'[c] = nextID
    BY <1>1, <1>3, Size DEF NoId
  <2>2. \A d \in Conn : d # c => id'[d] = id[d]
    BY <1>3
  <2>3. NoId' = NoId
    BY DEF NoId
  <2>4. QED  BY <2>1, <2>2, <2>3, <1>4 DEF Added
<1>6. \A d \in Added' : id'[d] < nextID' /\ Configured[id'[d] + 1] = d
  <2>1. id'[c] < nextID' /\ Configured[id'[c] + 1] = c
    BY <1>1, <1>2, <1>5
  <2>2. ASSUME NEW d \in Added PROVE id'[d] < nextID' /\ Configured[id'[d] + 1] = d
    <3>1. id[d] < nextID /\ Configured[id[d] + 1] = d /\ id[d] \in Nat
      BY <1>3 DEF IdsOnce, Added
    <3>2. QED  BY <3>1, <1>1, <1>2, <1>5
  <2>3. QED  BY <2>1, <2>2, <1>5
<1>7. \A i \in DOMAIN registry' : registry'[i] \in Added' /\ id'[registry'[i]] = i
  <2>1. registry' = [j \in DOMAIN registry \cup {nextID} |->
                       IF j = nextID THEN c ELSE registry[j]]
    BY DEF Add, AddAs
  <2>2. ASSUME NEW i \in DOMAIN registry, i # nextID
        PROVE registry'[i] \in Added' /\ id'[registry'[i]] = i
    <3>1. registry'[i] = registry[i] /\ registry[i] \in Added /\ id[registry[i]] = i
      BY <2>1, <2>2 DEF IdsOnce
    <3>2. QED  BY <3>1, <1>5
  <2>3. registry'[nextID] = c
    BY <2>1
  <2>4. QED  BY <2>1, <2>2, <2>3, <1>5
<1>8. id' \in [Conn -> Nat] /\ nextID' \in 0..Cardinality(Conn)
  BY <1>1, <1>2, <1>3, Size
<1>9. QED  BY <1>6, <1>7, <1>8 DEF IdsOnce

(* Deleting gives nothing back. *)
LEMMA IdsDelete ==
    ASSUME NEW name, IdsOnce, DeleteConnection(name) PROVE IdsOnce'
<1>1. UNCHANGED <<nextID, id>>
  BY DEF DeleteConnection
<1>2. Added' = Added
  BY <1>1 DEF Added, NoId
<1>3. PICK i \in DOMAIN registry : registry' = [j \in DOMAIN registry \ {i} |-> registry[j]]
  BY DEF DeleteConnection
<1>4. \A j \in DOMAIN registry' : j \in DOMAIN registry /\ registry'[j] = registry[j]
  BY <1>3
<1>5. QED  BY <1>1, <1>2, <1>4 DEF IdsOnce

LEMMA IdsOtherwise ==
    ASSUME IdsOnce, UNCHANGED <<nextID, id, registry>> PROVE IdsOnce'
BY DEF IdsOnce, Added, NoId

LEMMA IdsStep == IdsOnce /\ [Next]_vars => IdsOnce'
<1> SUFFICES ASSUME IdsOnce, [Next]_vars PROVE IdsOnce'
  OBVIOUS
<1>1. CASE \E c \in Conn : Add(c)
  BY <1>1, IdsAdd
<1>2. CASE \E c \in Conn : DeleteConnection(Name[c])
  BY <1>2, IdsDelete
<1>3. CASE \E c \in Conn : Discontinue(c)
  BY <1>3, IdsOtherwise DEF Discontinue
<1>4. CASE BeginOpenAll \/ OpenNext \/ EndAll("OpenAll")
  BY <1>4, IdsOtherwise DEF BeginOpenAll, OpenNext, DoNext, EndAll
<1>5. CASE BeginCloseAll \/ CloseNext \/ EndAll("CloseAll") \/ EndDiscontinue
  BY <1>5, IdsOtherwise DEF BeginCloseAll, CloseNext, DoNext, EndAll, EndDiscontinue
<1>6. CASE ReceiveAll
  BY <1>6, IdsOtherwise DEF ReceiveAll, BeginReceiveAll, ReceiveNext, EndReceive, Wait
<1>7. CASE World \/ (\E c \in Conn : LoopStep(c)) \/ UNCHANGED vars
  BY <1>7, IdsOtherwise DEF World, LoopStep, manager, vars
<1>8. QED  BY <1>1, <1>2, <1>3, <1>4, <1>5, <1>6, <1>7 DEF Next, Owner

(* An id names one connection for good, also when others were deleted in   *)
(* between (connection_manager.go, Add and DeleteConnection).              *)
THEOREM ManagerIds == Spec => []IdsStayApart
<1>1. IdsOnce => IdsStayApart
  <2> SUFFICES ASSUME IdsOnce PROVE IdsStayApart
    OBVIOUS
  <2>1. \A c, d \in Added : id[c] = id[d] => c = d
    BY DEF IdsOnce
  <2>2. \A i \in DOMAIN registry : id[registry[i]] = i
    BY DEF IdsOnce
  <2>3. QED  BY <2>1, <2>2 DEF IdsStayApart
<1>2. QED  BY <1>1, IdsInit, IdsStep, PTL DEF Spec

-----------------------------------------------------------------------------
(* Steps on what an operation on all has behind it. *)

LEMMA BehindInit == Init => BehindIt
<1> SUFFICES ASSUME Init PROVE BehindIt
  OBVIOUS
<1>1. owner.op = "none" /\ owner \in Doings
  BY DEF Init, Between, Doings
<1>2. DOMAIN registry = {}
  BY DEF Init
<1>3. Registered = {}
  BY <1>2 DEF Registered
<1>4. opened \in [Conn -> BOOLEAN]
  BY DEF Init, LoopInit
<1>5. QED  BY <1>1, <1>3, <1>4 DEF BehindIt

LEMMA BehindOtherwise ==
    ASSUME BehindIt, UNCHANGED <<opened, owner, registry>> PROVE BehindIt'
BY DEF BehindIt, Registered

LEMMA BehindAdd == ASSUME NEW c \in Conn, BehindIt, Add(c) PROVE BehindIt'
<1>1. UNCHANGED <<opened, owner>>
  BY DEF Add, AddAs, link
<1>2. registry' = [j \in DOMAIN registry \cup {nextID} |->
                     IF j = nextID THEN c ELSE registry[j]]
  BY DEF Add, AddAs
<1>3. Registered' \subseteq Conn
  BY <1>2 DEF BehindIt, Registered
<1>4. QED  BY <1>1, <1>3 DEF BehindIt

(* The owner is in no operation. *)
LEMMA BehindBetween ==
    ASSUME BehindIt, owner'.op \notin {"OpenAll", "CloseAll"},
           owner' \in Doings,
           opened' \in [Conn -> BOOLEAN], Registered' \subseteq Conn
    PROVE BehindIt'
BY DEF BehindIt

LEMMA BehindDelete ==
    ASSUME NEW name, BehindIt, DeleteConnection(name) PROVE BehindIt'
<1>1. owner' = Between
  BY DEF DeleteConnection, Idle
<1>2. PICK i \in DOMAIN registry :
        /\ registry' = [j \in DOMAIN registry \ {i} |-> registry[j]]
        /\ Close(registry[i]) \/ UNCHANGED <<opened, source>>
  BY DEF DeleteConnection
<1>3. opened' \in [Conn -> BOOLEAN]
  BY <1>2 DEF BehindIt, Close
<1>4. Registered' \subseteq Conn
  BY <1>2 DEF BehindIt, Registered
<1>5. QED  BY <1>1, <1>3, <1>4, BehindBetween DEF Between, Doings

LEMMA BehindBegin ==
    ASSUME NEW op \in {"OpenAll", "CloseAll"}, BehindIt, owner' = Doing(op, Registered), UNCHANGED <<opened, registry>>
    PROVE BehindIt'
<1>1. owner'.all \ owner'.todo = {} /\ Registered' = Registered
  BY DEF Doing, Registered
<1>2. owner' \in Doings
  BY DEF BehindIt, Doing, Doings
<1>3. QED  BY <1>1, <1>2 DEF BehindIt

LEMMA BehindOpenNext == ASSUME BehindIt, OpenNext PROVE BehindIt'
<1>1. UNCHANGED registry /\ owner.op = "OpenAll"
  BY DEF OpenNext, DoNext
<1>2. PICK c \in owner.todo :
        \/ Open(c) /\ owner' = [owner EXCEPT !.todo = @ \ {c}]
        \/ owner' = Between /\ UNCHANGED opened
  BY DEF OpenNext, DoNext
<1>3. Registered' = Registered
  BY <1>1 DEF Registered
<1>4. CASE Open(c) /\ owner' = [owner EXCEPT !.todo = @ \ {c}]
  <2>1. opened' = [opened EXCEPT ![c] = TRUE] /\ opened' \in [Conn -> BOOLEAN]
    BY <1>4 DEF Open, BehindIt
  <2>2. /\ owner' \in Doings
        /\ owner'.op = "OpenAll" /\ owner'.all = owner.all /\ owner'.todo = owner.todo \ {c}
    BY <1>1, <1>4 DEF BehindIt, Doings
  <2>3. ASSUME NEW d \in owner'.all \ owner'.todo PROVE opened'[d]
    <3>1. d \in Conn /\ (d = c \/ d \in owner.all \ owner.todo)
      BY <2>2 DEF BehindIt, Doings
    <3>2. QED  BY <1>1, <2>1, <3>1 DEF BehindIt
  <2>4. QED  BY <2>1, <2>2, <2>3, <1>3 DEF BehindIt
<1>5. CASE owner' = Between /\ UNCHANGED opened
  BY <1>3, <1>5, BehindBetween DEF Between, BehindIt, Doings
<1>6. QED  BY <1>2, <1>4, <1>5

LEMMA BehindCloseNext == ASSUME BehindIt, CloseNext PROVE BehindIt'
<1>1. UNCHANGED registry /\ owner.op = "CloseAll"
  BY DEF CloseNext, DoNext
<1>2. PICK c \in owner.todo :
        \/ Close(c) /\ owner' = [owner EXCEPT !.todo = @ \ {c}]
        \/ owner' = Between /\ UNCHANGED opened
  BY DEF CloseNext, DoNext
<1>3. Registered' = Registered
  BY <1>1 DEF Registered
<1>4. CASE Close(c) /\ owner' = [owner EXCEPT !.todo = @ \ {c}]
  <2>1. opened' = [opened EXCEPT ![c] = FALSE] /\ opened' \in [Conn -> BOOLEAN]
    BY <1>4 DEF Close, BehindIt
  <2>2. /\ owner' \in Doings
        /\ owner'.op = "CloseAll" /\ owner'.all = owner.all /\ owner'.todo = owner.todo \ {c}
    BY <1>1, <1>4 DEF BehindIt, Doings
  <2>3. ASSUME NEW d \in owner'.all \ owner'.todo PROVE ~opened'[d]
    <3>1. d \in Conn /\ (d = c \/ d \in owner.all \ owner.todo)
      BY <2>2 DEF BehindIt, Doings
    <3>2. QED  BY <1>1, <2>1, <3>1 DEF BehindIt
  <2>4. QED  BY <2>1, <2>2, <2>3, <1>3 DEF BehindIt
<1>5. CASE owner' = Between /\ UNCHANGED opened
  BY <1>3, <1>5, BehindBetween DEF Between, BehindIt, Doings
<1>6. QED  BY <1>2, <1>4, <1>5

(* Discontinue of one connection opens and closes none. *)
LEMMA BehindDiscontinue ==
    ASSUME NEW c \in Conn, BehindIt, Discontinue(c) \/ EndDiscontinue PROVE BehindIt'
<1>1. owner' = Between \/ owner' = Doing("Discontinue", {c})
  BY DEF Discontinue, EndDiscontinue, Idle
<1>2. UNCHANGED registry
  BY DEF Discontinue, EndDiscontinue
<1>3. UNCHANGED opened
  BY DEF Discontinue, EndDiscontinue, CloseReceiver, StopStreaming
<1>4. owner' \in Doings
  BY <1>1 DEF Between, Doing, Doings
<1>5. owner'.op \notin {"OpenAll", "CloseAll"}
  BY <1>1 DEF Between, Doing
<1>6. QED  BY <1>2, <1>3, <1>4, <1>5, BehindBetween DEF BehindIt, Registered

LEMMA BehindEnd ==
    ASSUME BehindIt, NEW op, EndAll(op) PROVE BehindIt'
BY BehindBetween DEF EndAll, Between, Doings, BehindIt, Registered, link

LEMMA BehindStep == BehindIt /\ [Next]_vars => BehindIt'
<1> SUFFICES ASSUME BehindIt, [Next]_vars PROVE BehindIt'
  OBVIOUS
<1>1. CASE \E c \in Conn : Add(c) \/ Discontinue(c)
  BY <1>1, BehindAdd, BehindDiscontinue
<1>2. CASE \E c \in Conn : DeleteConnection(Name[c])
  BY <1>2, BehindDelete
<1>3. CASE BeginOpenAll \/ BeginCloseAll
  BY <1>3, BehindBegin DEF BeginOpenAll, BeginCloseAll, link
<1>4. CASE OpenNext \/ CloseNext \/ EndAll("OpenAll") \/ EndAll("CloseAll")
  BY <1>4, BehindOpenNext, BehindCloseNext, BehindEnd
<1>5. CASE EndDiscontinue
  <2>1. PICK c \in owner.todo : StopStreaming(c)
    BY <1>5 DEF EndDiscontinue
  <2>2. c \in Conn
    BY <2>1 DEF BehindIt, Doings
  <2>3. QED  BY <1>5, <2>2, BehindDiscontinue
<1>6. CASE ReceiveAll
  BY <1>6, BehindOtherwise
     DEF ReceiveAll, BeginReceiveAll, ReceiveNext, EndReceive, Wait, link
<1>7. CASE World \/ (\E c \in Conn : LoopStep(c)) \/ UNCHANGED vars
  <2>1. CASE World
    BY <2>1, BehindOtherwise DEF World, Cancel, Drain, DeviceFails, manager, link
  <2>2. CASE \E c \in Conn : LoopStep(c)
    BY <2>2, BehindOtherwise
       DEF LoopStep, Loop, Send, Parse, NextEntry, Timer, NoFrame, CheckStreaming, Frame,
           ChannelCloses, SeeContext, SeeQuit, manager, link
  <2>3. CASE UNCHANGED vars
    BY <2>3, BehindOtherwise DEF vars
  <2>4. QED  BY <1>7, <2>1, <2>2, <2>3
<1>8. QED  BY <1>1, <1>2, <1>3, <1>4, <1>5, <1>6, <1>7 DEF Next, Owner

-----------------------------------------------------------------------------
(* Steps on the WaitGroup. *)

LEMMA RunningFinite == IsFiniteSet(Running) /\ Cardinality(Running) \in Nat
<1>1. Running \subseteq Conn
  BY DEF Running
<1>2. QED  BY <1>1, Size, FS_Subset, FS_CardinalityType

LEMMA CountInit == Init => WgCounts
<1> SUFFICES ASSUME Init PROVE WgCounts
  OBVIOUS
<1>1. pc = [c \in Conn |-> "off"] /\ wg = 0
  BY DEF Init, LoopInit
<1>2. Running = {}
  BY <1>1 DEF Running
<1>3. QED  BY <1>1, <1>2, FS_EmptySet DEF WgCounts

LEMMA CountOtherwise == ASSUME WgCounts, UNCHANGED <<pc, wg>> PROVE WgCounts'
BY DEF WgCounts, Running

(* A loop that goes on is counted once before and after. *)
LEMMA CountGoto ==
    ASSUME NEW c \in Conn, NEW step, WgCounts, Goto(c, step), c \in Running,
           step \notin {"off", "ended"}
    PROVE WgCounts'
<1>1. pc' = [pc EXCEPT ![c] = step] /\ wg' = wg
  BY DEF Goto
<1>2. DOMAIN pc' = Conn /\ pc'[c] = step /\ \A d \in Conn : d # c => pc'[d] = pc[d]
  BY <1>1 DEF WgCounts
<1>3. Running' = Running
  BY <1>2 DEF Running
<1>4. QED  BY <1>1, <1>2, <1>3 DEF WgCounts

(* A loop that ends takes its share with it. *)
LEMMA CountEnd ==
    ASSUME NEW c \in Conn, WgCounts, End(c), c \in Running PROVE WgCounts'
<1>1. pc' = [pc EXCEPT ![c] = "ended"] /\ wg' = wg - 1
  BY DEF End
<1>2. DOMAIN pc' = Conn /\ pc'[c] = "ended" /\ \A d \in Conn : d # c => pc'[d] = pc[d]
  BY <1>1 DEF WgCounts
<1>3. Running' = Running \ {c}
  BY <1>2 DEF Running
<1>4. Cardinality(Running \ {c}) = Cardinality(Running) - 1
  BY RunningFinite, FS_RemoveElement
<1>5. QED  BY <1>1, <1>2, <1>3, <1>4 DEF WgCounts

LEMMA CountReceive ==
    ASSUME NEW c \in Conn, WgCounts, Receive(c) PROVE WgCounts'
<1>1. CASE UNCHANGED <<pc, wg>>
  BY <1>1, CountOtherwise
<1>2. CASE pc' = [pc EXCEPT ![c] = FirstStep(c)] /\ wg' = wg + 1
  <2>1. FirstStep(c) \notin {"off", "ended"}
    <3>1. CASE kind[c] = "sim"
      BY <3>1 DEF FirstStep
    <3>2. CASE kind[c] = "playback"
      BY <3>2 DEF FirstStep
    <3>3. CASE kind[c] \notin {"sim", "playback"}
      BY <3>3 DEF FirstStep
    <3>4. QED  BY <3>1, <3>2, <3>3
  <2>2. DOMAIN pc' = Conn /\ pc'[c] = FirstStep(c) /\ \A d \in Conn : d # c => pc'[d] = pc[d]
    BY <1>2 DEF WgCounts
  <2>3. c \notin Running
    BY DEF Receive, Running
  <2>4. Running' = Running \cup {c}
    BY <2>1, <2>2 DEF Running
  <2>5. Cardinality(Running \cup {c}) = Cardinality(Running) + 1
    BY <2>3, RunningFinite, FS_AddElement
  <2>6. QED  BY <1>2, <2>2, <2>4, <2>5 DEF WgCounts
<1>3. QED  BY <1>1, <1>2 DEF Receive

LEMMA CountLoop == ASSUME NEW c \in Conn, WgCounts, LoopStep(c) PROVE WgCounts'
<1>1. CASE Send(c)
  <2>1. c \in Running
    BY <1>1 DEF Send, Running
  <2>2. CASE kind[c] = "sim"
    <3>1. Goto(c, "sleep")
      BY <1>1, <2>2 DEF Send
    <3>2. QED  BY <2>1, <3>1, CountGoto
  <2>3. CASE kind[c] = "playback"
    <3>1. Goto(c, "entry") \/ Goto(c, "head") \/ End(c)
      BY <1>1, <2>3 DEF Send
    <3>2. QED  BY <2>1, <3>1, CountGoto, CountEnd
  <2>4. CASE kind[c] \notin {"sim", "playback"}
    <3>1. Goto(c, "read")
      BY <1>1, <2>4 DEF Send
    <3>2. QED  BY <2>1, <3>1, CountGoto
  <2>5. QED  BY <2>2, <2>3, <2>4
<1>2. CASE Parse(c)
  <2>1. c \in Running /\ (Goto(c, "entry") \/ End(c))
    BY <1>2 DEF Parse, Running
  <2>2. QED  BY <2>1, CountGoto, CountEnd
<1>3. CASE NextEntry(c)
  <2>1. c \in Running /\ (Goto(c, "sleep") \/ Goto(c, "send") \/ End(c))
    BY <1>3 DEF NextEntry, Running
  <2>2. QED  BY <2>1, CountGoto, CountEnd
<1>4. CASE Timer(c)
  <2>1. c \in Running /\ (Goto(c, "read") \/ Goto(c, "send"))
    <3>1. CASE kind[c] = "socketcan"
      BY <1>4, <3>1 DEF Timer, Running
    <3>2. CASE kind[c] # "socketcan"
      BY <1>4, <3>2 DEF Timer, Running
    <3>3. QED  BY <3>1, <3>2
  <2>2. QED  BY <2>1, CountGoto
<1>5. CASE NoFrame(c) \/ Frame(c)
  <2>1. c \in Running /\ (Goto(c, "check") \/ Goto(c, "send"))
    BY <1>5 DEF NoFrame, Frame, Running
  <2>2. QED  BY <2>1, CountGoto
<1>6. CASE CheckStreaming(c)
  <2>1. c \in Running /\ (Goto(c, "sleep") \/ End(c))
    BY <1>6 DEF CheckStreaming, Running
  <2>2. QED  BY <2>1, CountGoto, CountEnd
<1>7. CASE ChannelCloses(c) \/ SeeQuit(c)
  <2>1. c \in Running /\ End(c)
    BY <1>7 DEF ChannelCloses, SeeQuit, Running
  <2>2. QED  BY <2>1, CountEnd
<1>8. CASE SeeContext(c)
  <2>1. End(c) /\ WatchesContext(c)
    BY <1>8 DEF SeeContext
  <2>2. pc[c] \in {"send", "sleep", "read"}
    BY <2>1 DEF WatchesContext
  <2>3. c \in Running
    BY <2>2 DEF Running
  <2>4. QED  BY <2>1, <2>3, CountEnd
<1>9. QED
  BY <1>1, <1>2, <1>3, <1>4, <1>5, <1>6, <1>7, <1>8 DEF LoopStep, Loop

LEMMA ToReceiveStep == ToReceive /\ BehindIt /\ [Next]_vars => ToReceive'
<1> SUFFICES ASSUME ToReceive, BehindIt, [Next]_vars PROVE ToReceive'
  OBVIOUS
<1>1. CASE Owner
  BY <1>1
     DEF Owner, Add, AddAs, Discontinue, DeleteConnection, BeginOpenAll, OpenNext, BeginCloseAll,
         CloseNext, DoNext, EndAll, EndDiscontinue, ToReceive
<1>2. CASE BeginReceiveAll
  BY <1>2 DEF BeginReceiveAll, ToReceive, BehindIt
<1>3. CASE ReceiveNext \/ EndReceive \/ Wait
  BY <1>3 DEF ReceiveNext, EndReceive, Wait, ToReceive
<1>4. CASE World \/ (\E c \in Conn : LoopStep(c)) \/ UNCHANGED vars
  BY <1>4 DEF World, LoopStep, manager, vars, ToReceive
<1>5. QED  BY <1>1, <1>2, <1>3, <1>4 DEF Next, ReceiveAll

LEMMA CountStep == WgCounts /\ ToReceive /\ [Next]_vars => WgCounts'
<1> SUFFICES ASSUME WgCounts, ToReceive, [Next]_vars PROVE WgCounts'
  OBVIOUS
<1>1. CASE Owner
  BY <1>1, CountOtherwise
     DEF Owner, Add, AddAs, Discontinue, DeleteConnection, BeginOpenAll, OpenNext, BeginCloseAll,
         CloseNext, DoNext, EndAll, EndDiscontinue, loops
<1>2. CASE ReceiveAll
  <2>1. CASE ReceiveNext
    <3>1. PICK c \in receiver.todo : Receive(c)
      BY <2>1 DEF ReceiveNext
    <3>2. c \in Conn
      BY <3>1 DEF ToReceive
    <3>3. QED  BY <3>1, <3>2, CountReceive
  <2>2. CASE BeginReceiveAll \/ EndReceive \/ Wait
    BY <2>2, CountOtherwise DEF BeginReceiveAll, EndReceive, Wait, loops
  <2>3. QED  BY <1>2, <2>1, <2>2 DEF ReceiveAll
<1>3. CASE World
  BY <1>3, CountOtherwise DEF World, Cancel, Drain, DeviceFails, loops
<1>4. CASE \E c \in Conn : LoopStep(c)
  BY <1>4, CountLoop
<1>5. CASE UNCHANGED vars
  BY <1>5, CountOtherwise DEF vars
<1>6. QED  BY <1>1, <1>2, <1>3, <1>4, <1>5 DEF Next

LEMMA ToReceiveStart == Init => ToReceive
BY DEF Init, ToReceive

(* A wait that ends leaves no loop behind, and the ends of the operations  *)
(* find everything behind them done.                                       *)
LEMMA AllStep ==
    ASSUME BehindIt, WgCounts
    PROVE  /\ EndAll("OpenAll") => \A c \in owner.all : opened[c]
           /\ EndAll("CloseAll") => \A c \in owner.all : ~opened[c]
           /\ Wait => Running = {}
<1>1. EndAll("OpenAll") => \A c \in owner.all : opened[c]
  BY DEF EndAll, BehindIt
<1>2. EndAll("CloseAll") => \A c \in owner.all : ~opened[c]
  BY DEF EndAll, BehindIt
<1>3. ASSUME Wait PROVE Running = {}
  <2>1. Cardinality(Running) = 0
    BY <1>3 DEF Wait, WgCounts
  <2>2. QED  BY <2>1, RunningFinite, FS_EmptySet
<1>4. QED  BY <1>1, <1>2, <1>3

(* OpenAll, CloseAll and ReceiveAll, when they return without an error, are *)
(* done with every connection of their copy, whatever was deleted meanwhile *)
(* and however the loops ended (connection_manager.go, 173-197).            *)
THEOREM ManagerAll == Spec => AllMeansAll
<1> DEFINE Inv == BehindIt /\ WgCounts /\ ToReceive
           All == /\ EndAll("OpenAll") => \A c \in owner.all : opened[c]
                  /\ EndAll("CloseAll") => \A c \in owner.all : ~opened[c]
                  /\ Wait => Running = {}
<1>1. Init => Inv
  BY BehindInit, CountInit, ToReceiveStart
<1>2. Inv /\ [Next]_vars => Inv'
  BY BehindStep, CountStep, ToReceiveStep
<1>3. Inv => [All]_vars
  BY AllStep
<1>4. Spec => [][All]_vars
  <2> HIDE DEF Inv, All
  <2>1. QED  BY <1>1, <1>2, <1>3, PTL DEF Spec
<1>5. QED  BY <1>4 DEF AllMeansAll

(* The count of the WaitGroup is the number of loops that run, in every    *)
(* state: no loop is left out of a ReceiveAll, none is counted twice.      *)
THEOREM ManagerCounts == Spec => [](wg = Cardinality(Running))
<1> DEFINE Inv == BehindIt /\ WgCounts /\ ToReceive
<1>1. Init => Inv
  BY BehindInit, CountInit, ToReceiveStart
<1>2. Inv /\ [Next]_vars => Inv'
  BY BehindStep, CountStep, ToReceiveStep
<1>3. Inv => wg = Cardinality(Running)
  BY DEF WgCounts
<1>4. QED
  <2> HIDE DEF Inv
  <2>1. QED  BY <1>1, <1>2, <1>3, PTL DEF Spec

-----------------------------------------------------------------------------
(* The application: its steps, over the state of AppWiring.  What it knows  *)
(* of the connections is Interface.                                         *)
VARIABLES err, contextDone

App == INSTANCE App WITH cancelled <- contextDone


AddedOutputs == Output \ unadded

(* What is registered with whom, and who runs for it. *)
Wiring ==
    /\ signalDispatchers = IF config.LogSignals THEN Parsed \ unparsed ELSE {}
    /\ listeners = signalDispatchers \cup (IF config.LogCanMessages THEN AddedOutputs ELSE {})
    /\ \A i \in Interface :
          signalListeners[i] = IF i \in signalDispatchers THEN AddedOutputs ELSE {}
    /\ \A o \in Output :
          /\ go[<<"can", o>>] # "absent" <=> config.LogCanMessages /\ o \in AddedOutputs
          /\ go[<<"signal", o>>] # "absent" <=> signalDispatchers # {} /\ o \in AddedOutputs

(* How far main has come. *)
Progress ==
    /\ phase = "parsers" => unadded = Output
    /\ phase # "parsers" => unparsed = {}
    /\ phase \notin {"parsers", "outputs"} => unadded = {}
    /\ \A i \in Interface :
          go[<<"dispatch", i>>] # "absent"
              <=> phase \notin {"parsers", "outputs"} /\ i \in signalDispatchers
    /\ go[<<"broadcast", "app">>] # "absent" => phase \in {"receive", "wait", "exited"}

WiringInv == App!TypeOK /\ Wiring /\ Progress

LEMMA InGoroutine ==
    /\ \A o \in Output : <<"run", o>> \in App!Goroutine /\ <<"can", o>> \in App!Goroutine
                            /\ <<"signal", o>> \in App!Goroutine
    /\ \A i \in Interface : <<"dispatch", i>> \in App!Goroutine /\ <<"connection", i>> \in App!Goroutine
    /\ <<"broadcast", "app">> \in App!Goroutine /\ <<"receive", "app">> \in App!Goroutine
BY DEF App!Goroutine

(* One goroutine ends and nothing else happens but what that brings about.  *)
Ended(g) ==
    /\ App!Running(g) /\ UNCHANGED App!setup
    /\ go' = [go EXCEPT ![g] = "ended"]
    /\ err' \in {"none", "server", "context"} /\ contextDone' \in BOOLEAN

(* A goroutine that ends was not absent, and is not absent after. *)
LEMMA EndKeeps ==
    ASSUME WiringInv, UNCHANGED App!setup, NEW g \in App!Goroutine, App!Running(g),
           go' = [go EXCEPT ![g] = "ended"],
           err' \in {"none", "server", "context"}, contextDone' \in BOOLEAN
    PROVE  WiringInv'
<1> USE DEF WiringInv
<1>1. /\ go' \in [App!Goroutine -> {"absent", "running", "ended"}]
      /\ \A h \in App!Goroutine : go'[h] # "absent" <=> go[h] # "absent"
  BY DEF App!TypeOK, App!Running
<1>2. App!TypeOK'
  BY <1>1 DEF App!TypeOK, App!setup, App!wiring
<1>3. Wiring'
  BY <1>1, InGoroutine DEF Wiring, App!setup, App!wiring, AddedOutputs
<1>4. Progress'
  BY <1>1, InGoroutine DEF Progress, App!setup, App!wiring
<1>5. QED
  BY <1>2, <1>3, <1>4

(* Start touches nobody it does not start. *)
LEMMA StartKeeps ==
    ASSUME App!TypeOK, NEW gs \in SUBSET App!Goroutine, App!Start(gs)
    PROVE  /\ go' \in [App!Goroutine -> {"absent", "running", "ended"}]
           /\ \A g \in App!Goroutine : go'[g] # "absent" <=> g \in gs \/ go[g] # "absent"
BY DEF App!TypeOK, App!Start

LEMMA WiringStarts == App!Init => WiringInv
<1> SUFFICES ASSUME App!Init PROVE WiringInv
  OBVIOUS
<1>1. \A g \in App!Goroutine : go[g] = "absent"
  BY DEF App!Init
<1>2. App!TypeOK
  BY AppAssumption DEF App!Init, App!TypeOK
<1>3. Wiring
  BY <1>1, InGoroutine DEF App!Init, Wiring, AddedOutputs
<1>4. Progress
  BY <1>1, InGoroutine DEF App!Init, Progress
<1>5. QED
  BY <1>2, <1>3, <1>4 DEF WiringInv

LEMMA WiringKept == WiringInv /\ [App!Next]_(App!vars) => WiringInv'
<1> SUFFICES ASSUME WiringInv, [App!Next]_(App!vars) PROVE WiringInv'
  OBVIOUS
<1>1. ASSUME NEW i \in Interface, App!AddSignalDispatcher(i) PROVE WiringInv'
  <2>1. i \in unparsed /\ i \in Parsed /\ phase = "parsers" /\ unadded = Output
    BY <1>1 DEF App!AddSignalDispatcher, WiringInv, App!TypeOK, Progress
  <2>2. UNCHANGED <<config, phase, unadded, signalListeners, go, err, contextDone>>
    BY <1>1 DEF App!AddSignalDispatcher
  <2>3. /\ unparsed' = unparsed \ {i}
        /\ signalDispatchers' = IF config.LogSignals THEN signalDispatchers \cup {i}
                                ELSE signalDispatchers
        /\ listeners' = IF config.LogSignals THEN listeners \cup {i} ELSE listeners
    BY <1>1 DEF App!AddSignalDispatcher
  <2>4. App!TypeOK'
    BY <2>1, <2>2, <2>3, AppAssumption DEF App!TypeOK, WiringInv
  <2>5. signalDispatchers' = IF config'.LogSignals THEN Parsed \ unparsed' ELSE {}
    BY <2>1, <2>2, <2>3 DEF WiringInv, Wiring
  <2>6. AddedOutputs = {} /\ AddedOutputs' = {}
    BY <2>1, <2>2 DEF AddedOutputs
  <2>7. /\ listeners' = signalDispatchers' \cup (IF config'.LogCanMessages THEN AddedOutputs' ELSE {})
        /\ \A j \in Interface : signalListeners'[j] = {}
        /\ \A o \in Output : go'[<<"can", o>>] = "absent" /\ go'[<<"signal", o>>] = "absent"
    BY <2>2, <2>3, <2>6 DEF WiringInv, Wiring
  <2>8. Wiring'
    BY <2>5, <2>6, <2>7 DEF Wiring
  <2>9. Progress'
    BY <2>1, <2>2 DEF WiringInv, Progress
  <2>10. QED
    BY <2>4, <2>8, <2>9 DEF WiringInv
<1>2. CASE App!HasDispatchers
  <2>1. phase = "parsers" /\ unparsed = {} /\ phase' = "outputs"
    BY <1>2 DEF App!HasDispatchers
  <2>2. UNCHANGED <<config, unparsed, unadded, signalDispatchers, listeners, signalListeners,
                    go, err, contextDone>>
    BY <1>2 DEF App!HasDispatchers, App!wiring
  <2>3. App!TypeOK'
    BY <2>1, <2>2 DEF WiringInv, App!TypeOK
  <2>4. Wiring'
    BY <2>2 DEF WiringInv, Wiring, AddedOutputs
  <2>5. Progress'
    BY <2>1, <2>2 DEF WiringInv, Progress
  <2>6. QED
    BY <2>3, <2>4, <2>5 DEF WiringInv
<1>3. ASSUME NEW o \in Output, App!AddOutput(o) PROVE WiringInv'
  <2> DEFINE gs == ({"run"} \X ({o} \cap (Server \cup Pool)))
                       \cup (IF config.LogCanMessages THEN {<<"can", o>>} ELSE {})
                       \cup (IF signalDispatchers # {} THEN {<<"signal", o>>} ELSE {})
  <2>1. phase = "outputs" /\ o \in unadded /\ unadded' = unadded \ {o} /\ unparsed = {}
    BY <1>3 DEF App!AddOutput, WiringInv, Progress
  <2>2. UNCHANGED <<config, phase, unparsed, signalDispatchers, err, contextDone>>
    BY <1>3 DEF App!AddOutput
  <2>3. /\ listeners' = IF config.LogCanMessages THEN listeners \cup {o} ELSE listeners
        /\ signalListeners' =
               [i \in Interface |->
                   signalListeners[i] \cup (IF i \in signalDispatchers THEN {o} ELSE {})]
    BY <1>3 DEF App!AddOutput
  <2>4. gs \in SUBSET App!Goroutine
    BY DEF App!Goroutine
  <2>5. App!Start(gs)
    BY <1>3 DEF App!AddOutput
  <2>6. /\ go' \in [App!Goroutine -> {"absent", "running", "ended"}]
        /\ \A g \in App!Goroutine : go'[g] # "absent" <=> g \in gs \/ go[g] # "absent"
    BY <2>4, <2>5, StartKeeps DEF WiringInv
  <2>7. AddedOutputs' = AddedOutputs \cup {o} /\ o \notin AddedOutputs
    BY <2>1 DEF AddedOutputs
  <2>8. App!TypeOK'
    BY <2>1, <2>2, <2>3, <2>6 DEF WiringInv, App!TypeOK
  <2>9. \A i \in Interface : signalListeners'[i] = IF i \in signalDispatchers THEN AddedOutputs' ELSE {}
    BY <2>3, <2>7 DEF WiringInv, Wiring
  <2>10. \A p \in Output :
            /\ <<"can", p>> \in gs <=> config.LogCanMessages /\ p = o
            /\ <<"signal", p>> \in gs <=> signalDispatchers # {} /\ p = o
    OBVIOUS
  <2>11. \A p \in Output :
            /\ go'[<<"can", p>>] # "absent" <=> config.LogCanMessages /\ p \in AddedOutputs'
            /\ go'[<<"signal", p>>] # "absent" <=> signalDispatchers # {} /\ p \in AddedOutputs'
    BY <2>6, <2>7, <2>10, InGoroutine DEF WiringInv, Wiring
  <2>12. Wiring'
    <3>1. listeners' = signalDispatchers' \cup (IF config'.LogCanMessages THEN AddedOutputs' ELSE {})
      BY <2>2, <2>3, <2>7 DEF WiringInv, Wiring
    <3>2. signalDispatchers' = IF config'.LogSignals THEN Parsed \ unparsed' ELSE {}
      BY <2>2 DEF WiringInv, Wiring
    <3>3. QED
      BY <2>2, <2>9, <2>11, <3>1, <3>2 DEF Wiring
  <2>13. <<"broadcast", "app">> \notin gs /\ \A i \in Interface : <<"dispatch", i>> \notin gs
    OBVIOUS
  <2>14. Progress'
    BY <2>1, <2>2, <2>6, <2>13, InGoroutine DEF WiringInv, Progress
  <2>15. QED
    BY <2>8, <2>12, <2>14 DEF WiringInv
<1>4. CASE App!RunDispatchers
  <2> DEFINE gs == {"dispatch"} \X signalDispatchers
  <2>1. /\ phase = "outputs" /\ unadded = {} /\ phase' = "broadcast"
        /\ UNCHANGED <<config, unparsed, unadded, signalDispatchers, listeners, signalListeners,
                       err, contextDone>>
        /\ App!Start(gs)
    BY <1>4 DEF App!RunDispatchers, App!wiring
  <2>2. gs \in SUBSET App!Goroutine
    BY AppAssumption DEF App!Goroutine, WiringInv, App!TypeOK
  <2>3. /\ go' \in [App!Goroutine -> {"absent", "running", "ended"}]
        /\ \A g \in App!Goroutine : go'[g] # "absent" <=> g \in gs \/ go[g] # "absent"
    BY <2>1, <2>2, StartKeeps DEF WiringInv
  <2>4. App!TypeOK'
    BY <2>1, <2>3 DEF WiringInv, App!TypeOK
  <2>5. \A p \in Output : <<"can", p>> \notin gs /\ <<"signal", p>> \notin gs
    OBVIOUS
  <2>6. Wiring'
    BY <2>1, <2>3, <2>5, InGoroutine DEF WiringInv, Wiring, AddedOutputs
  <2>7. /\ <<"broadcast", "app">> \notin gs
        /\ \A i \in Interface : <<"dispatch", i>> \in gs <=> i \in signalDispatchers
    OBVIOUS
  <2>8. Progress'
    BY <2>1, <2>3, <2>7, InGoroutine DEF WiringInv, Progress
  <2>9. QED
    BY <2>4, <2>6, <2>8 DEF WiringInv
<1>5. CASE App!RunBroadcast \/ App!RunReceive
  <2> DEFINE gs == IF phase = "broadcast" THEN {<<"broadcast", "app">>}
                   ELSE {<<"receive", "app">>} \cup ({"connection"} \X Interface)
  <2>1. /\ \/ phase = "broadcast" /\ phase' = "receive"
           \/ phase = "receive" /\ phase' = "wait"
        /\ UNCHANGED <<config, unparsed, unadded, signalDispatchers, listeners, signalListeners,
                       err, contextDone>>
        /\ App!Start(gs)
    BY <1>5 DEF App!RunBroadcast, App!RunReceive, App!wiring
  <2>2. gs \in SUBSET App!Goroutine
    BY DEF App!Goroutine
  <2>3. /\ go' \in [App!Goroutine -> {"absent", "running", "ended"}]
        /\ \A g \in App!Goroutine : go'[g] # "absent" <=> g \in gs \/ go[g] # "absent"
    BY <2>1, <2>2, StartKeeps DEF WiringInv
  <2>4. App!TypeOK'
    BY <2>1, <2>3 DEF WiringInv, App!TypeOK
  <2>5. \A p \in Output : <<"can", p>> \notin gs /\ <<"signal", p>> \notin gs
    OBVIOUS
  <2>6. Wiring'
    BY <2>1, <2>3, <2>5, InGoroutine DEF WiringInv, Wiring, AddedOutputs
  <2>7. \A i \in Interface : <<"dispatch", i>> \notin gs
    OBVIOUS
  <2>8. Progress'
    BY <2>1, <2>3, <2>7, InGoroutine DEF WiringInv, Progress
  <2>9. QED
    BY <2>4, <2>6, <2>8 DEF WiringInv
<1>6. CASE App!Exit
  <2>1. /\ phase = "wait" /\ phase' = "exited" /\ contextDone' = TRUE
        /\ UNCHANGED <<config, unparsed, unadded, signalDispatchers, listeners, signalListeners,
                       go, err>>
    BY <1>6 DEF App!Exit, App!wiring
  <2>2. App!TypeOK'
    BY <2>1 DEF WiringInv, App!TypeOK
  <2>3. Wiring'
    BY <2>1 DEF WiringInv, Wiring, AddedOutputs
  <2>4. Progress'
    BY <2>1 DEF WiringInv, Progress
  <2>5. QED
    BY <2>2, <2>3, <2>4 DEF WiringInv
<1>7. ASSUME App!Stops \/ \E o \in Output : App!ServerFails(o) PROVE WiringInv'
  <2>1. \E g \in App!Goroutine : Ended(g)
    <3>1. err \in {"none", "server", "context"} /\ contextDone \in BOOLEAN
      BY DEF WiringInv, App!TypeOK
    <3>2. ASSUME NEW o \in Output, App!HandlerStops(o) PROVE \E g \in App!Goroutine : Ended(g)
      <4>1. PICK g \in {"can", "signal"} \X {o} : App!Running(g) /\ App!End(g)
        BY <3>2 DEF App!HandlerStops
      <4>2. g \in App!Goroutine
        BY <4>1 DEF App!Goroutine
      <4>3. QED
        BY <3>1, <3>2, <4>1, <4>2 DEF App!HandlerStops, App!End, Ended
    <3>8. CASE \E o \in Output : App!PoolStarted(o)
      BY <3>1, <3>8, InGoroutine DEF App!PoolStarted, App!End, Ended
    <3>3. CASE App!BroadcastStops
      BY <3>1, <3>3, InGoroutine DEF App!BroadcastStops, App!Fail, Ended
    <3>4. CASE \E i \in Interface : App!ConnectionStops(i)
      BY <3>1, <3>4, InGoroutine DEF App!ConnectionStops, App!End, Ended
    <3>5. CASE App!ReceiveReturns
      BY <3>1, <3>5, InGoroutine DEF App!ReceiveReturns, App!End, Ended
    <3>6. CASE \E o \in Output : App!ServerFails(o)
      BY <3>1, <3>6, InGoroutine DEF App!ServerFails, App!Fail, Ended
    <3>7. QED
      BY <1>7, <3>2, <3>3, <3>4, <3>5, <3>6, <3>8 DEF App!Stops
  <2>2. QED
    BY <2>1, EndKeeps DEF Ended
<1>8. CASE UNCHANGED App!vars
  BY <1>8 DEF App!vars, WiringInv, App!TypeOK, Wiring, Progress, AddedOutputs
<1>9. QED
  BY <1>1, <1>2, <1>3, <1>4, <1>5, <1>6, <1>7, <1>8 DEF App!Next, App!Main

LEMMA WiringAlways == App!Spec => []WiringInv
<1>1. App!Init => WiringInv
  BY WiringStarts
<1>2. WiringInv /\ [App!Next]_(App!vars) => WiringInv'
  BY WiringKept
<1>3. QED
  BY <1>1, <1>2, PTL DEF App!Spec

(***************************************************************************)
(* The types, for any outputs, interfaces and options.                     *)
(***************************************************************************)
THEOREM AppTypes == App!Spec => []App!TypeOK
<1>1. WiringInv => App!TypeOK
  BY DEF WiringInv
<1>2. QED
  BY <1>1, WiringAlways, PTL

LEMMA ServedByWiring == WiringInv => ListenersAreServed
<1> SUFFICES ASSUME WiringInv, phase \in {"receive", "wait"}
             PROVE  /\ \A o \in Output : o \in listeners <=> go[<<"can", o>>] # "absent"
                    /\ \A i \in Interface : i \in listeners <=> go[<<"dispatch", i>>] # "absent"
                    /\ \A o \in Output :
                          go[<<"signal", o>>] # "absent"
                              <=> \E i \in Interface : o \in signalListeners[i]
  BY DEF ListenersAreServed
<1>1. unadded = {} /\ AddedOutputs = Output
  BY DEF WiringInv, Progress, AddedOutputs
<1>2. signalDispatchers \subseteq Interface
  BY AppAssumption DEF WiringInv, App!TypeOK
<1>3. Output \cap Interface = {}
  BY AppAssumption
<1>4. \A o \in Output : o \in listeners <=> go[<<"can", o>>] # "absent"
  BY <1>1, <1>2, <1>3 DEF WiringInv, Wiring
<1>5. \A i \in Interface : i \in listeners <=> go[<<"dispatch", i>>] # "absent"
  BY <1>1, <1>3 DEF WiringInv, Wiring, Progress
<1>6. \A o \in Output :
         go[<<"signal", o>>] # "absent" <=> \E i \in Interface : o \in signalListeners[i]
  BY <1>1, <1>2 DEF WiringInv, Wiring
<1>7. QED
  BY <1>4, <1>5, <1>6

(***************************************************************************)
(* Whoever is registered with a dispatcher when it starts has its          *)
(* goroutine, and a goroutine that waits for messages is registered        *)
(* (AddOutput, AddSignalDispatcher, Run).                                  *)
(***************************************************************************)
THEOREM AppServed == App!Spec => []ListenersAreServed
<1>1. WiringInv => ListenersAreServed
  BY ServedByWiring
<1>2. QED
  BY <1>1, WiringAlways, PTL

(* Whoever registers has not started what it registers with. *)
RegistersFirst ==
    /\ \A i \in Interface :
          go[<<"dispatch", i>>] = "running" => signalListeners'[i] = signalListeners[i]
    /\ go[<<"broadcast", "app">>] = "running" => listeners' = listeners

LEMMA StepsWired == WiringInv /\ [App!Next]_(App!vars) => RegistersFirst
<1> SUFFICES ASSUME WiringInv, [App!Next]_(App!vars) PROVE RegistersFirst
  OBVIOUS
<1>1. CASE phase \in {"parsers", "outputs"}
  <2>1. /\ \A i \in Interface : go[<<"dispatch", i>>] # "running"
        /\ go[<<"broadcast", "app">>] # "running"
    BY <1>1 DEF WiringInv, Progress
  <2>2. QED
    BY <2>1 DEF RegistersFirst
<1>2. CASE phase \notin {"parsers", "outputs"}
  <2>1. UNCHANGED <<listeners, signalListeners>>
    BY <1>2 DEF App!Next, App!Main, App!Stops, App!vars, App!wiring, App!setup,
                App!AddSignalDispatcher, App!HasDispatchers, App!AddOutput,
                App!RunDispatchers, App!RunBroadcast, App!RunReceive, App!Exit,
                App!PoolStarted, App!HandlerStops,
                App!BroadcastStops, App!ConnectionStops, App!ReceiveReturns, App!ServerFails
  <2>2. QED
    BY <2>1 DEF RegistersFirst
<1>3. QED
  BY <1>1, <1>2

(***************************************************************************)
(* No registration comes while the dispatcher it is with runs, in          *)
(* whichever order main makes dispatchers and outputs.                     *)
(***************************************************************************)
THEOREM AppWired == App!Spec => WiredBeforeStart
<1>1. WiringInv /\ [App!Next]_(App!vars) => [RegistersFirst]_<<listeners, signalListeners>>
  BY StepsWired
<1>2. QED
  BY <1>1, WiringAlways, PTL DEF App!Spec, WiredBeforeStart, RegistersFirst

(* Those that range over a channel nobody closes run for good. *)
ForGood == ({"can", "signal"} \X (Output \ Pool)) \cup ({"dispatch"} \X Interface)

RunsForGood ==
    /\ \A g \in ForGood : go[g] # "ended"
    /\ phase = "exited" => \A g \in ForGood : go[g] = "absent"

LEMMA ForGoodKept == WiringInv /\ RunsForGood /\ [App!Next]_(App!vars) => RunsForGood'
<1> SUFFICES ASSUME WiringInv, RunsForGood, [App!Next]_(App!vars) PROVE RunsForGood'
  OBVIOUS
<1>0. ForGood \subseteq App!Member /\ App!Member \subseteq App!Goroutine
  BY DEF ForGood, App!Member, App!Goroutine
<1>1. ASSUME NEW gs \in SUBSET App!Goroutine, App!Start(gs), phase # "exited", phase' # "exited"
      PROVE  RunsForGood'
  BY <1>0, <1>1 DEF RunsForGood, App!Start, ForGood
<1>2. ASSUME NEW g \in App!Goroutine \ ForGood, go' = [go EXCEPT ![g] = "ended"], phase' = phase
      PROVE  RunsForGood'
  <2>1. \A h \in ForGood : go'[h] = go[h]
    BY <1>0, <1>2 DEF WiringInv, App!TypeOK
  <2>2. QED
    BY <1>2, <2>1 DEF RunsForGood, ForGood
<1>3. ASSUME UNCHANGED <<phase, go>> PROVE RunsForGood'
  BY <1>3 DEF RunsForGood, ForGood
<1>4. CASE App!Main
  <2>1. ASSUME NEW i \in Interface, App!AddSignalDispatcher(i) PROVE RunsForGood'
    BY <1>3, <2>1 DEF App!AddSignalDispatcher
  <2>2. CASE App!HasDispatchers
    BY <2>2 DEF App!HasDispatchers, RunsForGood, ForGood
  <2>3. ASSUME NEW o \in Output, App!AddOutput(o) PROVE RunsForGood'
    <3> DEFINE gs == ({"run"} \X ({o} \cap (Server \cup Pool)))
                         \cup (IF config.LogCanMessages THEN {<<"can", o>>} ELSE {})
                         \cup (IF signalDispatchers # {} THEN {<<"signal", o>>} ELSE {})
    <3>1. App!Start(gs) /\ phase = "outputs" /\ phase' = "outputs"
      BY <2>3 DEF App!AddOutput
    <3>2. gs \in SUBSET App!Goroutine
      BY DEF App!Goroutine
    <3> HIDE DEF gs
    <3>3. QED
      BY <1>1, <3>1, <3>2
  <2>4. CASE App!RunDispatchers
    <3>1. {"dispatch"} \X signalDispatchers \in SUBSET App!Goroutine
      BY AppAssumption DEF App!Goroutine, WiringInv, App!TypeOK
    <3>2. QED
      BY <1>1, <2>4, <3>1 DEF App!RunDispatchers
  <2>5. CASE App!RunBroadcast
    BY <1>1, <2>5, InGoroutine DEF App!RunBroadcast
  <2>6. CASE App!RunReceive
    <3>1. {<<"receive", "app">>} \cup ({"connection"} \X Interface) \in SUBSET App!Goroutine
      BY DEF App!Goroutine
    <3>2. QED
      BY <1>1, <2>6, <3>1 DEF App!RunReceive
  <2>7. CASE App!Exit
    <3>1. \A g \in ForGood : go[g] = "absent"
      BY <1>0, <2>7 DEF App!Exit, App!Running, RunsForGood, WiringInv, App!TypeOK
    <3>2. QED
      BY <2>7, <3>1 DEF App!Exit, RunsForGood, ForGood
  <2>8. QED
    BY <1>4, <2>1, <2>2, <2>3, <2>4, <2>5, <2>6, <2>7 DEF App!Main
<1>5. CASE App!Stops \/ \E o \in Output : App!ServerFails(o)
  <2>1. \E g \in App!Goroutine \ ForGood : go' = [go EXCEPT ![g] = "ended"] /\ phase' = phase
    <3>1. ASSUME NEW o \in Output, App!HandlerStops(o)
          PROVE  \E g \in App!Goroutine \ ForGood : go' = [go EXCEPT ![g] = "ended"] /\ phase' = phase
      <4>1. PICK g \in {"can", "signal"} \X {o} : App!Running(g) /\ App!End(g)
        BY <3>1 DEF App!HandlerStops
      <4>2. g \in App!Goroutine
        BY <4>1 DEF App!Goroutine
      <4>3. g \notin ForGood
        BY <3>1, <4>1 DEF ForGood, App!HandlerStops
      <4>4. QED
        BY <3>1, <4>1, <4>2, <4>3 DEF App!HandlerStops, App!End, App!setup
    <3>2. /\ \A o \in Output : <<"run", o>> \notin ForGood
          /\ \A i \in Interface : <<"connection", i>> \notin ForGood
          /\ <<"broadcast", "app">> \notin ForGood /\ <<"receive", "app">> \notin ForGood
      BY DEF ForGood
    <3>3. CASE \E o \in Output : App!PoolStarted(o)
      BY <3>2, <3>3, InGoroutine DEF App!PoolStarted, App!End, App!setup
    <3>4. CASE App!BroadcastStops
      BY <3>2, <3>4, InGoroutine DEF App!BroadcastStops, App!Fail, App!setup
    <3>5. CASE \E i \in Interface : App!ConnectionStops(i)
      BY <3>2, <3>5, InGoroutine DEF App!ConnectionStops, App!End, App!setup
    <3>6. CASE App!ReceiveReturns
      BY <3>2, <3>6, InGoroutine DEF App!ReceiveReturns, App!End, App!setup
    <3>7. CASE \E o \in Output : App!ServerFails(o)
      BY <3>2, <3>7, InGoroutine DEF App!ServerFails, App!Fail, App!setup
    <3>8. QED
      BY <1>5, <3>1, <3>3, <3>4, <3>5, <3>6, <3>7 DEF App!Stops
  <2>2. QED
    BY <1>2, <2>1
<1>6. CASE UNCHANGED App!vars
  BY <1>3, <1>6 DEF App!vars
<1>7. QED
  BY <1>4, <1>5, <1>6 DEF App!Next

(***************************************************************************)
(* The process exits by itself only if it logged nothing but messages to   *)
(* pools: the handlers of the other outputs, and Dispatch, range over      *)
(* channels that nobody closes.                                            *)
(***************************************************************************)
ExitsOnlyIdle ==
    phase = "exited" =>
        /\ config.LogCanMessages => Output \subseteq Pool
        /\ signalDispatchers = {}

(***************************************************************************)
(* An application that logs CAN messages to a file or a broker, or decodes *)
(* signals, never exits by itself, and so finalizes no file.               *)
(***************************************************************************)
THEOREM AppExitsOnlyIdle == App!Spec => []ExitsOnlyIdle
<1>1. App!Init => RunsForGood
  <2>1. ForGood \subseteq App!Goroutine
    BY DEF ForGood, App!Goroutine
  <2>2. QED
    BY <2>1 DEF App!Init, RunsForGood
<1>2. WiringInv /\ RunsForGood /\ [App!Next]_(App!vars) => RunsForGood'
  BY ForGoodKept
<1>3. WiringInv /\ RunsForGood => ExitsOnlyIdle
  <2> SUFFICES ASSUME WiringInv, RunsForGood, phase = "exited"
               PROVE  /\ config.LogCanMessages => Output \subseteq Pool
                      /\ signalDispatchers = {}
    BY DEF ExitsOnlyIdle
  <2>1. AddedOutputs = Output
    BY DEF WiringInv, Progress, AddedOutputs
  <2>2. \A o \in Output \ Pool : go[<<"can", o>>] = "absent"
    BY DEF RunsForGood, ForGood
  <2>3. \A i \in Interface : go[<<"dispatch", i>>] = "absent"
    BY DEF RunsForGood, ForGood
  <2>4. signalDispatchers \subseteq Interface
    BY AppAssumption DEF WiringInv, App!TypeOK
  <2>5. QED
    BY <2>1, <2>2, <2>3, <2>4 DEF WiringInv, Wiring, Progress
<1>4. QED
  BY <1>1, <1>2, <1>3, WiringAlways, PTL DEF App!Spec
=============================================================================
