--------------------------- MODULE SignalDispatch ---------------------------
(***************************************************************************)
(* internal/client/signal-dispatch with signal-filter and parser/obd2: per *)
(* interface a dispatcher decodes the messages of its channel into signals,*)
(* expands those that list supported PIDs, and offers each signal its      *)
(* filter allows to the outputs.  An output has one signal channel, which  *)
(* all the dispatchers share, and may be registered while they run.        *)
(***************************************************************************)
EXTENDS Naturals, Sequences, FiniteSets

CONSTANTS Dispatcher,        (* the interfaces that have one                 *)
          Output,            (* outputs that take signals                    *)
          Parse,             (* each dispatcher's parser: a function from the
                                frames of its interface to decoded signals   *)
          Group,             (* each dispatcher's filter group               *)
          MessageBufferSize, (* capacity of every channel                    *)
          MaxSent            (* bound: messages sent to a dispatcher         *)

(* The signals that list supported PIDs, with the base of their range. *)
PidsSupported ==
    [S01PID00 |-> 0, S01PID20 |-> 32, S01PID40 |-> 64, S01PID60 |-> 96,
     S01PID80 |-> 128, S01PIDA0 |-> 160, S01PIDC0 |-> 192]

(* A filter group: its operator, its mode, and rules that test the name of  *)
(* the signal or of the message; by its own operator and value a rule       *)
(* matches certain names or, negated, all others.  A name is the text with  *)
(* the PID that ends it in an expanded signal, else 0.                      *)
IsRule(r) == r.Field \in {"signal", "message"} /\ r.Negated \in BOOLEAN

IsFilterGroup(g) ==
    /\ g.Op \in {"and", "or"} /\ g.Mode \in {"include", "exclude"}
    /\ \A i \in 1..Len(g.Rules) : IsRule(g.Rules[i])

Frame(d) == DOMAIN Parse[d]

ASSUME SignalAssumption ==
    /\ MessageBufferSize \in Nat \ {0}
    /\ MaxSent \in Nat
    /\ \A d \in Dispatcher :
          /\ IsFilterGroup(Group[d])
          /\ \A f \in Frame(d) : Len(Parse[d][f]) \in Nat

VARIABLES
    fed,        \* history: the messages sent to each dispatcher
    inChannel,
    closed,     \* inChannel is closed
    done,       \* Dispatch has returned
    msg,        \* how many messages it took
    signals,    \* what is left of its message's decoded signals
    expanded,   \* what is left of the signals the current one stands for
    listeners,  \* the length of its copy of the list, which only grows
    next,       \* the listener of the copy it offers the current signal to
    registered, \* the registered listeners
    channel,    \* the outputs' signal channels
    handled,    \* what each output's handler received
    log,        \* history: the signals each dispatcher offered
    history     \* history: see Registration

vars == <<fed, inChannel, closed, done, msg, signals, expanded, listeners,
          next, registered, channel, handled, log, history>>
input  == <<fed, inChannel, closed>>
loop   == <<done, msg, signals, expanded, listeners, next, log>>
output == <<registered, channel, handled, history>>

(* History of a registration: how long the log was when a copy first held   *)
(* it, and how many signals went into the channel for it.                   *)
Registration == [since : Nat, delivered : Nat]

-----------------------------------------------------------------------------
Matches(r, s) ==
    LET name == IF r.Field = "signal" THEN <<s.Signal, s.pid>> ELSE <<s.Message, 0>>
    IN  (name \in r.Matches) # r.Negated

(* Group.Allow. *)
Allow(g, s) ==
    LET matched == IF g.Op = "or"
                   THEN \E i \in 1..Len(g.Rules) : Matches(g.Rules[i], s)
                   ELSE \A i \in 1..Len(g.Rules) : Matches(g.Rules[i], s)
    IN  g.Rules = << >> \/ matched = (g.Mode = "include")

(* DecodePIDsSupported: bit 31 stands for base + 1, bit 0 for base + 32. *)
Pids(bitmask, base) == {base + i + 1 : i \in {i \in 0..31 : 31 - i \in bitmask}}

(* ExpandPIDsSupported: a listing becomes a signal of value 1 per PID. *)
Expanded(s) ==
    IF s.Signal \in DOMAIN PidsSupported
    THEN {[s EXCEPT !.Signal = "S01PID_Supported", !.pid = p, !.Value = {0}] :
             p \in Pids(s.Value, PidsSupported[s.Signal])}
    ELSE {s}

(* The signals of the n-th message of d, if it holds frame f. *)
Signals(d, n, f) ==
    [i \in 1..Len(Parse[d][f]) |->
        [Interface |-> d, Timestamp |-> n, part |-> i,
         Message |-> Parse[d][f][i].Message, Signal |-> Parse[d][f][i].Signal,
         pid |-> 0, Value |-> Parse[d][f][i].Value]]

Raw == UNION {UNION {{Signals(d, n, f)[i] : i \in 1..Len(Parse[d][f])} :
                        n \in 1..MaxSent, f \in Frame(d)} :
                 d \in Dispatcher}

Signal == UNION {Expanded(s) : s \in Raw}

Allowed == {s \in Signal : Allow(Group[s.Interface], s)}

By(d, ss) == {s \in ss : s.Interface = d}

TypeOK ==
    /\ fed \in [Dispatcher -> Seq(UNION {Frame(d) : d \in Dispatcher})]
    /\ inChannel \in [Dispatcher -> Seq(UNION {Frame(d) : d \in Dispatcher})]
    /\ signals \in [Dispatcher -> Seq(Raw)]
    /\ expanded \in [Dispatcher -> SUBSET Signal]
    /\ log \in [Dispatcher -> Seq(Signal)]
    /\ \A d \in Dispatcher :
          /\ fed[d] \in Seq(Frame(d))
          /\ Len(fed[d]) <= MaxSent
          /\ inChannel[d] \in Seq(Frame(d))
          /\ Len(inChannel[d]) <= MessageBufferSize
          /\ msg[d] + Len(inChannel[d]) = Len(fed[d])
          /\ Len(registered[d]) = Len(history[d])
          /\ listeners[d] <= Len(registered[d])
          /\ next[d] <= listeners[d] => log[d] # << >>
          /\ signals[d] \in Seq(By(d, Raw))
          /\ expanded[d] \subseteq By(d, Signal)
          /\ log[d] \in Seq(By(d, Signal))
    /\ closed \in [Dispatcher -> BOOLEAN]
    /\ done \in [Dispatcher -> BOOLEAN]
    /\ msg \in [Dispatcher -> 0..MaxSent]
    /\ listeners \in [Dispatcher -> Nat]
    /\ next \in [Dispatcher -> Nat \ {0}]
    /\ registered \in [Dispatcher -> Seq([name : Output, dropped : Nat])]
    /\ channel \in [Output -> Seq(Signal)]
    /\ \A o \in Output : Len(channel[o]) <= MessageBufferSize
    /\ handled \in [Output -> Seq(Signal)]
    /\ history \in [Dispatcher -> Seq(Registration)]

-----------------------------------------------------------------------------
Init ==
    /\ fed = [d \in Dispatcher |-> << >>]
    /\ inChannel = [d \in Dispatcher |-> << >>]
    /\ closed = [d \in Dispatcher |-> FALSE]
    /\ done = [d \in Dispatcher |-> FALSE]
    /\ msg = [d \in Dispatcher |-> 0]
    /\ signals = [d \in Dispatcher |-> << >>]
    /\ expanded = [d \in Dispatcher |-> {}]
    /\ listeners = [d \in Dispatcher |-> 0]
    /\ next = [d \in Dispatcher |-> 1]
    /\ registered = [d \in Dispatcher |-> << >>]
    /\ channel = [o \in Output |-> << >>]
    /\ handled = [o \in Output |-> << >>]
    /\ log = [d \in Dispatcher |-> << >>]
    /\ history = [d \in Dispatcher |-> << >>]

(* The message dispatcher's send that finds room, or a test's. *)
Feed(d) ==
    \E f \in Frame(d) :
        /\ ~ closed[d]
        /\ Len(fed[d]) < MaxSent
        /\ Len(inChannel[d]) < MessageBufferSize
        /\ fed' = [fed EXCEPT ![d] = Append(@, f)]
        /\ inChannel' = [inChannel EXCEPT ![d] = Append(@, f)]
        /\ UNCHANGED <<closed, loop, output>>

(* The tests close the channel; the application does not. *)
CloseInput(d) ==
    /\ ~ closed[d]
    /\ closed' = [closed EXCEPT ![d] = TRUE]
    /\ UNCHANGED <<fed, inChannel, loop, output>>

IsListener(d, o) == \E r \in 1..Len(registered[d]) : registered[d][r].name = o

(* AddOutput (app.go) adds one output after the other, each to every        *)
(* dispatcher.                                                              *)
AddListener(d, o) ==
    /\ ~ IsListener(d, o)
    /\ \A p \in Output \ {o}, e \in Dispatcher :
          IsListener(e, p) => \A c \in Dispatcher : IsListener(c, p)
    /\ registered' = [registered EXCEPT ![d] = Append(@, [name |-> o, dropped |-> 0])]
    /\ history' = [history EXCEPT ![d] = Append(@, [since |-> 0, delivered |-> 0])]
    /\ UNCHANGED <<input, loop, channel, handled>>

(* Between two messages, signals and offers there is nothing left over.     *)
Offered(d) == next[d] > listeners[d]

Idle(d) == ~ done[d] /\ Offered(d) /\ expanded[d] = {} /\ signals[d] = << >>

Receive(d) ==
    /\ Idle(d)
    /\ inChannel[d] # << >>
    /\ inChannel' = [inChannel EXCEPT ![d] = Tail(@)]
    /\ msg' = [msg EXCEPT ![d] = @ + 1]
    /\ signals' = [signals EXCEPT ![d] = Signals(d, msg[d] + 1, Head(inChannel[d]))]
    /\ UNCHANGED <<fed, closed, done, expanded, listeners, next, log, output>>

(* Mutant: the loop ends with what is left in the channel. *)
EndAtClose(d) ==
    /\ Idle(d)
    /\ closed[d]
    /\ done' = [done EXCEPT ![d] = TRUE]
    /\ UNCHANGED <<input, msg, signals, expanded, listeners, next, log, output>>

(* range over a closed channel ends when it is empty. *)
End(d) ==
    /\ Idle(d)
    /\ closed[d] /\ inChannel[d] = << >>
    /\ done' = [done EXCEPT ![d] = TRUE]
    /\ UNCHANGED <<input, msg, signals, expanded, listeners, next, log, output>>

(* The next decoded signal: it is expanded, and the list is copied. *)
Snapshot(d) ==
    /\ Offered(d) /\ expanded[d] = {}
    /\ signals[d] # << >>
    /\ signals' = [signals EXCEPT ![d] = Tail(@)]
    /\ expanded' = [expanded EXCEPT ![d] = Expanded(Head(signals[d]))]
    /\ listeners' = [listeners EXCEPT ![d] = Len(registered[d])]
    /\ next' = [next EXCEPT ![d] = Len(registered[d]) + 1]
    /\ history' = [history EXCEPT ![d] =
                      [r \in 1..Len(@) |-> IF r > listeners[d]
                                           THEN [@[r] EXCEPT !.since = Len(log[d])]
                                           ELSE @[r]]]
    /\ UNCHANGED <<input, done, msg, log, registered, channel, handled>>

(* The next signal of the expansion, in the order of the PIDs. *)
IsNext(d, s) ==
    /\ Offered(d)
    /\ s \in expanded[d]
    /\ \A t \in expanded[d] : s.pid <= t.pid

(* Mutant: break in place of continue. *)
RejectRest(d) ==
    \E s \in expanded[d] :
        /\ IsNext(d, s)
        /\ ~ Allow(Group[d], s)
        /\ expanded' = [expanded EXCEPT ![d] = {}]
        /\ UNCHANGED <<input, done, msg, signals, listeners, next, log, output>>

Reject(d) ==
    \E s \in expanded[d] :
        /\ IsNext(d, s)
        /\ ~ Allow(Group[d], s)
        /\ expanded' = [expanded EXCEPT ![d] = @ \ {s}]
        /\ UNCHANGED <<input, done, msg, signals, listeners, next, log, output>>

Forward(d) ==
    \E s \in expanded[d] :
        /\ IsNext(d, s)
        /\ Allow(Group[d], s)
        /\ expanded' = [expanded EXCEPT ![d] = @ \ {s}]
        /\ log' = [log EXCEPT ![d] = Append(@, s)]
        /\ next' = [next EXCEPT ![d] = 1]
        /\ UNCHANGED <<input, done, msg, signals, listeners, output>>

Current(d) == log[d][Len(log[d])]

(* Mutant: the send is tried again after it succeeded. *)
DeliverAgain(d) ==
    /\ next[d] <= listeners[d]
    /\ LET o == registered[d][next[d]].name
       IN  /\ Len(channel[o]) < MessageBufferSize
           /\ channel' = [channel EXCEPT ![o] = Append(@, Current(d))]
    /\ history' = [history EXCEPT ![d][next[d]].delivered = @ + 1]
    /\ UNCHANGED <<input, loop, registered, handled>>

(* One turn of the loop over the copy: the send finds room ... *)
Deliver(d) ==
    /\ next[d] <= listeners[d]
    /\ LET o == registered[d][next[d]].name
       IN  /\ Len(channel[o]) < MessageBufferSize
           /\ channel' = [channel EXCEPT ![o] = Append(@, Current(d))]
    /\ history' = [history EXCEPT ![d][next[d]].delivered = @ + 1]
    /\ next' = [next EXCEPT ![d] = @ + 1]
    /\ UNCHANGED <<input, done, msg, signals, expanded, listeners, log,
                   registered, handled>>

(* Mutant: a full channel ends the offers of the signal. *)
DropRest(d) ==
    /\ next[d] <= listeners[d]
    /\ Len(channel[registered[d][next[d]].name]) >= MessageBufferSize
    /\ registered' = [registered EXCEPT ![d][next[d]].dropped = @ + 1]
    /\ next' = [next EXCEPT ![d] = listeners[d] + 1]
    /\ UNCHANGED <<input, done, msg, signals, expanded, listeners, log,
                   channel, handled, history>>

(* ... or it does not, and the signal is dropped for this listener. *)
Drop(d) ==
    /\ next[d] <= listeners[d]
    /\ Len(channel[registered[d][next[d]].name]) >= MessageBufferSize
    /\ registered' = [registered EXCEPT ![d][next[d]].dropped = @ + 1]
    /\ next' = [next EXCEPT ![d] = @ + 1]
    /\ UNCHANGED <<input, done, msg, signals, expanded, listeners, log,
                   channel, handled, history>>

(* An output's handler takes the next signal. *)
Handle(o) ==
    /\ channel[o] # << >>
    /\ handled' = [handled EXCEPT ![o] = Append(@, Head(channel[o]))]
    /\ channel' = [channel EXCEPT ![o] = Tail(@)]
    /\ UNCHANGED <<input, loop, registered, history>>

Step(d) ==
    \/ Receive(d) \/ End(d)
    \/ Snapshot(d) \/ Reject(d) \/ Forward(d) \/ Deliver(d) \/ Drop(d)

Next ==
    \/ \E d \in Dispatcher : Feed(d) \/ CloseInput(d) \/ Step(d)
    \/ \E d \in Dispatcher, o \in Output : AddListener(d, o)
    \/ \E o \in Output : Handle(o)

Spec == Init /\ [][Next]_vars

(* Every dispatcher's goroutine runs; the handlers may hang. *)
FairSpec == Spec /\ \A d \in Dispatcher : WF_vars(Step(d))

-----------------------------------------------------------------------------
(***************************************************************************)
(* Every registration's deliveries, drops (DroppedCount) and offer still   *)
(* to come add up to the signals forwarded since a copy first held it; one *)
(* that no copy has held yet was given nothing.                            *)
(***************************************************************************)
Accounting ==
    \A d \in Dispatcher : \A r \in 1..Len(registered[d]) :
        history[d][r].delivered + registered[d][r].dropped
            = IF r > listeners[d]
              THEN 0
              ELSE Len(log[d]) - history[d][r].since - (IF next[d] <= r THEN 1 ELSE 0)

(* The signals that the first n messages of d stand for. *)
Expected(d, n) ==
    UNION {UNION {Expanded(Signals(d, m, fed[d][m])[i]) : i \in 1..Len(Parse[d][fed[d][m]])} :
              m \in 1..n}

Before(s, t) ==
    \/ s.Timestamp < t.Timestamp
    \/ s.Timestamp = t.Timestamp /\ s.part < t.part
    \/ s.Timestamp = t.Timestamp /\ s.part = t.part /\ s.pid < t.pid

(***************************************************************************)
(* Between two messages a dispatcher has forwarded exactly the allowed     *)
(* signals of all it took, no listing of PIDs among them, and always in    *)
(* order of message, signal and PID, each once.                            *)
(***************************************************************************)
ForwardsWhatItDecodes ==
    \A d \in Dispatcher :
        /\ \A i, j \in 1..Len(log[d]) : i < j => Before(log[d][i], log[d][j])
        /\ Offered(d) /\ expanded[d] = {} /\ signals[d] = << >> =>
              {log[d][i] : i \in 1..Len(log[d])}
                  = {s \in Expected(d, msg[d]) : Allow(Group[d], s)}
        /\ \A i \in 1..Len(log[d]) : log[d][i].Signal \notin DOMAIN PidsSupported

-----------------------------------------------------------------------------
(* Refinement: each dispatcher is a lossy fan-out of its own signals, over   *)
(* channels it shares with the others.                                       *)

(* The signals of d in s, in order: the k-th is where the count reaches k. *)
Places(d, s) == {i \in 1..Len(s) : s[i].Interface = d}

Nth(d, s, k) ==
    CHOOSE x \in {s[i] : i \in {i \in Places(d, s) :
                                   Cardinality(Places(d, s) \cap 1..i) = k}} : TRUE

Of(d, s) == [k \in 1..Cardinality(Places(d, s)) |-> Nth(d, s, k)]

Pending(d) == {registered[d][r].name : r \in next[d]..listeners[d]}

Fanout(d) == INSTANCE LossyFanout WITH
                 Listener <- Output, Msg <- By(d, Signal), log <- log[d],
                 Wants <- [o \in Output |-> By(d, Allowed)],
                 pending <- Pending(d),
                 got <- [o \in Output |-> Of(d, handled[o] \o channel[o])]

(***************************************************************************)
(* Whatever the other dispatchers put into the same channels, an output    *)
(* gets of each dispatcher's signals some, in order, each at most once,    *)
(* and none that its filter rejects.                                       *)
(***************************************************************************)
ImplementsLossyFanout ==
    /\ \A d \in Dispatcher : Fanout(d)!Init
    /\ [][\A d \in Dispatcher : [Fanout(d)!Next]_(Fanout(d)!vars)]_vars

(***************************************************************************)
(* Dispatch ends once its channel is closed, with every message decoded    *)
(* and offered, also if no handler takes a signal (dispatcher_test.go,     *)
(* TestDispatch_DropsWhenListenerFull).                                    *)
(***************************************************************************)
CloseDrains ==
    \A d \in Dispatcher :
        closed[d] ~> done[d] /\ msg[d] = Len(fed[d]) /\ Offered(d)
=============================================================================
