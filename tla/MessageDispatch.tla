-------------------------- MODULE MessageDispatch --------------------------
(***************************************************************************)
(* internal/client/message-dispatch: the connections feed one bounded      *)
(* channel; the Broadcast goroutine takes a message at a time, copies the  *)
(* list of registered listeners under the read lock and offers the message *)
(* to each of them without ever blocking, while other goroutines register  *)
(* and remove listeners and the listeners' handlers drain their channels.  *)
(*                                                                         *)
(* A listener is known by its name, and owns one channel and one filter    *)
(* group for good (an output client's GetChannel); a registration is the   *)
(* registeredListener object one call of Add allocates, so a listener that *)
(* is removed and added again has two, with separate drop counters.        *)
(***************************************************************************)
EXTENDS Naturals, Sequences, FiniteSets

CONSTANTS Conn,              (* interfaces that receive CAN messages         *)
          Listener,          (* listener names                               *)
          NoFilter,          (* the nil filter group                         *)
          Filter,            (* each listener's filter group, or NoFilter    *)
          MessageBufferSize, (* capacity of the incoming and every listener's
                                channel                                      *)
          ReportThroughput,  (* throughputLogInterval > 0                    *)
          MaxSent,           (* bound: messages a connection sends           *)
          MaxRegistered      (* bound: successful calls of Add               *)

(* A filter of a group is the set of the interfaces whose messages it      *)
(* accepts, which is what CanInterfaceFilter tests.                        *)
FilterGroup == [Operator : {"and", "or"}, Filters : Seq(SUBSET Conn)]

ASSUME DispatchAssumption ==
    /\ MessageBufferSize \in Nat \ {0}
    /\ MaxSent \in Nat
    /\ MaxRegistered \in Nat
    /\ ReportThroughput \in BOOLEAN
    /\ DOMAIN Filter = Listener
    /\ \A l \in Listener : Filter[l] = NoFilter \/ Filter[l] \in FilterGroup

Msg == [Interface : Conn, seq : 1..MaxSent]

VARIABLES
    sent,              \* how many messages each connection has sent
    incomingChannel,
    registered,        \* every registeredListener ever allocated
    broadcastChannels, \* the registrations in force, by their index in registered
    pc,                \* the Broadcast goroutine: idle, loop, snapshot, done
    canMsg,            \* the message it took last
    listeners,         \* what is left of its copy of broadcastChannels
    channel,           \* the listeners' channels
    handled,           \* what each listener's handler received
    reporter,          \* the throughput goroutine: off, running, stopped
    cancelled,         \* the context is done
    log,               \* history: the messages the broadcaster took
    span               \* history: see Registration

vars == <<sent, incomingChannel, registered, broadcastChannels, pc, canMsg,
          listeners, channel, handled, reporter, cancelled, log, span>>
registry == <<registered, broadcastChannels, span>>
outside  == <<sent, handled, reporter, cancelled>>

(* History of a registration: the messages it is answerable for are those  *)
(* at positions from + 1 to upto of the log (upto counts once it is        *)
(* removed), and delivered of them went into the channel.                  *)
Registration == [from : Nat, upto : Nat, delivered : Nat]

RegisteredListener == [name : Listener, dropped : Nat]

LoopTypes ==
    /\ sent \in [Conn -> 0..MaxSent]
    /\ incomingChannel \in Seq(Msg)
    /\ Len(incomingChannel) <= MessageBufferSize
    /\ pc \in {"idle", "loop", "snapshot", "done"}
    /\ log \in Seq(Msg)
    /\ log # << >> => canMsg = log[Len(log)]
    /\ pc = "snapshot" => log # << >>
    /\ listeners # << >> => pc = "loop" /\ log # << >>
    /\ reporter \in {"off", "running", "stopped"}
    /\ cancelled \in BOOLEAN

RegistryTypes ==
    /\ registered \in Seq(RegisteredListener)
    /\ broadcastChannels \in Seq(1..Len(registered))
    /\ listeners \in Seq(1..Len(registered))
    /\ span \in Seq(Registration)
    /\ Len(span) = Len(registered)

ChannelTypes ==
    /\ channel \in [Listener -> Seq(Msg)]
    /\ \A l \in Listener : Len(channel[l]) <= MessageBufferSize
    /\ handled \in [Listener -> Seq(Msg)]

TypeOK == LoopTypes /\ RegistryTypes /\ ChannelTypes

NameOf(r) == registered[r].name

IsRegistered(r) == \E i \in 1..Len(broadcastChannels) : broadcastChannels[i] = r

(* The last message whose listeners are already chosen. *)
Horizon == IF pc = "snapshot" THEN Len(log) - 1 ELSE Len(log)

-----------------------------------------------------------------------------
Init ==
    /\ sent = [c \in Conn |-> 0]
    /\ incomingChannel = << >>
    /\ registered = << >>
    /\ broadcastChannels = << >>
    /\ pc = "idle"
    /\ canMsg = << >>
    /\ listeners = << >>
    /\ channel = [l \in Listener |-> << >>]
    /\ handled = [l \in Listener |-> << >>]
    /\ reporter = "off"
    /\ cancelled = FALSE
    /\ log = << >>
    /\ span = << >>

(* A connection's receive loop: a blocking send. *)
Send(c) ==
    /\ sent[c] < MaxSent
    /\ Len(incomingChannel) < MessageBufferSize
    /\ sent' = [sent EXCEPT ![c] = @ + 1]
    /\ incomingChannel' =
           Append(incomingChannel, [Interface |-> c, seq |-> sent[c] + 1])
    /\ UNCHANGED <<registry, pc, canMsg, listeners, channel, handled,
                   reporter, cancelled, log>>

Add(l) ==
    /\ Len(registered) < MaxRegistered
    /\ \A i \in 1..Len(broadcastChannels) : NameOf(broadcastChannels[i]) # l
    /\ registered' = Append(registered, [name |-> l, dropped |-> 0])
    /\ broadcastChannels' = Append(broadcastChannels, Len(registered) + 1)
    /\ span' = Append(span, [from |-> Horizon, upto |-> 0, delivered |-> 0])
    /\ UNCHANGED <<outside, incomingChannel, pc, canMsg, listeners, channel, log>>

(* The list without its element i, as slices.Delete leaves it. *)
Without(s, i) == [j \in 1..(Len(s) - 1) |-> s[IF j < i THEN j ELSE j + 1]]

(* Mutant: the broadcaster iterates over the list itself, not over a copy, *)
(* so deleting an element it has passed shifts the next one out of sight.  *)
RemoveUnderIteration(l) ==
    \E i \in 1..Len(broadcastChannels) :
        /\ NameOf(broadcastChannels[i]) = l
        /\ broadcastChannels' = Without(broadcastChannels, i)
        /\ span' = [span EXCEPT ![broadcastChannels[i]].upto = Horizon]
        /\ listeners' = IF listeners # << >> /\ i + Len(listeners) <= Len(broadcastChannels)
                        THEN Tail(listeners)
                        ELSE listeners
        /\ UNCHANGED <<outside, incomingChannel, registered, pc, canMsg, channel, log>>

Remove(l) ==
    \E i \in 1..Len(broadcastChannels) :
        /\ NameOf(broadcastChannels[i]) = l
        /\ \A j \in 1..(i - 1) : NameOf(broadcastChannels[j]) # l
        /\ broadcastChannels' = Without(broadcastChannels, i)
        /\ span' = [span EXCEPT ![broadcastChannels[i]].upto = Horizon]
        /\ UNCHANGED <<outside, incomingChannel, registered, pc, canMsg,
                       listeners, channel, log>>

(* testFilterGroup, and the nil test before its call. *)
Passes(l, m) ==
    \/ Filter[l] = NoFilter
    \/ /\ Filter[l] # NoFilter
       /\ LET fs == Filter[l].Filters
          IN  IF Filter[l].Operator = "or"
              THEN \E i \in 1..Len(fs) : m.Interface \in fs[i]
              ELSE \A i \in 1..Len(fs) : m.Interface \in fs[i]

(* Broadcast: the reporting goroutine starts, then the loop. *)
Broadcast ==
    /\ pc = "idle"
    /\ pc' = "loop"
    /\ reporter' = IF ReportThroughput THEN "running" ELSE "off"
    /\ UNCHANGED <<registry, sent, incomingChannel, canMsg, listeners, channel,
                   handled, cancelled, log>>

(* select, its ctx.Done() case. *)
Stop ==
    /\ pc = "loop" /\ listeners = << >>
    /\ cancelled
    /\ pc' = "done"
    /\ UNCHANGED <<registry, outside, incomingChannel, canMsg, listeners,
                   channel, log>>

(* select, its incomingChannel case; the log also stands for msgCount. *)
Receive ==
    /\ pc = "loop" /\ listeners = << >>
    /\ incomingChannel # << >>
    /\ canMsg' = Head(incomingChannel)
    /\ incomingChannel' = Tail(incomingChannel)
    /\ log' = Append(log, Head(incomingChannel))
    /\ pc' = "snapshot"
    /\ UNCHANGED <<registry, outside, listeners, channel>>

(* The copy of broadcastChannels, under the read lock. *)
Snapshot ==
    /\ pc = "snapshot"
    /\ listeners' = broadcastChannels
    /\ pc' = "loop"
    /\ UNCHANGED <<registry, outside, incomingChannel, canMsg, channel, log>>

(* One turn of the loop over the copy has one of three outcomes. *)
Skip ==
    /\ listeners # << >>
    /\ ~ Passes(NameOf(Head(listeners)), canMsg)
    /\ listeners' = Tail(listeners)
    /\ UNCHANGED <<registry, outside, incomingChannel, pc, canMsg, channel, log>>

(* Mutant: the message is sent before its filter is asked. *)
DeliverUnfiltered ==
    /\ listeners # << >>
    /\ LET r == Head(listeners)
           l == NameOf(r)
       IN  /\ Len(channel[l]) < MessageBufferSize
           /\ channel' = [channel EXCEPT ![l] = Append(@, canMsg)]
           /\ span' = [span EXCEPT ![r].delivered = @ + 1]
    /\ listeners' = Tail(listeners)
    /\ UNCHANGED <<outside, incomingChannel, registered, broadcastChannels, pc,
                   canMsg, log>>

(* Mutant: a send that takes no notice of the channel's capacity. *)
DeliverOverCapacity ==
    /\ listeners # << >>
    /\ LET r == Head(listeners)
           l == NameOf(r)
       IN  /\ Passes(l, canMsg)
           /\ channel' = [channel EXCEPT ![l] = Append(@, canMsg)]
           /\ span' = [span EXCEPT ![r].delivered = @ + 1]
    /\ listeners' = Tail(listeners)
    /\ UNCHANGED <<outside, incomingChannel, registered, broadcastChannels, pc,
                   canMsg, log>>

Deliver ==
    /\ listeners # << >>
    /\ LET r == Head(listeners)
           l == NameOf(r)
       IN  /\ Passes(l, canMsg)
           /\ Len(channel[l]) < MessageBufferSize
           /\ channel' = [channel EXCEPT ![l] = Append(@, canMsg)]
           /\ span' = [span EXCEPT ![r].delivered = @ + 1]
    /\ listeners' = Tail(listeners)
    /\ UNCHANGED <<outside, incomingChannel, registered, broadcastChannels, pc,
                   canMsg, log>>

(* Mutant: the send has no default case and waits for a full channel. *)
DropNever == FALSE

Drop ==
    /\ listeners # << >>
    /\ LET r == Head(listeners)
           l == NameOf(r)
       IN  /\ Passes(l, canMsg)
           /\ Len(channel[l]) >= MessageBufferSize
           /\ registered' = [registered EXCEPT ![r].dropped = @ + 1]
    /\ listeners' = Tail(listeners)
    /\ UNCHANGED <<outside, incomingChannel, broadcastChannels, pc, canMsg,
                   channel, log, span>>

(* Mutant: the reporting loop has no ctx.Done() case. *)
StopReporterNever == FALSE

(* The throughput goroutine, its ctx.Done() case. *)
StopReporter ==
    /\ reporter = "running"
    /\ cancelled
    /\ reporter' = "stopped"
    /\ UNCHANGED <<registry, sent, incomingChannel, pc, canMsg, listeners,
                   channel, handled, cancelled, log>>

(* A listener's handler takes the next message from its channel. *)
Handle(l) ==
    /\ channel[l] # << >>
    /\ handled' = [handled EXCEPT ![l] = Append(@, Head(channel[l]))]
    /\ channel' = [channel EXCEPT ![l] = Tail(@)]
    /\ UNCHANGED <<registry, sent, incomingChannel, pc, canMsg, listeners,
                   reporter, cancelled, log>>

(* Whoever owns the context cancels it, at any time. *)
Cancel ==
    /\ ~ cancelled
    /\ cancelled' = TRUE
    /\ UNCHANGED <<registry, sent, incomingChannel, pc, canMsg, listeners,
                   channel, handled, reporter, log>>

Offer == Skip \/ Deliver \/ Drop

Next ==
    \/ \E c \in Conn : Send(c)
    \/ \E l \in Listener : Add(l) \/ Remove(l) \/ Handle(l)
    \/ Broadcast \/ Stop \/ Receive \/ Snapshot \/ Offer
    \/ StopReporter
    \/ Cancel

Spec == Init /\ [][Next]_vars

(***************************************************************************)
(* The Go scheduler runs every runnable goroutine.  The select of the      *)
(* broadcast loop picks at random among its ready cases, so a case that is *)
(* ready time and again is taken in the end: strong fairness for Stop.     *)
(* Nothing is assumed of the connections, nor of the listeners' handlers,  *)
(* which may hang.                                                         *)
(***************************************************************************)
Fairness ==
    /\ WF_vars(Broadcast)
    /\ SF_vars(Stop)
    /\ WF_vars(Receive)
    /\ WF_vars(Snapshot)
    /\ WF_vars(Offer)
    /\ WF_vars(StopReporter)

FairSpec == Spec /\ Fairness

-----------------------------------------------------------------------------
(* Refinement: the broadcaster is a lossy fan-out.                         *)

Got == [l \in Listener |-> handled[l] \o channel[l]]

(* The listeners the latest message may still go to: before the snapshot,  *)
(* anyone who is registered in time.                                       *)
Pending == IF pc = "snapshot"
           THEN Listener
           ELSE {NameOf(listeners[i]) : i \in 1..Len(listeners)}

Wanted == [l \in Listener |-> {m \in Msg : Passes(l, m)}]

Abstract == INSTANCE LossyFanout WITH Wants <- Wanted, pending <- Pending, got <- Got

(***************************************************************************)
(* The loop of dispatcher.go does what LossyFanout promises, whatever Add, *)
(* Remove and the handlers do meanwhile: a listener gets the latest        *)
(* message at most once (also when it is removed and added again during    *)
(* the fan-out), and nothing its filter group rejects.                     *)
(***************************************************************************)
ImplementsLossyFanout == Abstract!Spec

(***************************************************************************)
(* What a handler received, then what is in its channel, is a subsequence  *)
(* of the messages taken from incomingChannel, in the same order.          *)
(***************************************************************************)
DeliveredInOrder == Abstract!InOrder

(***************************************************************************)
(* The copy of broadcastChannels holds each name once, so the fan-out of   *)
(* one message offers it to a listener once.                               *)
(***************************************************************************)
DistinctNames(s) ==
    \A i, j \in 1..Len(s) : NameOf(s[i]) = NameOf(s[j]) => i = j

(* The messages registration r is answerable for. *)
LastAnswerable(r) == IF IsRegistered(r) THEN Horizon ELSE span[r].upto

AnswerableFor(r) ==
    {p \in (span[r].from + 1)..LastAnswerable(r) : Passes(NameOf(r), log[p])}

AwaitsOffer(r) == \E i \in 1..Len(listeners) : listeners[i] = r

StillToOffer(r) == IF AwaitsOffer(r) /\ Passes(NameOf(r), canMsg) THEN 1 ELSE 0

(***************************************************************************)
(* No message is lost without being counted, none is counted twice, and    *)
(* none reaches a listener that was removed before the message's snapshot: *)
(* of every registration, what was delivered, what DroppedCount counts and *)
(* what the running fan-out still has to offer add up to the matching      *)
(* messages whose snapshot was taken between its Add and its Remove.       *)
(***************************************************************************)
Accounting ==
    \A r \in 1..Len(registered) :
        span[r].delivered + registered[r].dropped + StillToOffer(r)
            = Cardinality(AnswerableFor(r))

FannedOut(m) ==
    \E p \in 1..Len(log) :
        /\ log[p] = m
        /\ p < Len(log) \/ (pc # "snapshot" /\ listeners = << >>)

(***************************************************************************)
(* A listener whose handler hangs holds nobody up: with no fairness for    *)
(* any handler, every message a connection sends is offered to everyone,   *)
(* unless the context is cancelled (dispatcher_test.go, "full listener     *)
(* channel is skipped without blocking").                                  *)
(***************************************************************************)
SlowListenersHoldNobodyUp ==
    \A c \in Conn, n \in 1..MaxSent :
        sent[c] >= n ~> cancelled \/ FannedOut([Interface |-> c, seq |-> n])

(***************************************************************************)
(* After a cancel the broadcast loop and the reporting goroutine both end, *)
(* also with messages waiting and channels full (dispatcher_test.go, "no   *)
(* goroutine leak").                                                       *)
(***************************************************************************)
CancelEndsBroadcast ==
    cancelled /\ pc # "idle" ~> pc = "done" /\ reporter # "running"
=============================================================================
