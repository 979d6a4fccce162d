------------------------ MODULE SignalDispatch_proofs ------------------------
(***************************************************************************)
(* Theorems about the signal dispatchers, for any number of them and of    *)
(* outputs, any parsers and filters, and channels of any capacity: the     *)
(* types, the accounting of every registration, what is forwarded of what  *)
(* is decoded, and the refinement of the lossy fan-out.                    *)
(***************************************************************************)
EXTENDS SignalDispatch, FiniteSetTheorems, SequenceTheorems, TLAPS

-----------------------------------------------------------------------------
(* Sequences.                                                              *)

LEMMA FunctionIsSeq ==
    ASSUME NEW S, NEW n \in Nat, NEW f, DOMAIN f = 1..n, \A i \in 1..n : f[i] \in S,
           f = [i \in 1..n |-> f[i]]
    PROVE  f \in Seq(S) /\ Len(f) = n
OBVIOUS

LEMMA Added ==
    ASSUME NEW S, NEW s \in Seq(S), NEW x \in S
    PROVE  /\ Append(s, x) \in Seq(S)
           /\ Len(Append(s, x)) = Len(s) + 1
           /\ \A i \in 1..Len(s) : Append(s, x)[i] = s[i]
           /\ Append(s, x)[Len(s) + 1] = x
OBVIOUS

LEMMA Rest ==
    ASSUME NEW S, NEW s \in Seq(S), s # << >>
    PROVE  /\ Len(s) \in Nat \ {0} /\ Head(s) = s[1] /\ s[1] \in S
           /\ Tail(s) \in Seq(S) /\ Len(Tail(s)) = Len(s) - 1
           /\ \A i \in 1..Len(Tail(s)) : Tail(s)[i] = s[i + 1]
OBVIOUS

LEMMA ReplaceType ==
    ASSUME NEW S, NEW s \in Seq(S), NEW i \in 1..Len(s), NEW x \in S
    PROVE  /\ [s EXCEPT ![i] = x] \in Seq(S)
           /\ Len([s EXCEPT ![i] = x]) = Len(s)
OBVIOUS

LEMMA Bounds ==
    /\ MessageBufferSize \in Nat \ {0} /\ MaxSent \in Nat
    /\ \A d \in Dispatcher : \A f \in Frame(d) : Len(Parse[d][f]) \in Nat
BY SignalAssumption

-----------------------------------------------------------------------------
(* What a message stands for.                                              *)

LEMMA SignalsAre ==
    ASSUME NEW d \in Dispatcher, NEW n \in 1..MaxSent, NEW f \in Frame(d)
    PROVE  /\ Signals(d, n, f) \in Seq(Raw)
           /\ Signals(d, n, f) \in Seq(By(d, Raw))
           /\ Len(Signals(d, n, f)) = Len(Parse[d][f]) /\ Len(Parse[d][f]) \in Nat
           /\ \A i \in 1..Len(Parse[d][f]) :
                /\ Signals(d, n, f)[i].Interface = d /\ Signals(d, n, f)[i].Timestamp = n
                /\ Signals(d, n, f)[i].part = i
<1> DEFINE k == Len(Parse[d][f])
<1>1. k \in Nat
  BY Bounds
<1>2. ASSUME NEW i \in 1..k
      PROVE  /\ Signals(d, n, f)[i].Interface = d /\ Signals(d, n, f)[i].Timestamp = n
             /\ Signals(d, n, f)[i].part = i
  BY <1>2 DEF Signals
<1>3. ASSUME NEW i \in 1..k
      PROVE  Signals(d, n, f)[i] \in Raw
  <2> DEFINE X(e) == UNION {{Signals(e, m, g)[j] : j \in 1..Len(Parse[e][g])} :
                              m \in 1..MaxSent, g \in Frame(e)}
         Y(m, g) == {Signals(d, m, g)[j] : j \in 1..Len(Parse[d][g])}
  <2>1. Signals(d, n, f)[i] \in Y(n, f)
    BY <1>3
  <2>2. Signals(d, n, f)[i] \in X(d)
    <3>1. X(d) = UNION {Y(m, g) : m \in 1..MaxSent, g \in Frame(d)}
      OBVIOUS
    <3>2. n \in 1..MaxSent /\ f \in Frame(d)
      OBVIOUS
    <3> HIDE DEF X, Y
    <3>3. Y(n, f) \in {Y(m, g) : m \in 1..MaxSent, g \in Frame(d)}
      BY <3>2
    <3>4. QED
      BY <2>1, <3>1, <3>3
  <2>3. Raw = UNION {X(e) : e \in Dispatcher}
    BY DEF Raw
  <2> HIDE DEF X
  <2>4. QED
    BY <2>2, <2>3
<1>4. ASSUME NEW i \in 1..k
      PROVE  Signals(d, n, f)[i] \in By(d, Raw)
  BY <1>2, <1>3, <1>4 DEF By
<1>5. DOMAIN Signals(d, n, f) = 1..k /\ Signals(d, n, f) = [i \in 1..k |-> Signals(d, n, f)[i]]
  BY DEF Signals
<1> HIDE DEF k
<1>6. Signals(d, n, f) \in Seq(Raw) /\ Len(Signals(d, n, f)) = k
  BY <1>1, <1>3, <1>5, FunctionIsSeq
<1>7. Signals(d, n, f) \in Seq(By(d, Raw))
  BY <1>1, <1>4, <1>5, FunctionIsSeq
<1>8. QED
  BY <1>1, <1>2, <1>6, <1>7 DEF k

(* A decoded signal, field by field. *)
LEMMA RawIs ==
    ASSUME NEW s \in Raw
    PROVE  /\ s.Interface \in Dispatcher /\ s.Timestamp \in Nat /\ s.part \in Nat /\ s.pid = 0
           /\ DOMAIN s = {"Interface", "Timestamp", "part", "Message", "Signal", "pid", "Value"}
           /\ s = [x \in DOMAIN s |-> s[x]]
<1>1. PICK d \in Dispatcher, n \in 1..MaxSent :
        \E f \in Frame(d) : \E i \in 1..Len(Parse[d][f]) : s = Signals(d, n, f)[i]
  BY DEF Raw
<1> PICK f \in Frame(d) : \E i \in 1..Len(Parse[d][f]) : s = Signals(d, n, f)[i]
  BY <1>1
<1> PICK i \in 1..Len(Parse[d][f]) : s = Signals(d, n, f)[i]
  OBVIOUS
<1>2. n \in Nat /\ i \in Nat
  BY Bounds
<1>3. s = [Interface |-> d, Timestamp |-> n, part |-> i,
           Message |-> Parse[d][f][i].Message, Signal |-> Parse[d][f][i].Signal,
           pid |-> 0, Value |-> Parse[d][f][i].Value]
  BY DEF Signals
<1>4. QED
  BY <1>2, <1>3

LEMMA Listings ==
    /\ "S01PID_Supported" \notin DOMAIN PidsSupported
    /\ \A name \in DOMAIN PidsSupported : PidsSupported[name] \in Nat
BY DEF PidsSupported

(* What a decoded signal expands to keeps its interface, message and place. *)
LEMMA ExpandedAre ==
    ASSUME NEW s \in Raw, NEW t \in Expanded(s)
    PROVE  /\ t \in Signal
           /\ t.Interface = s.Interface /\ t.Timestamp = s.Timestamp /\ t.part = s.part
           /\ t.pid \in Nat
           /\ t.Signal \notin DOMAIN PidsSupported
<1>1. t \in Signal
  BY DEF Signal
<1>2. CASE s.Signal \in DOMAIN PidsSupported
  <2>1. PICK p \in Pids(s.Value, PidsSupported[s.Signal]) :
          t = [s EXCEPT !.Signal = "S01PID_Supported", !.pid = p, !.Value = {0}]
    BY <1>2 DEF Expanded
  <2>2. p \in Nat
    BY <1>2, Listings DEF Pids
  <2>3. /\ t.Interface = s.Interface /\ t.Timestamp = s.Timestamp /\ t.part = s.part
        /\ t.pid = p /\ t.Signal = "S01PID_Supported"
    BY <2>1, RawIs
  <2>4. QED
    BY <1>1, <2>2, <2>3, Listings
<1>3. CASE s.Signal \notin DOMAIN PidsSupported
  BY <1>1, <1>3, RawIs DEF Expanded
<1>4. QED
  BY <1>2, <1>3

(* The PID tells the signals of one expansion apart. *)
LEMMA ExpandedApart ==
    ASSUME NEW s \in Raw, NEW t \in Expanded(s), NEW u \in Expanded(s), t.pid = u.pid
    PROVE  t = u
<1>1. CASE s.Signal \in DOMAIN PidsSupported
  <2>1. PICK p \in Pids(s.Value, PidsSupported[s.Signal]) :
          t = [s EXCEPT !.Signal = "S01PID_Supported", !.pid = p, !.Value = {0}]
    BY <1>1 DEF Expanded
  <2>2. PICK q \in Pids(s.Value, PidsSupported[s.Signal]) :
          u = [s EXCEPT !.Signal = "S01PID_Supported", !.pid = q, !.Value = {0}]
    BY <1>1 DEF Expanded
  <2>3. t.pid = p /\ u.pid = q
    BY <2>1, <2>2, RawIs
  <2>4. QED
    BY <2>1, <2>2, <2>3
<1>2. CASE s.Signal \notin DOMAIN PidsSupported
  BY <1>2 DEF Expanded
<1>3. QED
  BY <1>1, <1>2

-----------------------------------------------------------------------------
(* The types, part by part.                                                *)

AnyFrame == UNION {Frame(d) : d \in Dispatcher}

InputTyped ==
    /\ fed \in [Dispatcher -> Seq(AnyFrame)]
    /\ inChannel \in [Dispatcher -> Seq(AnyFrame)]
    /\ closed \in [Dispatcher -> BOOLEAN]
    /\ msg \in [Dispatcher -> 0..MaxSent]
    /\ \A d \in Dispatcher :
          /\ fed[d] \in Seq(Frame(d)) /\ inChannel[d] \in Seq(Frame(d))
          /\ Len(fed[d]) <= MaxSent /\ Len(inChannel[d]) <= MessageBufferSize
          /\ msg[d] + Len(inChannel[d]) = Len(fed[d])

LoopTyped ==
    /\ signals \in [Dispatcher -> Seq(Raw)]
    /\ expanded \in [Dispatcher -> SUBSET Signal]
    /\ log \in [Dispatcher -> Seq(Signal)]
    /\ done \in [Dispatcher -> BOOLEAN]
    /\ listeners \in [Dispatcher -> Nat]
    /\ next \in [Dispatcher -> Nat \ {0}]
    /\ \A d \in Dispatcher :
          /\ signals[d] \in Seq(By(d, Raw))
          /\ expanded[d] \subseteq By(d, Signal)
          /\ log[d] \in Seq(By(d, Signal))
          /\ next[d] <= listeners[d] => log[d] # << >>

Registered == [name : Output, dropped : Nat]

RegistryTyped ==
    /\ registered \in [Dispatcher -> Seq(Registered)]
    /\ history \in [Dispatcher -> Seq(Registration)]
    /\ \A d \in Dispatcher :
          Len(registered[d]) = Len(history[d]) /\ listeners[d] <= Len(registered[d])

ChannelTyped ==
    /\ channel \in [Output -> Seq(Signal)]
    /\ \A o \in Output : Len(channel[o]) <= MessageBufferSize
    /\ handled \in [Output -> Seq(Signal)]

LEMMA TypeParts ==
    /\ TypeOK <=> InputTyped /\ LoopTyped /\ RegistryTyped /\ ChannelTyped
    /\ TypeOK' <=> InputTyped' /\ LoopTyped' /\ RegistryTyped' /\ ChannelTyped'
BY DEF TypeOK, InputTyped, LoopTyped, RegistryTyped, ChannelTyped, AnyFrame, Registered

LEMMA InitTyped ==
    ASSUME Init
    PROVE  TypeOK
<1>1. /\ \A S : << >> \in Seq(S)
      /\ Len(<< >>) = 0 /\ 0 \in 0..MaxSent /\ MessageBufferSize >= 0 /\ MaxSent >= 0
  BY Bounds
<1>2. InputTyped
  BY <1>1 DEF Init, InputTyped
<1>3. LoopTyped
  BY <1>1 DEF Init, LoopTyped
<1>4. RegistryTyped /\ ChannelTyped
  BY <1>1 DEF Init, RegistryTyped, ChannelTyped
<1>5. QED
  BY <1>2, <1>3, <1>4, TypeParts

(* What the actions leave alone. *)
Others ==
    \/ \E d \in Dispatcher, o \in Output : AddListener(d, o)
    \/ \E o \in Output : Handle(o)
    \/ UNCHANGED vars

LEMMA InputKept ==
    ASSUME TypeOK, [Next]_vars
    PROVE  InputTyped'
<1>1. InputTyped /\ LoopTyped
  BY TypeParts
<1>2. CASE UNCHANGED <<fed, inChannel, closed, msg>>
  BY <1>1, <1>2 DEF InputTyped
<1>3. ASSUME NEW d \in Dispatcher, Feed(d)
      PROVE  InputTyped'
  <2>1. PICK f \in Frame(d) :
          /\ Len(fed[d]) < MaxSent /\ Len(inChannel[d]) < MessageBufferSize
          /\ fed' = [fed EXCEPT ![d] = Append(@, f)]
          /\ inChannel' = [inChannel EXCEPT ![d] = Append(@, f)]
          /\ closed' = closed /\ msg' = msg
    BY <1>3 DEF Feed, loop
  <2>2. f \in AnyFrame
    BY DEF AnyFrame
  <2>3. /\ Append(fed[d], f) \in Seq(AnyFrame) /\ Append(inChannel[d], f) \in Seq(AnyFrame)
        /\ Append(fed[d], f) \in Seq(Frame(d)) /\ Append(inChannel[d], f) \in Seq(Frame(d))
        /\ Len(Append(fed[d], f)) = Len(fed[d]) + 1
        /\ Len(Append(inChannel[d], f)) = Len(inChannel[d]) + 1
        /\ Len(fed[d]) \in Nat /\ Len(inChannel[d]) \in Nat /\ msg[d] \in Nat
    BY <1>1, <2>2 DEF InputTyped
  <2>4. ASSUME NEW e \in Dispatcher
        PROVE  /\ fed'[e] = IF e = d THEN Append(fed[d], f) ELSE fed[e]
               /\ inChannel'[e] = IF e = d THEN Append(inChannel[d], f) ELSE inChannel[e]
    BY <1>1, <2>1, <2>4 DEF InputTyped
  <2>5. fed' \in [Dispatcher -> Seq(AnyFrame)] /\ inChannel' \in [Dispatcher -> Seq(AnyFrame)]
    BY <1>1, <2>1, <2>3 DEF InputTyped
  <2>6. QED
    BY <1>1, <2>1, <2>3, <2>4, <2>5, Bounds DEF InputTyped
<1>4. ASSUME NEW d \in Dispatcher, CloseInput(d)
      PROVE  InputTyped'
  BY <1>1, <1>4 DEF CloseInput, loop, InputTyped
<1>5. ASSUME NEW d \in Dispatcher, Receive(d)
      PROVE  InputTyped'
  <2>1. /\ inChannel[d] # << >>
        /\ inChannel' = [inChannel EXCEPT ![d] = Tail(@)]
        /\ msg' = [msg EXCEPT ![d] = @ + 1]
        /\ closed' = closed /\ fed' = fed
    BY <1>5 DEF Receive
  <2>2. inChannel[d] \in Seq(AnyFrame) /\ inChannel[d] \in Seq(Frame(d))
        /\ msg[d] \in Nat /\ Len(fed[d]) \in Nat /\ Len(fed[d]) <= MaxSent
        /\ msg[d] + Len(inChannel[d]) = Len(fed[d])
        /\ Len(inChannel[d]) <= MessageBufferSize
    BY <1>1 DEF InputTyped
  <2>3. Tail(inChannel[d]) \in Seq(AnyFrame) /\ Tail(inChannel[d]) \in Seq(Frame(d))
        /\ Len(Tail(inChannel[d])) = Len(inChannel[d]) - 1 /\ Len(inChannel[d]) \in Nat \ {0}
    BY <2>1, <2>2, Rest
  <2>4. msg[d] + 1 \in 0..MaxSent /\ (msg[d] + 1) + Len(Tail(inChannel[d])) = Len(fed[d])
        /\ Len(Tail(inChannel[d])) <= MessageBufferSize
    BY <2>2, <2>3, Bounds
  <2>5. ASSUME NEW e \in Dispatcher
        PROVE  /\ inChannel'[e] = IF e = d THEN Tail(inChannel[d]) ELSE inChannel[e]
               /\ msg'[e] = IF e = d THEN msg[d] + 1 ELSE msg[e]
    BY <1>1, <2>1, <2>5 DEF InputTyped
  <2>6. inChannel' \in [Dispatcher -> Seq(AnyFrame)] /\ msg' \in [Dispatcher -> 0..MaxSent]
    BY <1>1, <2>1, <2>3, <2>4 DEF InputTyped
  <2>7. QED
    BY <1>1, <2>1, <2>3, <2>4, <2>5, <2>6 DEF InputTyped
<1>6. ASSUME NEW d \in Dispatcher,
             End(d) \/ Snapshot(d) \/ Reject(d) \/ Forward(d) \/ Deliver(d) \/ Drop(d)
      PROVE  UNCHANGED <<fed, inChannel, closed, msg>>
  BY <1>6 DEF End, Snapshot, Reject, Forward, Deliver, Drop, input
<1>7. CASE Others
  BY <1>2, <1>7 DEF Others, AddListener, Handle, input, loop, vars
<1>8. QED
  BY <1>2, <1>3, <1>4, <1>5, <1>6, <1>7 DEF Next, Step, Others

LEMMA LoopKept ==
    ASSUME TypeOK, [Next]_vars
    PROVE  LoopTyped'
<1>1. InputTyped /\ LoopTyped
  BY TypeParts
<1>2. CASE UNCHANGED loop \/ UNCHANGED <<signals, expanded, log, done, listeners, next>>
  BY <1>1, <1>2 DEF LoopTyped, loop
<1>3. ASSUME NEW d \in Dispatcher, Feed(d) \/ CloseInput(d)
      PROVE  UNCHANGED loop
  BY <1>3 DEF Feed, CloseInput
<1>4. CASE Others
  BY <1>2, <1>4 DEF Others, AddListener, Handle, loop, vars
<1>5. ASSUME NEW d \in Dispatcher, Receive(d)
      PROVE  LoopTyped'
  <2>1. /\ inChannel[d] # << >>
        /\ signals' = [signals EXCEPT ![d] = Signals(d, msg[d] + 1, Head(inChannel[d]))]
        /\ UNCHANGED <<expanded, log, done, listeners, next>>
    BY <1>5 DEF Receive
  <2>2. Head(inChannel[d]) \in Frame(d) /\ msg[d] + 1 \in 1..MaxSent
    <3>1. inChannel[d] \in Seq(Frame(d)) /\ msg[d] \in Nat /\ Len(fed[d]) <= MaxSent
          /\ msg[d] + Len(inChannel[d]) = Len(fed[d]) /\ MaxSent \in Nat
      BY <1>1, Bounds DEF InputTyped
    <3>2. Len(inChannel[d]) \in Nat \ {0} /\ Head(inChannel[d]) \in Frame(d)
      BY <2>1, <3>1, Rest
    <3>3. QED
      BY <3>1, <3>2
  <2>3. /\ Signals(d, msg[d] + 1, Head(inChannel[d])) \in Seq(Raw)
        /\ Signals(d, msg[d] + 1, Head(inChannel[d])) \in Seq(By(d, Raw))
    BY <2>2, SignalsAre
  <2>4. signals' \in [Dispatcher -> Seq(Raw)]
    BY <1>1, <2>1, <2>3 DEF LoopTyped
  <2>5. \A e \in Dispatcher : signals'[e] \in Seq(By(e, Raw))
    BY <1>1, <2>1, <2>3 DEF LoopTyped
  <2>6. QED
    BY <1>1, <2>1, <2>4, <2>5 DEF LoopTyped
<1>6. ASSUME NEW d \in Dispatcher, End(d)
      PROVE  LoopTyped'
  BY <1>1, <1>6 DEF End, LoopTyped
<1>7. ASSUME NEW d \in Dispatcher, Snapshot(d)
      PROVE  LoopTyped'
  <2>1. /\ signals[d] # << >>
        /\ signals' = [signals EXCEPT ![d] = Tail(@)]
        /\ expanded' = [expanded EXCEPT ![d] = Expanded(Head(signals[d]))]
        /\ listeners' = [listeners EXCEPT ![d] = Len(registered[d])]
        /\ next' = [next EXCEPT ![d] = Len(registered[d]) + 1]
        /\ UNCHANGED <<done, log>>
    BY <1>7 DEF Snapshot
  <2>2. signals[d] \in Seq(Raw) /\ signals[d] \in Seq(By(d, Raw))
    BY <1>1 DEF LoopTyped
  <2>3. Tail(signals[d]) \in Seq(Raw) /\ Tail(signals[d]) \in Seq(By(d, Raw))
        /\ Head(signals[d]) \in Raw /\ Head(signals[d]) \in By(d, Raw)
    BY <2>1, <2>2
  <2>4. Expanded(Head(signals[d])) \subseteq By(d, Signal)
    <3>1. Head(signals[d]).Interface = d
      BY <2>3 DEF By
    <3>2. QED
      BY <2>3, <3>1, ExpandedAre DEF By
  <2>5. Expanded(Head(signals[d])) \subseteq Signal
    BY <2>4 DEF By
  <2>6. Len(registered[d]) \in Nat
    BY TypeParts DEF RegistryTyped
  <2>7. signals' \in [Dispatcher -> Seq(Raw)] /\ \A e \in Dispatcher : signals'[e] \in Seq(By(e, Raw))
    BY <1>1, <2>1, <2>3 DEF LoopTyped
  <2>8. /\ expanded' \in [Dispatcher -> SUBSET Signal]
        /\ \A e \in Dispatcher : expanded'[e] \subseteq By(e, Signal)
    BY <1>1, <2>1, <2>4, <2>5 DEF LoopTyped
  <2>9. /\ listeners' \in [Dispatcher -> Nat] /\ next' \in [Dispatcher -> Nat \ {0}]
        /\ \A e \in Dispatcher : next'[e] <= listeners'[e] => next[e] <= listeners[e]
    BY <1>1, <2>1, <2>6 DEF LoopTyped
  <2>10. QED
    BY <1>1, <2>1, <2>7, <2>8, <2>9 DEF LoopTyped
<1>8. ASSUME NEW d \in Dispatcher, Reject(d)
      PROVE  LoopTyped'
  <2>1. PICK s \in expanded[d] : /\ expanded' = [expanded EXCEPT ![d] = @ \ {s}]
                                 /\ UNCHANGED <<done, signals, listeners, next, log>>
    BY <1>8 DEF Reject
  <2>2. QED
    BY <1>1, <2>1 DEF LoopTyped
<1>9. ASSUME NEW d \in Dispatcher, Forward(d)
      PROVE  LoopTyped'
  <2>1. PICK s \in expanded[d] : /\ expanded' = [expanded EXCEPT ![d] = @ \ {s}]
                                 /\ log' = [log EXCEPT ![d] = Append(@, s)]
                                 /\ next' = [next EXCEPT ![d] = 1]
                                 /\ UNCHANGED <<done, signals, listeners>>
    BY <1>9 DEF Forward
  <2>2. s \in By(d, Signal) /\ s \in Signal /\ log[d] \in Seq(By(d, Signal)) /\ log[d] \in Seq(Signal)
    BY <1>1, <2>1 DEF LoopTyped
  <2>3. Append(log[d], s) \in Seq(By(d, Signal)) /\ Append(log[d], s) \in Seq(Signal)
        /\ Append(log[d], s) # << >>
    BY <2>2
  <2>4. /\ log' \in [Dispatcher -> Seq(Signal)]
        /\ \A e \in Dispatcher : log'[e] \in Seq(By(e, Signal))
        /\ \A e \in Dispatcher : log'[e] # << >> \/ (e # d /\ log'[e] = log[e])
    BY <1>1, <2>1, <2>3 DEF LoopTyped
  <2>5. /\ next' \in [Dispatcher -> Nat \ {0}]
        /\ \A e \in Dispatcher : e # d => next'[e] = next[e]
    BY <1>1, <2>1 DEF LoopTyped
  <2>6. /\ expanded' \in [Dispatcher -> SUBSET Signal]
        /\ \A e \in Dispatcher : expanded'[e] \subseteq By(e, Signal)
    BY <1>1, <2>1 DEF LoopTyped
  <2>7. QED
    BY <1>1, <2>1, <2>4, <2>5, <2>6 DEF LoopTyped
<1>10. ASSUME NEW d \in Dispatcher, Deliver(d) \/ Drop(d)
       PROVE  LoopTyped'
  <2>1. /\ next[d] <= listeners[d]
        /\ next' = [next EXCEPT ![d] = @ + 1]
        /\ UNCHANGED <<done, signals, expanded, listeners, log>>
    BY <1>10 DEF Deliver, Drop
  <2>2. /\ next' \in [Dispatcher -> Nat \ {0}]
        /\ \A e \in Dispatcher : next'[e] <= listeners[e] => next[e] <= listeners[e]
    BY <1>1, <2>1 DEF LoopTyped
  <2>3. QED
    BY <1>1, <2>1, <2>2 DEF LoopTyped
<1>11. QED
  BY <1>2, <1>3, <1>4, <1>5, <1>6, <1>7, <1>8, <1>9, <1>10 DEF Next, Step, Others

LEMMA SinceSet ==
    ASSUME NEW x \in Registration, NEW n \in Nat
    PROVE  /\ [x EXCEPT !.since = n] \in Registration
           /\ [x EXCEPT !.since = n].since = n
           /\ [x EXCEPT !.since = n].delivered = x.delivered
BY DEF Registration

LEMMA DeliveredSet ==
    ASSUME NEW x \in Registration, NEW n \in Nat
    PROVE  /\ [x EXCEPT !.delivered = n] \in Registration
           /\ [x EXCEPT !.delivered = n].delivered = n
           /\ [x EXCEPT !.delivered = n].since = x.since
BY DEF Registration

LEMMA DroppedSet ==
    ASSUME NEW x \in Registered, NEW n \in Nat
    PROVE  /\ [x EXCEPT !.dropped = n] \in Registered
           /\ [x EXCEPT !.dropped = n].dropped = n
           /\ [x EXCEPT !.dropped = n].name = x.name
BY DEF Registered

LEMMA RegistrationIs ==
    /\ \A x \in Registration : x.since \in Nat /\ x.delivered \in Nat
    /\ \A x \in Registered : x.dropped \in Nat /\ x.name \in Output
BY DEF Registration, Registered

(* What each action does to the registrations of its dispatcher. *)
NewListener(d, o) ==
    /\ registered'[d] = Append(registered[d], [name |-> o, dropped |-> 0])
    /\ history'[d] = Append(history[d], [since |-> 0, delivered |-> 0])
    /\ \A e \in Dispatcher : e # d => registered'[e] = registered[e] /\ history'[e] = history[e]

LEMMA AddHow ==
    ASSUME TypeOK, NEW d \in Dispatcher, NEW o \in Output, AddListener(d, o)
    PROVE  NewListener(d, o) /\ RegistryTyped' /\ UNCHANGED <<input, loop, channel, handled>>
<1>1. /\ registered' = [registered EXCEPT ![d] = Append(@, [name |-> o, dropped |-> 0])]
      /\ history' = [history EXCEPT ![d] = Append(@, [since |-> 0, delivered |-> 0])]
      /\ UNCHANGED <<input, loop, channel, handled>>
  BY DEF AddListener
<1>2. /\ registered \in [Dispatcher -> Seq(Registered)] /\ history \in [Dispatcher -> Seq(Registration)]
      /\ \A e \in Dispatcher : Len(registered[e]) = Len(history[e]) /\ listeners[e] <= Len(registered[e])
      /\ listeners \in [Dispatcher -> Nat]
  BY TypeParts DEF RegistryTyped, LoopTyped
<1>3. NewListener(d, o)
  BY <1>1, <1>2 DEF NewListener
<1>4. [name |-> o, dropped |-> 0] \in Registered /\ [since |-> 0, delivered |-> 0] \in Registration
  BY DEF Registered, Registration
<1>5. /\ Append(registered[d], [name |-> o, dropped |-> 0]) \in Seq(Registered)
      /\ Append(history[d], [since |-> 0, delivered |-> 0]) \in Seq(Registration)
      /\ Len(registered'[d]) = Len(registered[d]) + 1 /\ Len(history'[d]) = Len(history[d]) + 1
      /\ Len(registered[d]) \in Nat
  BY <1>2, <1>3, <1>4 DEF NewListener
<1>6. /\ registered' \in [Dispatcher -> Seq(Registered)]
      /\ history' \in [Dispatcher -> Seq(Registration)]
  BY <1>1, <1>2, <1>5
<1>7. listeners' = listeners
  BY <1>1 DEF loop
<1>8. \A e \in Dispatcher : Len(registered'[e]) = Len(history'[e]) /\ listeners'[e] <= Len(registered'[e])
  <2> SUFFICES ASSUME NEW e \in Dispatcher
               PROVE  Len(registered'[e]) = Len(history'[e]) /\ listeners'[e] <= Len(registered'[e])
    OBVIOUS
  <2>1. listeners[e] \in Nat
    BY <1>2
  <2>2. CASE e = d
    BY <1>2, <1>5, <1>7, <2>1, <2>2
  <2>3. CASE e # d
    BY <1>2, <1>3, <1>7, <2>3 DEF NewListener
  <2>4. QED
    BY <2>2, <2>3
<1>9. QED
  BY <1>1, <1>3, <1>6, <1>8 DEF RegistryTyped

LEMMA SnapshotHow ==
    ASSUME TypeOK, NEW d \in Dispatcher, Snapshot(d)
    PROVE  /\ RegistryTyped'
           /\ registered' = registered
           /\ \A e \in Dispatcher : e # d => history'[e] = history[e]
           /\ Len(history'[d]) = Len(history[d])
           /\ \A r \in 1..Len(history[d]) :
                /\ history'[d][r].delivered = history[d][r].delivered
                /\ history'[d][r].since = IF r > listeners[d] THEN Len(log[d]) ELSE history[d][r].since
<1>1. /\ history' = [history EXCEPT ![d] =
                      [r \in 1..Len(@) |-> IF r > listeners[d]
                                           THEN [@[r] EXCEPT !.since = Len(log[d])] ELSE @[r]]]
      /\ registered' = registered
      /\ listeners' = [listeners EXCEPT ![d] = Len(registered[d])]
  BY DEF Snapshot
<1>2. /\ registered \in [Dispatcher -> Seq(Registered)] /\ history \in [Dispatcher -> Seq(Registration)]
      /\ \A e \in Dispatcher : Len(registered[e]) = Len(history[e]) /\ listeners[e] <= Len(registered[e])
      /\ listeners \in [Dispatcher -> Nat] /\ log[d] \in Seq(Signal)
  BY TypeParts DEF RegistryTyped, LoopTyped
<1> DEFINE h == [r \in 1..Len(history[d]) |-> IF r > listeners[d]
                    THEN [history[d][r] EXCEPT !.since = Len(log[d])] ELSE history[d][r]]
<1>3. Len(log[d]) \in Nat /\ Len(history[d]) \in Nat /\ Len(registered[d]) \in Nat
      /\ \A r \in 1..Len(history[d]) : history[d][r] \in Registration
  BY <1>2
<1>4. ASSUME NEW r \in 1..Len(history[d])
      PROVE  /\ h[r] \in Registration /\ h[r].delivered = history[d][r].delivered
             /\ h[r].since = IF r > listeners[d] THEN Len(log[d]) ELSE history[d][r].since
  <2>1. history[d][r] \in Registration /\ r \in Nat /\ listeners[d] \in Nat
    BY <1>2, <1>3, <1>4
  <2>2. CASE r > listeners[d]
    <3>1. h[r] = [history[d][r] EXCEPT !.since = Len(log[d])]
      BY <1>4, <2>2
    <3>2. QED
      BY <1>3, <2>1, <2>2, <3>1, SinceSet
  <2>3. CASE ~ r > listeners[d]
    <3>1. h[r] = history[d][r]
      BY <1>4, <2>3
    <3>2. QED
      BY <2>1, <2>3, <3>1
  <2>4. QED
    BY <2>2, <2>3
<1>5. DOMAIN h = 1..Len(history[d]) /\ h = [r \in 1..Len(history[d]) |-> h[r]]
  OBVIOUS
<1>6. history' = [history EXCEPT ![d] = h]
  BY <1>1
<1> HIDE DEF h
<1>7. h \in Seq(Registration) /\ Len(h) = Len(history[d])
  BY <1>3, <1>4, <1>5, FunctionIsSeq
<1>8. history'[d] = h /\ \A e \in Dispatcher : e # d => history'[e] = history[e]
  BY <1>2, <1>6
<1>9. history' \in [Dispatcher -> Seq(Registration)]
  BY <1>2, <1>6, <1>7
<1>10. \A e \in Dispatcher : Len(registered'[e]) = Len(history'[e]) /\ listeners'[e] <= Len(registered'[e])
  BY <1>1, <1>2, <1>3, <1>7, <1>8
<1>11. RegistryTyped'
  BY <1>1, <1>2, <1>9, <1>10 DEF RegistryTyped
<1>12. QED
  BY <1>1, <1>4, <1>7, <1>8, <1>11

LEMMA OfferHow ==
    ASSUME TypeOK, NEW d \in Dispatcher, Deliver(d) \/ Drop(d)
    PROVE  /\ next[d] \in 1..Len(registered[d]) /\ next[d] <= listeners[d]
           /\ next'[d] = next[d] + 1 /\ listeners' = listeners /\ log' = log
           /\ \A e \in Dispatcher : e # d => next'[e] = next[e]
           /\ registered[d][next[d]] \in Registered /\ registered[d][next[d]].name \in Output
           /\ Current(d) \in By(d, Signal) /\ Current(d) \in Signal
<1>1. /\ registered \in [Dispatcher -> Seq(Registered)]
      /\ \A e \in Dispatcher : listeners[e] <= Len(registered[e])
      /\ listeners \in [Dispatcher -> Nat] /\ next \in [Dispatcher -> Nat \ {0}]
      /\ log[d] \in Seq(By(d, Signal)) /\ (next[d] <= listeners[d] => log[d] # << >>)
  BY TypeParts DEF RegistryTyped, LoopTyped
<1>2. next[d] <= listeners[d] /\ next' = [next EXCEPT ![d] = @ + 1] /\ listeners' = listeners
      /\ log' = log
  BY DEF Deliver, Drop
<1>3. next[d] \in 1..Len(registered[d])
  BY <1>1, <1>2
<1>4. registered[d][next[d]] \in Registered
  BY <1>1, <1>3
<1>5. Current(d) \in By(d, Signal)
  BY <1>1, <1>2 DEF Current
<1>6. QED
  BY <1>1, <1>2, <1>3, <1>4, <1>5, RegistrationIs DEF By

LEMMA DeliverHow ==
    ASSUME TypeOK, NEW d \in Dispatcher, Deliver(d)
    PROVE  /\ RegistryTyped' /\ ChannelTyped'
           /\ registered' = registered /\ handled' = handled
           /\ \A e \in Dispatcher : e # d => history'[e] = history[e]
           /\ Len(history'[d]) = Len(history[d])
           /\ \A r \in 1..Len(history[d]) :
                /\ history'[d][r].since = history[d][r].since
                /\ history'[d][r].delivered = history[d][r].delivered + IF r = next[d] THEN 1 ELSE 0
           /\ channel'[registered[d][next[d]].name]
                = Append(channel[registered[d][next[d]].name], Current(d))
           /\ \A o \in Output : o # registered[d][next[d]].name => channel'[o] = channel[o]
<1>1. /\ registered \in [Dispatcher -> Seq(Registered)] /\ history \in [Dispatcher -> Seq(Registration)]
      /\ \A e \in Dispatcher : Len(registered[e]) = Len(history[e]) /\ listeners[e] <= Len(registered[e])
      /\ ChannelTyped
  BY TypeParts DEF RegistryTyped
<1> DEFINE n == next[d]
           o == registered[d][n].name
<1>2. /\ Len(channel[o]) < MessageBufferSize
      /\ channel' = [channel EXCEPT ![o] = Append(@, Current(d))]
      /\ history' = [history EXCEPT ![d][n].delivered = @ + 1]
      /\ UNCHANGED <<listeners, registered, handled>>
  BY DEF Deliver
<1>3. n \in 1..Len(registered[d]) /\ o \in Output /\ Current(d) \in Signal
  BY OfferHow
<1> DEFINE x == [history[d][n] EXCEPT !.delivered = @ + 1]
           h == [history[d] EXCEPT ![n] = x]
<1>4. history' = [history EXCEPT ![d] = h]
  BY <1>1, <1>2
<1>5. n \in 1..Len(history[d]) /\ history[d] \in Seq(Registration) /\ history[d][n] \in Registration
  BY <1>1, <1>3
<1>6. x \in Registration /\ x.delivered = history[d][n].delivered + 1 /\ x.since = history[d][n].since
  <2>1. history[d][n].delivered + 1 \in Nat
    BY <1>5, RegistrationIs
  <2>2. x = [history[d][n] EXCEPT !.delivered = history[d][n].delivered + 1]
    OBVIOUS
  <2>3. QED
    BY <1>5, <2>1, <2>2, DeliveredSet
<1> HIDE DEF x
<1>7. h \in Seq(Registration) /\ Len(h) = Len(history[d])
  BY <1>5, <1>6, ReplaceType
<1>8. \A r \in 1..Len(history[d]) : h[r] = IF r = n THEN x ELSE history[d][r]
  BY <1>5
<1> HIDE DEF h
<1>9. history'[d] = h /\ \A e \in Dispatcher : e # d => history'[e] = history[e]
  BY <1>1, <1>4
<1>10. history' \in [Dispatcher -> Seq(Registration)]
  BY <1>1, <1>4, <1>7
<1>11. RegistryTyped'
  BY <1>1, <1>2, <1>7, <1>9, <1>10 DEF RegistryTyped
<1>12. \A r \in 1..Len(history[d]) :
          /\ history'[d][r].since = history[d][r].since
          /\ history'[d][r].delivered = history[d][r].delivered + IF r = n THEN 1 ELSE 0
  <2> SUFFICES ASSUME NEW r \in 1..Len(history[d])
               PROVE  /\ history'[d][r].since = history[d][r].since
                      /\ history'[d][r].delivered = history[d][r].delivered + IF r = n THEN 1 ELSE 0
    OBVIOUS
  <2>1. history[d][r] \in Registration
    BY <1>5
  <2>2. history[d][r].delivered \in Nat
    BY <2>1, RegistrationIs
  <2>3. QED
    BY <1>6, <1>8, <1>9, <2>2
<1>13. /\ channel'[o] = Append(channel[o], Current(d))
       /\ \A p \in Output : p # o => channel'[p] = channel[p]
  BY <1>1, <1>2, <1>3 DEF ChannelTyped
<1>14. ChannelTyped'
  <2>1. channel[o] \in Seq(Signal) /\ channel \in [Output -> Seq(Signal)]
    BY <1>1, <1>3 DEF ChannelTyped
  <2>2. Append(channel[o], Current(d)) \in Seq(Signal)
        /\ Len(Append(channel[o], Current(d))) = Len(channel[o]) + 1 /\ Len(channel[o]) \in Nat
    BY <1>3, <2>1
  <2>3. channel' \in [Output -> Seq(Signal)]
    BY <1>2, <2>1, <2>2
  <2>4. \A p \in Output : Len(channel'[p]) <= MessageBufferSize
    BY <1>1, <1>2, <1>13, <2>2, Bounds DEF ChannelTyped
  <2>5. QED
    BY <1>1, <1>2, <2>3, <2>4 DEF ChannelTyped
<1>15. QED
  BY <1>2, <1>7, <1>9, <1>11, <1>12, <1>13, <1>14

LEMMA DropHow ==
    ASSUME TypeOK, NEW d \in Dispatcher, Drop(d)
    PROVE  /\ RegistryTyped'
           /\ history' = history /\ UNCHANGED <<channel, handled>>
           /\ \A e \in Dispatcher : e # d => registered'[e] = registered[e]
           /\ Len(registered'[d]) = Len(registered[d])
           /\ \A r \in 1..Len(registered[d]) :
                /\ registered'[d][r].name = registered[d][r].name
                /\ registered'[d][r].dropped = registered[d][r].dropped + IF r = next[d] THEN 1 ELSE 0
<1>1. /\ registered \in [Dispatcher -> Seq(Registered)] /\ history \in [Dispatcher -> Seq(Registration)]
      /\ \A e \in Dispatcher : Len(registered[e]) = Len(history[e]) /\ listeners[e] <= Len(registered[e])
  BY TypeParts DEF RegistryTyped
<1> DEFINE n == next[d]
<1>2. /\ registered' = [registered EXCEPT ![d][n].dropped = @ + 1]
      /\ UNCHANGED <<listeners, channel, handled, history>>
  BY DEF Drop
<1>3. n \in 1..Len(registered[d]) /\ registered[d][n] \in Registered
  BY OfferHow
<1> DEFINE x == [registered[d][n] EXCEPT !.dropped = @ + 1]
           h == [registered[d] EXCEPT ![n] = x]
<1>4. registered' = [registered EXCEPT ![d] = h]
  BY <1>1, <1>2
<1>5. registered[d] \in Seq(Registered)
  BY <1>1
<1>6. x \in Registered /\ x.dropped = registered[d][n].dropped + 1 /\ x.name = registered[d][n].name
  <2>1. registered[d][n].dropped + 1 \in Nat
    BY <1>3, RegistrationIs
  <2>2. x = [registered[d][n] EXCEPT !.dropped = registered[d][n].dropped + 1]
    OBVIOUS
  <2>3. QED
    BY <1>3, <2>1, <2>2, DroppedSet
<1> HIDE DEF x
<1>7. h \in Seq(Registered) /\ Len(h) = Len(registered[d])
  BY <1>3, <1>5, <1>6, ReplaceType
<1>8. \A r \in 1..Len(registered[d]) : h[r] = IF r = n THEN x ELSE registered[d][r]
  BY <1>5
<1> HIDE DEF h
<1>9. registered'[d] = h /\ \A e \in Dispatcher : e # d => registered'[e] = registered[e]
  BY <1>1, <1>4
<1>10. registered' \in [Dispatcher -> Seq(Registered)]
  BY <1>1, <1>4, <1>7
<1>11. RegistryTyped'
  BY <1>1, <1>2, <1>7, <1>9, <1>10 DEF RegistryTyped
<1>12. ASSUME NEW r \in 1..Len(registered[d])
       PROVE  /\ registered'[d][r].name = registered[d][r].name
              /\ registered'[d][r].dropped = registered[d][r].dropped + IF r = n THEN 1 ELSE 0
  <2>1. registered[d][r] \in Registered
    BY <1>5, <1>12
  <2>2. registered[d][r].dropped \in Nat
    BY <2>1, RegistrationIs
  <2>3. QED
    BY <1>6, <1>8, <1>9, <1>12, <2>2
<1>13. QED
  BY <1>2, <1>7, <1>9, <1>11, <1>12

(* The other actions leave the registrations alone. *)
Quiet(d) ==
    Feed(d) \/ CloseInput(d) \/ Receive(d) \/ End(d) \/ Reject(d) \/ Forward(d)

LEMMA QuietHow ==
    ASSUME (\E d \in Dispatcher : Quiet(d)) \/ UNCHANGED vars
    PROVE  UNCHANGED <<registered, history, channel, handled, listeners>>
BY DEF Quiet, Feed, CloseInput, Receive, End, Reject, Forward, output, loop, vars

LEMMA HandleHow ==
    ASSUME TypeOK, NEW o \in Output, Handle(o)
    PROVE  /\ ChannelTyped' /\ UNCHANGED <<input, loop, registered, history>>
           /\ channel[o] # << >>
           /\ channel'[o] = Tail(channel[o]) /\ handled'[o] = Append(handled[o], Head(channel[o]))
           /\ \A p \in Output : p # o => channel'[p] = channel[p] /\ handled'[p] = handled[p]
<1>1. ChannelTyped
  BY TypeParts
<1>2. /\ channel[o] # << >>
      /\ handled' = [handled EXCEPT ![o] = Append(@, Head(channel[o]))]
      /\ channel' = [channel EXCEPT ![o] = Tail(@)]
      /\ UNCHANGED <<input, loop, registered, history>>
  BY DEF Handle
<1>3. channel[o] \in Seq(Signal) /\ handled[o] \in Seq(Signal) /\ Len(channel[o]) <= MessageBufferSize
  BY <1>1 DEF ChannelTyped
<1>4. Head(channel[o]) \in Signal /\ Tail(channel[o]) \in Seq(Signal)
      /\ Len(Tail(channel[o])) = Len(channel[o]) - 1 /\ Len(channel[o]) \in Nat \ {0}
  BY <1>2, <1>3, Rest
<1>5. Append(handled[o], Head(channel[o])) \in Seq(Signal)
  BY <1>3, <1>4
<1>6. ChannelTyped'
  BY <1>1, <1>2, <1>3, <1>4, <1>5, Bounds DEF ChannelTyped
<1>7. QED
  BY <1>1, <1>2, <1>6 DEF ChannelTyped

LEMMA NextCases ==
    ASSUME [Next]_vars
    PROVE  \/ (\E d \in Dispatcher : Quiet(d)) \/ UNCHANGED vars
           \/ \E d \in Dispatcher : Snapshot(d) \/ Deliver(d) \/ Drop(d)
           \/ \E d \in Dispatcher, o \in Output : AddListener(d, o)
           \/ \E o \in Output : Handle(o)
BY DEF Next, Step, Quiet

LEMMA OutputKept ==
    ASSUME TypeOK, [Next]_vars
    PROVE  RegistryTyped' /\ ChannelTyped'
<1>1. RegistryTyped /\ ChannelTyped
  BY TypeParts
<1>2. CASE (\E d \in Dispatcher : Quiet(d)) \/ UNCHANGED vars
  BY <1>1, <1>2, QuietHow DEF RegistryTyped, ChannelTyped
<1>3. ASSUME NEW d \in Dispatcher, Snapshot(d)
      PROVE  RegistryTyped' /\ ChannelTyped'
  BY <1>1, <1>3, SnapshotHow DEF ChannelTyped, Snapshot
<1>4. ASSUME NEW d \in Dispatcher, Deliver(d)
      PROVE  RegistryTyped' /\ ChannelTyped'
  BY <1>4, DeliverHow
<1>5. ASSUME NEW d \in Dispatcher, Drop(d)
      PROVE  RegistryTyped' /\ ChannelTyped'
  BY <1>1, <1>5, DropHow DEF ChannelTyped
<1>6. ASSUME NEW d \in Dispatcher, NEW o \in Output, AddListener(d, o)
      PROVE  RegistryTyped' /\ ChannelTyped'
  BY <1>1, <1>6, AddHow DEF ChannelTyped
<1>7. ASSUME NEW o \in Output, Handle(o)
      PROVE  RegistryTyped' /\ ChannelTyped'
  BY <1>1, <1>7, HandleHow DEF RegistryTyped, loop
<1>8. QED
  BY <1>2, <1>3, <1>4, <1>5, <1>6, <1>7, NextCases

(***************************************************************************)
(* The variables keep their types: no channel holds more than its          *)
(* capacity, no dispatcher offers before it has a signal to offer, and     *)
(* what it holds is its own interface's.                                   *)
(***************************************************************************)
THEOREM SignalTypes == Spec => []TypeOK
<1>1. Init => TypeOK
  BY InitTyped
<1>2. TypeOK /\ [Next]_vars => TypeOK'
  BY InputKept, LoopKept, OutputKept, TypeParts
<1>3. QED
  BY <1>1, <1>2, PTL DEF Spec

-----------------------------------------------------------------------------
(* Accounting, for one dispatcher: only its own steps and a new listener    *)
(* change its counts.                                                       *)

(* A listener in place r that was given g signals and lost x, of the k      *)
(* forwarded, since the i-th: l listeners are in the copy, n is the next.   *)
Even(r, g, x, i, k, l, n) ==
    g + x = IF r > l THEN 0 ELSE k - i - (IF n <= r THEN 1 ELSE 0)

Balanced(d) ==
    \A r \in 1..Len(registered[d]) :
        Even(r, history[d][r].delivered, registered[d][r].dropped, history[d][r].since,
             Len(log[d]), listeners[d], next[d])

LEMMA EvenSteps ==
    ASSUME NEW r \in Nat \ {0}, NEW g \in Nat, NEW x \in Nat, NEW i \in Nat, NEW k \in Nat,
           NEW l \in Nat, NEW n \in Nat \ {0}, Even(r, g, x, i, k, l, n)
    PROVE  /\ n > l => Even(r, g, x, i, k + 1, l, 1)
           /\ n <= l => Even(r, g + (IF r = n THEN 1 ELSE 0), x, i, k, l, n + 1)
           /\ n <= l => Even(r, g, x + (IF r = n THEN 1 ELSE 0), i, k, l, n + 1)
<1>1. CASE r > l
  BY <1>1 DEF Even
<1>2. CASE r <= l /\ n <= r
  BY <1>2 DEF Even
<1>3. CASE r <= l /\ n > r
  BY <1>3 DEF Even
<1>4. QED
  BY <1>1, <1>2, <1>3

SameCounts(d) ==
    /\ registered'[d] = registered[d] /\ history'[d] = history[d]
    /\ listeners'[d] = listeners[d] /\ log'[d] = log[d] /\ next'[d] = next[d]

LEMMA OthersCounts ==
    ASSUME TypeOK, [Next]_vars, NEW d \in Dispatcher
    PROVE  \/ SameCounts(d)
           \/ Snapshot(d) \/ Forward(d) \/ Deliver(d) \/ Drop(d)
           \/ \E o \in Output : AddListener(d, o)
<1>1. /\ log \in [Dispatcher -> Seq(Signal)] /\ next \in [Dispatcher -> Nat \ {0}]
      /\ listeners \in [Dispatcher -> Nat]
  BY TypeParts DEF LoopTyped
<1>2. CASE UNCHANGED <<registered, history, listeners, log, next>>
  BY <1>2 DEF SameCounts
<1>3. ASSUME NEW e \in Dispatcher,
             Feed(e) \/ CloseInput(e) \/ Receive(e) \/ End(e) \/ Reject(e)
      PROVE  UNCHANGED <<registered, history, listeners, log, next>>
  BY <1>3 DEF Feed, CloseInput, Receive, End, Reject, loop, output
<1>4. ASSUME NEW o \in Output, Handle(o)
      PROVE  UNCHANGED <<registered, history, listeners, log, next>>
  BY <1>4 DEF Handle, loop
<1>5. ASSUME NEW e \in Dispatcher, e # d, Snapshot(e)
      PROVE  SameCounts(d)
  <2>1. /\ next' = [next EXCEPT ![e] = Len(registered[e]) + 1] /\ log' = log
        /\ listeners' = [listeners EXCEPT ![e] = Len(registered[e])]
    BY <1>5 DEF Snapshot
  <2>2. next'[d] = next[d] /\ listeners'[d] = listeners[d]
    BY <1>1, <1>5, <2>1
  <2>3. registered' = registered /\ history'[d] = history[d]
    BY <1>5, SnapshotHow
  <2>4. QED
    BY <2>1, <2>2, <2>3 DEF SameCounts
<1>6. ASSUME NEW e \in Dispatcher, e # d, Forward(e)
      PROVE  SameCounts(d)
  <2>1. PICK s \in expanded[e] : /\ log' = [log EXCEPT ![e] = Append(@, s)]
                                 /\ next' = [next EXCEPT ![e] = 1]
                                 /\ UNCHANGED <<listeners, output>>
    BY <1>6 DEF Forward
  <2>2. log'[d] = log[d] /\ next'[d] = next[d]
    BY <1>1, <1>6, <2>1
  <2>3. QED
    BY <2>1, <2>2 DEF SameCounts, output
<1>7. ASSUME NEW e \in Dispatcher, e # d, Deliver(e)
      PROVE  SameCounts(d)
  BY <1>7, OfferHow, DeliverHow DEF SameCounts
<1>8. ASSUME NEW e \in Dispatcher, e # d, Drop(e)
      PROVE  SameCounts(d)
  BY <1>8, OfferHow, DropHow DEF SameCounts
<1>9. ASSUME NEW e \in Dispatcher, NEW o \in Output, e # d, AddListener(e, o)
      PROVE  SameCounts(d)
  BY <1>9, AddHow DEF SameCounts, NewListener, loop
<1>10. CASE UNCHANGED vars
  BY <1>2, <1>10 DEF vars
<1>11. QED
  BY <1>2, <1>3, <1>4, <1>5, <1>6, <1>7, <1>8, <1>9, <1>10 DEF Next, Step

LEMMA EvenCopied ==
    ASSUME NEW r \in Nat \ {0}, NEW g \in Nat, NEW x \in Nat, NEW i \in Nat, NEW k \in Nat,
           NEW l \in Nat, NEW n \in Nat \ {0}, Even(r, g, x, i, k, l, n), n > l,
           NEW m \in Nat, m >= r
    PROVE  Even(r, g, x, IF r > l THEN k ELSE i, k, m, m + 1)
<1>1. CASE r > l
  BY <1>1 DEF Even
<1>2. CASE r <= l
  BY <1>2 DEF Even
<1>3. QED
  BY <1>1, <1>2

LEMMA BalanceKept ==
    ASSUME TypeOK, [Next]_vars, NEW d \in Dispatcher, Balanced(d)
    PROVE  Balanced(d)'
<1>1. /\ log \in [Dispatcher -> Seq(Signal)] /\ next \in [Dispatcher -> Nat \ {0}]
      /\ listeners \in [Dispatcher -> Nat]
      /\ Len(log[d]) \in Nat /\ next[d] \in Nat \ {0} /\ listeners[d] \in Nat
  BY TypeParts DEF LoopTyped
<1>2. /\ registered[d] \in Seq(Registered) /\ history[d] \in Seq(Registration)
      /\ Len(registered[d]) = Len(history[d]) /\ listeners[d] <= Len(registered[d])
      /\ Len(registered[d]) \in Nat
  BY TypeParts DEF RegistryTyped
<1>3. ASSUME NEW r \in 1..Len(registered[d])
      PROVE  /\ r \in Nat \ {0} /\ r \in 1..Len(history[d])
             /\ history[d][r].delivered \in Nat /\ registered[d][r].dropped \in Nat
             /\ history[d][r].since \in Nat
             /\ Even(r, history[d][r].delivered, registered[d][r].dropped, history[d][r].since,
                     Len(log[d]), listeners[d], next[d])
  <2>1. registered[d][r] \in Registered /\ history[d][r] \in Registration /\ r \in Nat \ {0}
    BY <1>2
  <2>2. QED
    BY <1>2, <2>1, RegistrationIs DEF Balanced
<1>4. CASE SameCounts(d)
  BY <1>4 DEF SameCounts, Balanced
<1>5. CASE Snapshot(d)
  <2>1. /\ next[d] > listeners[d] /\ log' = log /\ registered' = registered
        /\ listeners'[d] = Len(registered[d]) /\ next'[d] = Len(registered[d]) + 1
    BY <1>1, <1>5 DEF Snapshot, Offered
  <2> SUFFICES ASSUME NEW r \in 1..Len(registered[d])
               PROVE  Even(r, history'[d][r].delivered, registered[d][r].dropped,
                           history'[d][r].since, Len(log[d]), Len(registered[d]),
                           Len(registered[d]) + 1)
    BY <2>1 DEF Balanced
  <2>2. /\ history'[d][r].delivered = history[d][r].delivered
        /\ history'[d][r].since = IF r > listeners[d] THEN Len(log[d]) ELSE history[d][r].since
    BY <1>3, <1>5, SnapshotHow
  <2>3. Even(r, history[d][r].delivered, registered[d][r].dropped,
             IF r > listeners[d] THEN Len(log[d]) ELSE history[d][r].since,
             Len(log[d]), Len(registered[d]), Len(registered[d]) + 1)
    <3>1. Len(registered[d]) >= r
      BY <1>2
    <3>2. QED
      BY <1>1, <1>2, <1>3, <2>1, <3>1, EvenCopied
  <2>4. QED
    BY <2>2, <2>3
<1>6. CASE Forward(d)
  <2>1. PICK s \in expanded[d] : /\ log' = [log EXCEPT ![d] = Append(@, s)]
                                 /\ next' = [next EXCEPT ![d] = 1]
                                 /\ next[d] > listeners[d]
                                 /\ UNCHANGED <<listeners, output>>
    BY <1>6 DEF Forward, IsNext, Offered
  <2>2. s \in Signal /\ log[d] \in Seq(Signal)
    BY TypeParts DEF LoopTyped
  <2>3. /\ log'[d] = Append(log[d], s) /\ next'[d] = 1
        /\ registered' = registered /\ history' = history /\ listeners' = listeners
    BY <1>1, <2>1 DEF output
  <2>4. Len(log'[d]) = Len(log[d]) + 1
    BY <2>2, <2>3
  <2>5. ASSUME NEW r \in 1..Len(registered[d])
        PROVE  Even(r, history[d][r].delivered, registered[d][r].dropped, history[d][r].since,
                    Len(log[d]) + 1, listeners[d], 1)
    BY <1>1, <1>3, <2>1, EvenSteps
  <2>6. QED
    BY <2>3, <2>4, <2>5 DEF Balanced
<1>7. CASE Deliver(d)
  <2>1. /\ next[d] <= listeners[d] /\ next'[d] = next[d] + 1 /\ log' = log
        /\ listeners' = listeners /\ registered' = registered
    BY <1>7, OfferHow, DeliverHow
  <2> SUFFICES ASSUME NEW r \in 1..Len(registered[d])
               PROVE  Even(r, history'[d][r].delivered, registered[d][r].dropped,
                           history'[d][r].since, Len(log[d]), listeners[d], next[d] + 1)
    BY <2>1 DEF Balanced
  <2>2. /\ history'[d][r].delivered = history[d][r].delivered + IF r = next[d] THEN 1 ELSE 0
        /\ history'[d][r].since = history[d][r].since
    BY <1>3, <1>7, DeliverHow
  <2>3. Even(r, history[d][r].delivered + (IF r = next[d] THEN 1 ELSE 0), registered[d][r].dropped,
             history[d][r].since, Len(log[d]), listeners[d], next[d] + 1)
    BY <1>1, <1>3, <2>1, EvenSteps
  <2>4. QED
    BY <2>2, <2>3
<1>8. CASE Drop(d)
  <2>1. /\ next[d] <= listeners[d] /\ next'[d] = next[d] + 1 /\ log' = log
        /\ listeners' = listeners /\ history' = history /\ Len(registered'[d]) = Len(registered[d])
    BY <1>8, OfferHow, DropHow
  <2> SUFFICES ASSUME NEW r \in 1..Len(registered[d])
               PROVE  Even(r, history[d][r].delivered, registered'[d][r].dropped,
                           history[d][r].since, Len(log[d]), listeners[d], next[d] + 1)
    BY <2>1 DEF Balanced
  <2>2. registered'[d][r].dropped = registered[d][r].dropped + IF r = next[d] THEN 1 ELSE 0
    BY <1>8, DropHow
  <2>3. Even(r, history[d][r].delivered, registered[d][r].dropped + (IF r = next[d] THEN 1 ELSE 0),
             history[d][r].since, Len(log[d]), listeners[d], next[d] + 1)
    BY <1>1, <1>3, <2>1, EvenSteps
  <2>4. QED
    BY <2>2, <2>3
<1>9. ASSUME NEW o \in Output, AddListener(d, o)
      PROVE  Balanced(d)'
  <2>1. /\ registered'[d] = Append(registered[d], [name |-> o, dropped |-> 0])
        /\ history'[d] = Append(history[d], [since |-> 0, delivered |-> 0])
        /\ log' = log /\ listeners' = listeners /\ next' = next
    BY <1>9, AddHow DEF NewListener, loop
  <2>2. Len(registered'[d]) = Len(registered[d]) + 1
    BY <1>2, <2>1
  <2>3. ASSUME NEW r \in 1..Len(registered[d])
        PROVE  registered'[d][r] = registered[d][r] /\ history'[d][r] = history[d][r]
    BY <1>2, <2>1, <2>3
  <2>4. /\ registered'[d][Len(registered[d]) + 1].dropped = 0
        /\ history'[d][Len(registered[d]) + 1].delivered = 0
    BY <1>2, <2>1
  <2> SUFFICES ASSUME NEW r \in 1..(Len(registered[d]) + 1)
               PROVE  Even(r, history'[d][r].delivered, registered'[d][r].dropped,
                           history'[d][r].since, Len(log[d]), listeners[d], next[d])
    BY <2>1, <2>2 DEF Balanced
  <2>5. CASE r = Len(registered[d]) + 1
    BY <1>1, <1>2, <2>4, <2>5 DEF Even
  <2>6. CASE r \in 1..Len(registered[d])
    BY <1>3, <2>3, <2>6
  <2>7. QED
    BY <1>2, <2>5, <2>6
<1>10. QED
  BY <1>4, <1>5, <1>6, <1>7, <1>8, <1>9, OthersCounts

(***************************************************************************)
(* Accounting holds whatever the channels' capacity, the parsers, the      *)
(* filters and the order in which outputs are registered: no registration  *)
(* is given a signal twice, skipped, or given one from before its copy.    *)
(***************************************************************************)
THEOREM SignalAccounting == Spec => []Accounting
<1>1. Accounting <=> \A d \in Dispatcher : Balanced(d)
  BY DEF Accounting, Balanced, Even
<1>2. Accounting' <=> \A d \in Dispatcher : Balanced(d)'
  BY DEF Accounting, Balanced, Even
<1>3. Init => Accounting
  BY DEF Init, Accounting
<1>4. TypeOK /\ Accounting /\ [Next]_vars => Accounting'
  BY <1>1, <1>2, BalanceKept
<1>5. QED
  BY <1>3, <1>4, SignalTypes, PTL DEF Spec

-----------------------------------------------------------------------------
(* The signals of one dispatcher in a sequence, when another is appended.   *)
LEMMA AppendIs ==
    ASSUME NEW S, NEW s \in Seq(S), NEW x
    PROVE  Append(s, x) = [i \in 1..(Len(s) + 1) |-> IF i = Len(s) + 1 THEN x ELSE s[i]]
<1> DEFINE f == [i \in 1..(Len(s) + 1) |-> IF i = Len(s) + 1 THEN x ELSE s[i]]
           T == S \cup {x}
<1>1. Len(s) \in Nat /\ Len(s) + 1 \in Nat /\ \A i \in 1..Len(s) : s[i] \in T
  OBVIOUS
<1>2. s \in Seq(T) /\ x \in T
  BY SeqMonotonic
<1>3. /\ Append(s, x) \in Seq(T) /\ Len(Append(s, x)) = Len(s) + 1
      /\ \A i \in 1..Len(s) : Append(s, x)[i] = s[i]
      /\ Append(s, x)[Len(s) + 1] = x
  BY <1>2, Added
<1>4. \A i \in 1..(Len(s) + 1) : i \in 1..Len(s) \/ i = Len(s) + 1
  BY <1>1
<1>5. \A i \in 1..(Len(s) + 1) : f[i] \in T /\ f[i] = Append(s, x)[i]
  BY <1>1, <1>2, <1>3, <1>4
<1>6. DOMAIN f = 1..(Len(s) + 1) /\ f = [i \in 1..(Len(s) + 1) |-> f[i]]
  OBVIOUS
<1> HIDE DEF f, T
<1>7. f \in Seq(T) /\ Len(f) = Len(s) + 1
  BY <1>1, <1>5, <1>6, FunctionIsSeq
<1>8. f = Append(s, x)
  BY <1>3, <1>5, <1>7, SeqEqual
<1>9. QED
  BY <1>8 DEF f

LEMMA PlacesAdded ==
    ASSUME NEW d, NEW s \in Seq(Signal), NEW x \in Signal
    PROVE  /\ Places(d, s) \subseteq 1..Len(s) /\ IsFiniteSet(Places(d, s))
           /\ Cardinality(Places(d, s)) \in Nat
           /\ Len(Append(s, x)) = Len(s) + 1
           /\ Places(d, Append(s, x))
                = IF x.Interface = d THEN Places(d, s) \cup {Len(s) + 1} ELSE Places(d, s)
           /\ Cardinality(Places(d, Append(s, x)))
                = IF x.Interface = d THEN Cardinality(Places(d, s)) + 1
                                     ELSE Cardinality(Places(d, s))
<1>1. /\ Len(s) \in Nat /\ Len(Append(s, x)) = Len(s) + 1
      /\ \A i \in 1..Len(s) : Append(s, x)[i] = s[i]
      /\ Append(s, x)[Len(s) + 1] = x
  BY Added
<1>2. Places(d, s) \subseteq 1..Len(s)
  BY DEF Places
<1>3. IsFiniteSet(Places(d, s)) /\ Cardinality(Places(d, s)) \in Nat
  <2>1. IsFiniteSet(1..Len(s))
    BY <1>1, FS_Interval
  <2>2. IsFiniteSet(Places(d, s))
    BY <1>2, <2>1, FS_Subset
  <2>3. QED
    BY <2>2, FS_CardinalityType
<1>4. Places(d, Append(s, x))
        = IF x.Interface = d THEN Places(d, s) \cup {Len(s) + 1} ELSE Places(d, s)
  <2>1. 1..(Len(s) + 1) = (1..Len(s)) \cup {Len(s) + 1}
    BY <1>1
  <2>2. Places(d, Append(s, x))
          = {i \in (1..Len(s)) \cup {Len(s) + 1} : Append(s, x)[i].Interface = d}
    BY <1>1, <2>1 DEF Places
  <2>3. {i \in 1..Len(s) : Append(s, x)[i].Interface = d} = Places(d, s)
    BY <1>1 DEF Places
  <2>4. QED
    BY <1>1, <2>2, <2>3
<1>5. Len(s) + 1 \notin Places(d, s)
  BY <1>1, <1>2
<1>6. Cardinality(Places(d, s) \cup {Len(s) + 1}) = Cardinality(Places(d, s)) + 1
  BY <1>3, <1>5, FS_AddElement
<1>7. QED
  BY <1>1, <1>2, <1>3, <1>4, <1>6

(* How many of d's signals there are up to place i. *)
Upto(d, s, i) == Cardinality(Places(d, s) \cap 1..i)

At(d, s, k) == {i \in Places(d, s) : Upto(d, s, i) = k}

LEMMA NthIs ==
    ASSUME NEW d, NEW s, NEW k
    PROVE  Nth(d, s, k) = CHOOSE x \in {s[i] : i \in At(d, s, k)} : TRUE
BY DEF Nth, At, Upto

LEMMA AtAdded ==
    ASSUME NEW d, NEW s \in Seq(Signal), NEW x \in Signal, NEW k \in Nat
    PROVE  At(d, Append(s, x), k)
             = IF x.Interface = d /\ k = Cardinality(Places(d, s)) + 1
               THEN {Len(s) + 1}
               ELSE At(d, s, k)
<1> DEFINE P == Places(d, s)
           n == Cardinality(P)
           Q == Places(d, Append(s, x))
<1>1. P \subseteq 1..Len(s) /\ IsFiniteSet(P) /\ n \in Nat /\ Len(s) \in Nat
      /\ Q = (IF x.Interface = d THEN P \cup {Len(s) + 1} ELSE P)
      /\ Cardinality(Q) = IF x.Interface = d THEN n + 1 ELSE n
  BY PlacesAdded
<1>2. \A i \in P : Q \cap 1..i = P \cap 1..i
  BY <1>1
<1>3. \A i \in P : Upto(d, Append(s, x), i) = Upto(d, s, i)
  BY <1>2 DEF Upto
<1>4. ASSUME NEW i \in P
      PROVE  Upto(d, s, i) \in Nat /\ Upto(d, s, i) <= n
  <2>1. P \cap 1..i \subseteq P
    OBVIOUS
  <2>2. QED
    BY <1>1, <2>1, FS_Subset, FS_CardinalityType DEF Upto
<1>5. x.Interface = d => Upto(d, Append(s, x), Len(s) + 1) = n + 1
  <2>1. x.Interface = d => Q \cap 1..(Len(s) + 1) = Q
    BY <1>1
  <2>2. QED
    BY <1>1, <2>1 DEF Upto
<1>6. At(d, s, k) = {i \in P : Upto(d, s, i) = k}
      /\ At(d, Append(s, x), k) = {i \in Q : Upto(d, Append(s, x), i) = k}
  BY DEF At
<1> HIDE DEF P, n, Q
<1>7. CASE x.Interface # d
  BY <1>1, <1>3, <1>6, <1>7
<1>8. CASE x.Interface = d /\ k = n + 1
  <2>1. \A i \in P : Upto(d, s, i) # k
    BY <1>1, <1>4, <1>8
  <2>2. At(d, Append(s, x), k) = {Len(s) + 1}
    BY <1>1, <1>3, <1>5, <1>6, <1>8, <2>1
  <2>3. QED
    BY <1>8, <2>2 DEF n, P
<1>9. CASE x.Interface = d /\ k # n + 1
  <2>1. At(d, Append(s, x), k) = At(d, s, k)
    BY <1>1, <1>3, <1>5, <1>6, <1>9
  <2>2. QED
    BY <1>9, <2>1 DEF n, P
<1>10. QED
  BY <1>7, <1>8, <1>9

(* Another dispatcher's signal is not seen; an own one comes last. *)
LEMMA OfAdded ==
    ASSUME NEW d, NEW s \in Seq(Signal), NEW x \in Signal
    PROVE  Of(d, Append(s, x)) = IF x.Interface = d THEN Append(Of(d, s), x) ELSE Of(d, s)
<1> DEFINE n == Cardinality(Places(d, s))
<1>1. n \in Nat /\ Places(d, s) \subseteq 1..Len(s) /\ Len(s) \in Nat
      /\ Cardinality(Places(d, Append(s, x))) = IF x.Interface = d THEN n + 1 ELSE n
  BY PlacesAdded
<1>2. ASSUME NEW k \in 1..n
      PROVE  Nth(d, Append(s, x), k) = Nth(d, s, k)
  <2>1. k \in Nat /\ k # n + 1
    BY <1>1, <1>2
  <2>2. At(d, Append(s, x), k) = At(d, s, k) /\ At(d, s, k) \subseteq 1..Len(s)
    BY <1>1, <2>1, AtAdded DEF At
  <2>3. {Append(s, x)[i] : i \in At(d, Append(s, x), k)} = {s[i] : i \in At(d, s, k)}
    BY <2>2, Added
  <2>4. QED
    BY <2>3, NthIs
<1>3. ASSUME x.Interface = d
      PROVE  Nth(d, Append(s, x), n + 1) = x
  <2>1. At(d, Append(s, x), n + 1) = {Len(s) + 1}
    BY <1>1, <1>3, AtAdded
  <2>2. {Append(s, x)[i] : i \in At(d, Append(s, x), n + 1)} = {x}
    BY <2>1, Added
  <2>3. QED
    BY <2>2, NthIs
<1>4. Of(d, s) = [k \in 1..n |-> Nth(d, s, k)]
  BY DEF Of
<1>5. CASE x.Interface # d
  BY <1>1, <1>2, <1>4, <1>5 DEF Of
<1>6. CASE x.Interface = d
  <2>1. Of(d, Append(s, x)) = [k \in 1..(n + 1) |-> Nth(d, Append(s, x), k)]
    BY <1>1, <1>6 DEF Of
  <2> DEFINE S == {Nth(d, s, k) : k \in 1..n}
  <2>2. Of(d, s) \in Seq(S) /\ Len(Of(d, s)) = n
    <3>1. DOMAIN Of(d, s) = 1..n /\ Of(d, s) = [k \in 1..n |-> Of(d, s)[k]]
          /\ \A k \in 1..n : Of(d, s)[k] \in S
      BY <1>4
    <3> HIDE DEF n, S
    <3>2. QED
      BY <1>1, <3>1, FunctionIsSeq
  <2>3. Append(Of(d, s), x) = [k \in 1..(n + 1) |-> IF k = n + 1 THEN x ELSE Of(d, s)[k]]
    <3> DEFINE w == Of(d, s)
    <3>1. w \in Seq(S) /\ Len(w) = n
      BY <2>2
    <3> HIDE DEF n, S, w
    <3>2. Append(w, x) = [k \in 1..(Len(w) + 1) |-> IF k = Len(w) + 1 THEN x ELSE w[k]]
      BY <3>1, AppendIs
    <3>3. Append(w, x) = [k \in 1..(n + 1) |-> IF k = n + 1 THEN x ELSE w[k]]
      BY <3>1, <3>2
    <3>4. QED
      BY <3>3 DEF w
  <2>4. \A k \in 1..(n + 1) :
          Nth(d, Append(s, x), k) = IF k = n + 1 THEN x ELSE Of(d, s)[k]
    <3> SUFFICES ASSUME NEW k \in 1..(n + 1)
                 PROVE  Nth(d, Append(s, x), k) = IF k = n + 1 THEN x ELSE Of(d, s)[k]
      OBVIOUS
    <3>1. k \in 1..n \/ k = n + 1
      BY <1>1
    <3>2. CASE k \in 1..n
      BY <1>1, <1>2, <1>4, <3>2
    <3>3. CASE k = n + 1
      BY <1>3, <1>6, <3>3
    <3>4. QED
      BY <3>1, <3>2, <3>3
  <2> HIDE DEF n
  <2>5. QED
    BY <1>6, <2>1, <2>3, <2>4
<1>7. QED
  BY <1>5, <1>6

LEMMA OfNothing ==
    ASSUME NEW d
    PROVE  Of(d, << >>) = << >>
<1>1. Places(d, << >>) = {}
  BY DEF Places
<1>2. Cardinality(Places(d, << >>)) = 0
  BY <1>1, FS_EmptySet
<1>3. QED
  BY <1>2 DEF Of

-----------------------------------------------------------------------------
(* What the refinement needs of the reachable states besides their types:   *)
(* an output is registered once, and what is offered passed the filter.     *)
NamesApart(d) ==
    \A r, q \in 1..Len(registered[d]) : registered[d][r].name = registered[d][q].name => r = q

LogAllowed(d) == log[d] # << >> => log[d][Len(log[d])] \in Allowed

MapInv == \A d \in Dispatcher : NamesApart(d) /\ LogAllowed(d)

LEMMA NamesKept ==
    ASSUME TypeOK, [Next]_vars, NEW d \in Dispatcher, NamesApart(d)
    PROVE  NamesApart(d)'
<1>1. registered[d] \in Seq(Registered) /\ Len(registered[d]) \in Nat
  BY TypeParts DEF RegistryTyped
<1>2. CASE registered'[d] = registered[d]
  BY <1>2 DEF NamesApart
<1>3. CASE Drop(d)
  BY <1>3, DropHow DEF NamesApart
<1>4. ASSUME NEW o \in Output, AddListener(d, o)
      PROVE  NamesApart(d)'
  <2>1. registered'[d] = Append(registered[d], [name |-> o, dropped |-> 0])
    BY <1>4, AddHow DEF NewListener
  <2>2. \A r \in 1..Len(registered[d]) : registered[d][r].name # o
    BY <1>4 DEF AddListener, IsListener
  <2>3. /\ Len(registered'[d]) = Len(registered[d]) + 1
        /\ \A r \in 1..Len(registered[d]) : registered'[d][r] = registered[d][r]
        /\ registered'[d][Len(registered[d]) + 1].name = o
    BY <1>1, <2>1
  <2>4. \A r \in 1..(Len(registered[d]) + 1) : r \in 1..Len(registered[d]) \/ r = Len(registered[d]) + 1
    BY <1>1
  <2>5. QED
    BY <2>2, <2>3, <2>4 DEF NamesApart
<1>5. CASE Snapshot(d) \/ Forward(d) \/ Deliver(d)
  BY <1>2, <1>5 DEF Snapshot, Forward, Deliver, output
<1>6. QED
  BY <1>2, <1>3, <1>4, <1>5, OthersCounts DEF SameCounts

LEMMA ForwardHow ==
    ASSUME TypeOK, NEW d \in Dispatcher, Forward(d)
    PROVE  \E s \in expanded[d] :
             /\ s \in By(d, Allowed) /\ s \in Signal /\ s.Interface = d
             /\ IsNext(d, s) /\ Allow(Group[d], s)
             /\ expanded' = [expanded EXCEPT ![d] = @ \ {s}]
             /\ log'[d] = Append(log[d], s) /\ log'[d][Len(log'[d])] = s
             /\ Len(log'[d]) = Len(log[d]) + 1
             /\ \A i \in 1..Len(log[d]) : log'[d][i] = log[d][i]
             /\ \A e \in Dispatcher : e # d => log'[e] = log[e] /\ next'[e] = next[e]
             /\ next'[d] = 1
             /\ UNCHANGED <<input, done, msg, signals, listeners, output>>
<1>1. PICK s \in expanded[d] : /\ IsNext(d, s) /\ Allow(Group[d], s)
                               /\ expanded' = [expanded EXCEPT ![d] = @ \ {s}]
                               /\ log' = [log EXCEPT ![d] = Append(@, s)]
                               /\ next' = [next EXCEPT ![d] = 1]
                               /\ UNCHANGED <<input, done, msg, signals, listeners, output>>
  BY DEF Forward
<1>2. s \in By(d, Signal) /\ log[d] \in Seq(Signal) /\ log \in [Dispatcher -> Seq(Signal)]
      /\ next \in [Dispatcher -> Nat \ {0}]
  BY TypeParts DEF LoopTyped
<1>3. s \in Signal /\ s.Interface = d /\ s \in By(d, Allowed)
  BY <1>1, <1>2 DEF By, Allowed
<1>4. /\ log'[d] = Append(log[d], s) /\ next'[d] = 1
      /\ \A e \in Dispatcher : e # d => log'[e] = log[e] /\ next'[e] = next[e]
  BY <1>1, <1>2
<1>5. /\ Len(log'[d]) = Len(log[d]) + 1 /\ log'[d][Len(log'[d])] = s
      /\ \A i \in 1..Len(log[d]) : log'[d][i] = log[d][i]
  BY <1>2, <1>3, <1>4, Added
<1>6. QED
  BY <1>1, <1>3, <1>4, <1>5

LEMMA LogKept ==
    ASSUME TypeOK, [Next]_vars, NEW d \in Dispatcher, LogAllowed(d)
    PROVE  LogAllowed(d)'
<1>1. CASE log'[d] = log[d]
  BY <1>1 DEF LogAllowed, Allowed, Signal
<1>2. CASE Forward(d)
  <2>1. PICK s \in expanded[d] : s \in By(d, Allowed) /\ log'[d][Len(log'[d])] = s
    BY <1>2, ForwardHow
  <2>2. QED
    BY <2>1 DEF LogAllowed, By, Allowed, Signal
<1>3. CASE Snapshot(d) \/ Deliver(d) \/ Drop(d) \/ \E o \in Output : AddListener(d, o)
  BY <1>1, <1>3 DEF Snapshot, Deliver, Drop, AddListener, loop
<1>4. QED
  BY <1>1, <1>2, <1>3, OthersCounts DEF SameCounts

-----------------------------------------------------------------------------
(* The mapped state, and the abstract steps over it.                        *)
Got(d) == [o \in Output |-> Of(d, handled[o] \o channel[o])]

LEMMA FanoutStarts ==
    ASSUME NEW d \in Dispatcher, log[d] = << >>, Pending(d) = {},
           Got(d) = [o \in Output |-> << >>]
    PROVE  Fanout(d)!Init
BY DEF Fanout!Init, Got

LEMMA FanoutStutters ==
    ASSUME NEW d \in Dispatcher, log'[d] = log[d], Pending(d)' = Pending(d), Got(d)' = Got(d)
    PROVE  [Fanout(d)!Next]_(Fanout(d)!vars)
BY DEF Fanout!vars, Got

LEMMA FanoutPublishes ==
    ASSUME NEW d \in Dispatcher, NEW m \in By(d, Signal), Pending(d) = {},
           log'[d] = Append(log[d], m), Pending(d)' \in SUBSET Output, Got(d)' = Got(d)
    PROVE  [Fanout(d)!Next]_(Fanout(d)!vars)
<1>1. Fanout(d)!Publish(m, Pending(d)')
  BY DEF Fanout!Publish, Got
<1>2. QED
  BY <1>1 DEF Fanout!Next

LEMMA FanoutPasses ==
    ASSUME NEW d \in Dispatcher, NEW o \in Output, log'[d] = log[d],
           Pending(d)' = Pending(d) \ {o}, Got(d)' = Got(d)
    PROVE  [Fanout(d)!Next]_(Fanout(d)!vars)
<1>1. Fanout(d)!PassOver({o})
  BY DEF Fanout!PassOver, Got
<1>2. QED
  BY <1>1 DEF Fanout!Next

LEMMA FanoutDelivers ==
    ASSUME NEW d \in Dispatcher, NEW o \in Output, log'[d] = log[d], log[d] # << >>,
           log[d][Len(log[d])] \in By(d, Allowed), o \in Pending(d),
           Pending(d)' = Pending(d) \ {o},
           Got(d)' = [Got(d) EXCEPT ![o] = Append(@, log[d][Len(log[d])])]
    PROVE  [Fanout(d)!Next]_(Fanout(d)!vars)
<1>1. Fanout(d)!Deliver(o)
  BY DEF Fanout!Deliver, Got
<1>2. QED
  BY <1>1 DEF Fanout!Next

-----------------------------------------------------------------------------
(* What the steps do to the mapped state.                                   *)
LEMMA ConcatAppend ==
    ASSUME NEW S, NEW s \in Seq(S), NEW t \in Seq(S), NEW x \in S
    PROVE  s \o Append(t, x) = Append(s \o t, x) /\ s \o t \in Seq(S)
OBVIOUS

LEMMA TakeConcat ==
    ASSUME NEW S, NEW s \in Seq(S), NEW t \in Seq(S), t # << >>
    PROVE  Append(s, Head(t)) \o Tail(t) = s \o t
OBVIOUS

LEMMA GotSame ==
    ASSUME NEW d \in Dispatcher,
           \A o \in Output : handled'[o] \o channel'[o] = handled[o] \o channel[o]
    PROVE  Got(d)' = Got(d)
<1>1. [o \in Output |-> Of(d, handled'[o] \o channel'[o])]
        = [o \in Output |-> Of(d, handled[o] \o channel[o])]
  OBVIOUS
<1>2. QED
  BY <1>1 DEF Got, Of, Places, Nth

LEMMA GotPrime ==
    ASSUME NEW d \in Dispatcher
    PROVE  Got(d)' = [o \in Output |-> Of(d, handled'[o] \o channel'[o])]
BY DEF Got, Of, Places, Nth

(* A signal of e goes to o: d's signals there are the same, if d is another. *)
LEMMA GotDelivered ==
    ASSUME TypeOK, NEW e \in Dispatcher, Deliver(e), NEW d \in Dispatcher
    PROVE  Got(d)' = IF d = e
                     THEN [Got(d) EXCEPT ![registered[d][next[d]].name] = Append(@, Current(d))]
                     ELSE Got(d)
<1> DEFINE o == registered[e][next[e]].name
           x == Current(e)
<1>1. /\ o \in Output /\ x \in Signal /\ x.Interface = e
      /\ channel'[o] = Append(channel[o], x) /\ handled' = handled
      /\ \A p \in Output : p # o => channel'[p] = channel[p]
  BY OfferHow, DeliverHow DEF By
<1>2. channel \in [Output -> Seq(Signal)] /\ handled \in [Output -> Seq(Signal)]
  BY TypeParts DEF ChannelTyped
<1> HIDE DEF o, x
<1>3. /\ handled'[o] \o channel'[o] = Append(handled[o] \o channel[o], x)
      /\ handled[o] \o channel[o] \in Seq(Signal)
  <2>1. handled[o] \in Seq(Signal) /\ channel[o] \in Seq(Signal)
    BY <1>1, <1>2
  <2>2. QED
    <3>1. /\ handled[o] \o Append(channel[o], x) = Append(handled[o] \o channel[o], x)
          /\ handled[o] \o channel[o] \in Seq(Signal)
      <4>1. x \in Signal
        BY <1>1
      <4>2. QED
        BY <2>1, <4>1, ConcatAppend
    <3>2. QED
      BY <1>1, <3>1
<1>4. Of(d, handled'[o] \o channel'[o])
        = IF e = d THEN Append(Of(d, handled[o] \o channel[o]), x) ELSE Of(d, handled[o] \o channel[o])
  <2> DEFINE w == handled[o] \o channel[o]
  <2>1. w \in Seq(Signal) /\ handled'[o] \o channel'[o] = Append(w, x)
    BY <1>3
  <2>2. x \in Signal /\ x.Interface = e
    BY <1>1
  <2> HIDE DEF w
  <2>3. Of(d, Append(w, x)) = IF x.Interface = d THEN Append(Of(d, w), x) ELSE Of(d, w)
    BY <2>1, <2>2, OfAdded
  <2>4. QED
    BY <2>1, <2>2, <2>3 DEF w
<1>5. \A p \in Output : p # o => Of(d, handled'[p] \o channel'[p]) = Of(d, handled[p] \o channel[p])
  BY <1>1
<1>6. Got(d)' = [p \in Output |-> Of(d, handled'[p] \o channel'[p])]
  BY GotPrime
<1>7. Got(d) = [p \in Output |-> Of(d, handled[p] \o channel[p])]
  BY DEF Got
<1>8. CASE d = e
  <2>1. Got(d)' = [Got(d) EXCEPT ![o] = Append(@, x)]
    <3>1. Got(d)[o] = Of(d, handled[o] \o channel[o])
      BY <1>1, <1>7
    <3>2. \A p \in Output : Of(d, handled'[p] \o channel'[p])
                           = IF p = o THEN Append(Got(d)[o], x) ELSE Got(d)[p]
      BY <1>4, <1>5, <1>7, <1>8, <3>1
    <3>3. [Got(d) EXCEPT ![o] = Append(@, x)]
            = [p \in Output |-> IF p = o THEN Append(Got(d)[o], x) ELSE Got(d)[p]]
      BY <1>7
    <3>4. QED
      BY <1>6, <3>2, <3>3
  <2>2. QED
    BY <1>8, <2>1 DEF o, x
<1>9. CASE d # e
  BY <1>1, <1>4, <1>5, <1>6, <1>7, <1>9
<1>10. QED
  BY <1>8, <1>9

LEMMA PendingPrime ==
    ASSUME NEW d \in Dispatcher
    PROVE  Pending(d)' = {registered'[d][r].name : r \in next'[d]..listeners'[d]}
BY DEF Pending

LEMMA PendingIs ==
    ASSUME TypeOK, NEW d \in Dispatcher
    PROVE  /\ Pending(d) \subseteq Output
           /\ Offered(d) => Pending(d) = {}
           /\ next[d] <= listeners[d] => registered[d][next[d]].name \in Pending(d)
<1>1. /\ next[d] \in Nat \ {0} /\ listeners[d] \in Nat /\ listeners[d] <= Len(registered[d])
      /\ registered[d] \in Seq(Registered) /\ Len(registered[d]) \in Nat
  BY TypeParts DEF LoopTyped, RegistryTyped
<1>2. \A r \in next[d]..listeners[d] : r \in 1..Len(registered[d])
  BY <1>1
<1>3. \A r \in 1..Len(registered[d]) : registered[d][r] \in Registered
  BY <1>1
<1>4. Pending(d) \subseteq Output
  BY <1>2, <1>3, RegistrationIs DEF Pending
<1>5. ASSUME Offered(d)
      PROVE  Pending(d) = {}
  <2>1. next[d]..listeners[d] = {}
    BY <1>1, <1>5 DEF Offered
  <2>2. QED
    BY <2>1 DEF Pending
<1>6. next[d] <= listeners[d] => next[d] \in next[d]..listeners[d]
  BY <1>1
<1>7. QED
  BY <1>4, <1>5, <1>6 DEF Pending

LEMMA PendingSame ==
    ASSUME TypeOK, NEW d \in Dispatcher, next'[d] = next[d], listeners'[d] = listeners[d],
           \A r \in 1..Len(registered[d]) : registered'[d][r].name = registered[d][r].name
    PROVE  Pending(d)' = Pending(d)
<1>1. /\ next[d] \in Nat \ {0} /\ listeners[d] \in Nat /\ listeners[d] <= Len(registered[d])
      /\ Len(registered[d]) \in Nat
  BY TypeParts DEF LoopTyped, RegistryTyped
<1>2. \A r \in next[d]..listeners[d] : registered'[d][r].name = registered[d][r].name
  BY <1>1
<1>3. QED
  BY <1>2, PendingPrime DEF Pending

(* The turn of the listener next in line leaves the others pending. *)
LEMMA PendingOffered ==
    ASSUME TypeOK, NEW d \in Dispatcher, NamesApart(d), next[d] <= listeners[d],
           next'[d] = next[d] + 1, listeners'[d] = listeners[d],
           \A r \in 1..Len(registered[d]) : registered'[d][r].name = registered[d][r].name
    PROVE  Pending(d)' = Pending(d) \ {registered[d][next[d]].name}
<1> DEFINE name(r) == registered[d][r].name
           n == next[d]
           l == listeners[d]
<1>1. /\ n \in Nat \ {0} /\ l \in Nat /\ l <= Len(registered[d]) /\ n <= l
      /\ Len(registered[d]) \in Nat
  BY TypeParts DEF LoopTyped, RegistryTyped
<1>2. \A r \in n..l : registered'[d][r].name = name(r) /\ (r # n => name(r) # name(n))
  <2>1. \A r \in n..l : r \in 1..Len(registered[d])
    BY <1>1
  <2>2. QED
    BY <1>1, <2>1 DEF NamesApart
<1>3. Pending(d)' = {registered'[d][r].name : r \in (n + 1)..l}
  BY PendingPrime
<1>4. Pending(d) = {name(r) : r \in n..l}
  BY DEF Pending
<1>5. n..l = {n} \cup (n + 1)..l /\ (n + 1)..l \subseteq n..l /\ n \notin (n + 1)..l /\ n \in n..l
  BY <1>1
<1> HIDE DEF name, n, l
<1>6. Pending(d)' = {name(r) : r \in (n + 1)..l}
  BY <1>2, <1>3, <1>5
<1>7. {name(r) : r \in (n + 1)..l} = {name(r) : r \in n..l} \ {name(n)}
  BY <1>2, <1>5
<1>8. Pending(d)' = Pending(d) \ {name(n)}
  BY <1>4, <1>6, <1>7
<1>9. QED
  BY <1>8 DEF name, n

LEMMA PendingKept ==
    ASSUME NEW d \in Dispatcher, TypeOK'
    PROVE  Pending(d)' \in SUBSET Output
<1>1. /\ next'[d] \in Nat \ {0} /\ listeners'[d] \in Nat /\ listeners'[d] <= Len(registered'[d])
      /\ registered'[d] \in Seq(Registered) /\ Len(registered'[d]) \in Nat
  BY TypeParts DEF LoopTyped, RegistryTyped
<1>2. \A r \in next'[d]..listeners'[d] : registered'[d][r] \in Registered
  BY <1>1
<1>3. QED
  BY <1>2, PendingPrime, RegistrationIs

(* Every step of the program is a step of the fan-out of d, or a stutter. *)
LEMMA StepMaps ==
    ASSUME TypeOK, MapInv, [Next]_vars, NEW d \in Dispatcher
    PROVE  [Fanout(d)!Next]_(Fanout(d)!vars)
<1>1. NamesApart(d) /\ LogAllowed(d)
  BY DEF MapInv
<1>2. /\ listeners \in [Dispatcher -> Nat] /\ next \in [Dispatcher -> Nat \ {0}]
      /\ channel \in [Output -> Seq(Signal)] /\ handled \in [Output -> Seq(Signal)]
  BY TypeParts DEF LoopTyped, ChannelTyped
<1>3. CASE SameCounts(d) /\ UNCHANGED <<channel, handled>>
  <2>1. Pending(d)' = Pending(d)
    BY <1>3, PendingSame DEF SameCounts
  <2>2. Got(d)' = Got(d)
    BY <1>3, GotSame
  <2>3. QED
    BY <1>3, <2>1, <2>2, FanoutStutters DEF SameCounts
<1>4. CASE Snapshot(d)
  <2>1. /\ Offered(d) /\ log' = log /\ listeners'[d] = Len(registered[d])
        /\ next'[d] = Len(registered[d]) + 1 /\ UNCHANGED <<channel, handled>>
    BY <1>2, <1>4 DEF Snapshot
  <2>2. Pending(d)' = {}
    <3>1. Len(registered[d]) \in Nat
      BY TypeParts DEF RegistryTyped
    <3>2. next'[d]..listeners'[d] = {}
      BY <2>1, <3>1
    <3>3. QED
      BY <3>2, PendingPrime
  <2>3. Pending(d) = {} /\ Got(d)' = Got(d)
    BY <2>1, PendingIs, GotSame
  <2>4. QED
    BY <2>1, <2>2, <2>3, FanoutStutters
<1>5. CASE Forward(d)
  <2>1. PICK s \in expanded[d] : /\ s \in By(d, Allowed) /\ s \in Signal /\ s.Interface = d
                                 /\ IsNext(d, s) /\ log'[d] = Append(log[d], s)
                                 /\ UNCHANGED <<channel, handled>>
    BY <1>5, ForwardHow DEF output
  <2>2. Pending(d) = {} /\ Got(d)' = Got(d) /\ s \in By(d, Signal)
    BY <2>1, PendingIs, GotSame DEF IsNext, By
  <2>3. Pending(d)' \in SUBSET Output
    <3>1. TypeOK'
      BY InputKept, LoopKept, OutputKept, TypeParts
    <3>2. QED
      BY <3>1, PendingKept
  <2>4. QED
    BY <2>1, <2>2, <2>3, FanoutPublishes
<1>6. CASE Deliver(d)
  <2>1. /\ next[d] <= listeners[d] /\ next'[d] = next[d] + 1 /\ listeners' = listeners
        /\ log' = log /\ registered' = registered /\ registered[d][next[d]].name \in Output
    BY <1>6, OfferHow, DeliverHow
  <2>2. Pending(d)' = Pending(d) \ {registered[d][next[d]].name}
    BY <1>1, <2>1, PendingOffered
  <2>3. registered[d][next[d]].name \in Pending(d)
    BY <2>1, PendingIs
  <2>4. Got(d)' = [Got(d) EXCEPT ![registered[d][next[d]].name] = Append(@, Current(d))]
    BY <1>6, GotDelivered
  <2>5. log[d] # << >> /\ Current(d) \in By(d, Allowed) /\ Current(d) = log[d][Len(log[d])]
    <3>1. log[d] # << >>
      BY <2>1, TypeParts DEF LoopTyped
    <3>2. Current(d) \in Allowed
      BY <1>1, <3>1 DEF LogAllowed, Current
    <3>3. QED
      BY <1>6, <3>1, <3>2, OfferHow DEF By, Current
  <2>6. QED
    BY <2>1, <2>2, <2>3, <2>4, <2>5, FanoutDelivers
<1>7. CASE Drop(d)
  <2>1. /\ next[d] <= listeners[d] /\ next'[d] = next[d] + 1 /\ listeners' = listeners
        /\ log' = log /\ UNCHANGED <<channel, handled>> /\ registered[d][next[d]].name \in Output
        /\ \A r \in 1..Len(registered[d]) : registered'[d][r].name = registered[d][r].name
    BY <1>7, OfferHow, DropHow
  <2>2. Pending(d)' = Pending(d) \ {registered[d][next[d]].name} /\ Got(d)' = Got(d)
    BY <1>1, <2>1, PendingOffered, GotSame
  <2>3. QED
    BY <2>1, <2>2, FanoutPasses
<1>8. ASSUME NEW o \in Output, AddListener(d, o)
      PROVE  [Fanout(d)!Next]_(Fanout(d)!vars)
  <2>1. /\ registered'[d] = Append(registered[d], [name |-> o, dropped |-> 0])
        /\ UNCHANGED <<listeners, next, log, channel, handled>>
    BY <1>8, AddHow DEF NewListener, loop
  <2>2. registered[d] \in Seq(Registered)
    BY TypeParts DEF RegistryTyped
  <2>3. \A r \in 1..Len(registered[d]) : registered'[d][r].name = registered[d][r].name
    BY <2>1, <2>2
  <2>4. Pending(d)' = Pending(d) /\ Got(d)' = Got(d)
    BY <2>1, <2>3, PendingSame, GotSame
  <2>5. QED
    BY <2>1, <2>4, FanoutStutters
<1>9. ASSUME NEW o \in Output, Handle(o)
      PROVE  [Fanout(d)!Next]_(Fanout(d)!vars)
  <2>1. /\ channel[o] # << >> /\ channel'[o] = Tail(channel[o])
        /\ handled'[o] = Append(handled[o], Head(channel[o]))
        /\ \A p \in Output : p # o => channel'[p] = channel[p] /\ handled'[p] = handled[p]
        /\ UNCHANGED <<listeners, next, log, registered>>
    BY <1>9, HandleHow DEF loop
  <2>2. handled'[o] \o channel'[o] = handled[o] \o channel[o]
    <3>1. handled[o] \in Seq(Signal) /\ channel[o] \in Seq(Signal)
      BY <1>2
    <3>2. QED
      BY <2>1, <3>1, TakeConcat
  <2>3. Got(d)' = Got(d)
    BY <2>1, <2>2, GotSame
  <2>4. Pending(d)' = Pending(d)
    BY <2>1, PendingSame
  <2>5. QED
    BY <2>1, <2>3, <2>4, FanoutStutters
<1>10. ASSUME NEW e \in Dispatcher, e # d, Deliver(e)
       PROVE  [Fanout(d)!Next]_(Fanout(d)!vars)
  <2>1. /\ next'[d] = next[d] /\ UNCHANGED <<listeners, log, registered>>
    BY <1>10, OfferHow, DeliverHow
  <2>2. Got(d)' = Got(d)
    BY <1>10, GotDelivered
  <2>3. Pending(d)' = Pending(d)
    BY <2>1, PendingSame
  <2>4. QED
    BY <2>1, <2>2, <2>3, FanoutStutters
<1>11. \/ UNCHANGED <<channel, handled>>
       \/ \E e \in Dispatcher : Deliver(e)
       \/ \E o \in Output : Handle(o)
  BY NextCases, QuietHow DEF Snapshot, Drop, AddListener
<1>12. QED
  BY <1>3, <1>4, <1>5, <1>6, <1>7, <1>8, <1>9, <1>10, <1>11, OthersCounts

LEMMA StartMaps ==
    ASSUME Init, NEW d \in Dispatcher
    PROVE  Fanout(d)!Init
<1>1. TypeOK
  BY InitTyped
<1>2. log[d] = << >> /\ Pending(d) = {}
  <2>1. Offered(d)
    BY DEF Init, Offered
  <2>2. QED
    BY <1>1, <2>1, PendingIs DEF Init
<1>3. Got(d) = [o \in Output |-> << >>]
  <2>1. \A o \in Output : handled[o] \o channel[o] = << >>
    BY DEF Init
  <2>2. QED
    BY <2>1, OfNothing DEF Got
<1>4. QED
  BY <1>2, <1>3, FanoutStarts

LEMMA MapKept == TypeOK /\ MapInv /\ [Next]_vars => MapInv'
<1> SUFFICES ASSUME TypeOK, MapInv, [Next]_vars, NEW d \in Dispatcher
             PROVE  NamesApart(d)' /\ LogAllowed(d)'
  BY DEF MapInv
<1>1. NamesApart(d) /\ LogAllowed(d)
  BY DEF MapInv
<1>2. QED
  BY <1>1, NamesKept, LogKept

(***************************************************************************)
(* Every dispatcher is a lossy fan-out of its own signals, however many    *)
(* dispatchers share the outputs' channels and whatever their capacity: an *)
(* output gets of each dispatcher's signals some, in order, each at most   *)
(* once, and none that its filter rejects.                                 *)
(***************************************************************************)
THEOREM SignalFanout == Spec => ImplementsLossyFanout
<1>1. Init => MapInv
  BY DEF Init, MapInv, NamesApart, LogAllowed
<1>2. TypeOK /\ MapInv /\ [Next]_vars => MapInv'
  BY MapKept
<1>3. Init => \A d \in Dispatcher : Fanout(d)!Init
  BY StartMaps
<1>4. TypeOK /\ MapInv /\ [Next]_vars
        => [\A d \in Dispatcher : [Fanout(d)!Next]_(Fanout(d)!vars)]_vars
  BY StepMaps
<1>5. QED
  BY <1>1, <1>2, <1>3, <1>4, SignalTypes, PTL DEF Spec, ImplementsLossyFanout

-----------------------------------------------------------------------------
(* The promise of LossyFanout, carried over by the refinement, for any one  *)
(* of the dispatchers.                                                      *)
CONSTANT AnyDispatcher

Promise == INSTANCE LossyFanout_proofs WITH
               Listener <- Output, Msg <- By(AnyDispatcher, Signal), log <- log[AnyDispatcher],
               Wants <- [o \in Output |-> By(AnyDispatcher, Allowed)],
               pending <- Pending(AnyDispatcher),
               got <- [o \in Output |-> Of(AnyDispatcher, handled[o] \o channel[o])]

DeliveredInOrder(d) ==
    \A o \in Output :
        LET got == Of(d, handled[o] \o channel[o])
        IN  /\ \E f \in [1..Len(got) -> 1..Len(log[d])] :
                 /\ \A i \in 1..Len(got) : got[i] = log[d][f[i]]
                 /\ \A i, j \in 1..Len(got) : i < j => f[i] < f[j]
            /\ \A i \in 1..Len(got) : got[i] \in Allowed

(***************************************************************************)
(* Of one dispatcher's signals an output is given a subsequence of what    *)
(* that dispatcher forwarded, all of it past its filter, however the sends *)
(* of the dispatchers interleave in the output's channel.                  *)
(***************************************************************************)
THEOREM SignalsInOrder ==
    ASSUME AnyDispatcher \in Dispatcher
    PROVE  Spec => []DeliveredInOrder(AnyDispatcher)
<1> DEFINE d == AnyDispatcher
<1>1. Init => Promise!Init
  <2>1. Init => Fanout(d)!Init
    BY StartMaps
  <2>2. Fanout(d)!Init => Promise!Init
    BY DEF Fanout!Init, Promise!Init
  <2>3. QED
    BY <2>1, <2>2
<1>2. TypeOK /\ MapInv /\ [Next]_vars => [Promise!Next]_(Promise!vars)
  <2>1. TypeOK /\ MapInv /\ [Next]_vars => [Fanout(d)!Next]_(Fanout(d)!vars)
    BY StepMaps
  <2>2. [Fanout(d)!Next]_(Fanout(d)!vars) => [Promise!Next]_(Promise!vars)
    BY DEF Fanout!Next, Fanout!vars, Fanout!Publish, Fanout!PassOver, Fanout!Deliver,
           Promise!Next, Promise!vars, Promise!Publish, Promise!PassOver, Promise!Deliver
  <2>3. QED
    BY <2>1, <2>2
<1>3. Promise!InOrder => DeliveredInOrder(d)
  BY DEF Promise!InOrder, Promise!IsSubsequence, Promise!Embeds, DeliveredInOrder, By
<1>4. Promise!Spec => []Promise!InOrder
  BY Promise!FanoutInOrder
<1>5. Init => MapInv
  BY DEF Init, MapInv, NamesApart, LogAllowed
<1>6. TypeOK /\ MapInv /\ [Next]_vars => MapInv'
  BY MapKept
<1>7. QED
  BY <1>1, <1>2, <1>3, <1>4, <1>5, <1>6, SignalTypes, PTL DEF Spec, Promise!Spec

-----------------------------------------------------------------------------
(* The invariant of ForwardsWhatItDecodes, for one dispatcher.              *)

(* What is in the channel is what was sent and not yet taken. *)
QueueFollows(d) == \A i \in 1..Len(inChannel[d]) : inChannel[d][i] = fed[d][msg[d] + i]

(* s is from the first n messages of q; is left of the expansion x and the  *)
(* signals ss; is in the log l.                                             *)
Decoded(d, q, n, s) ==
    \E m \in 1..n : \E i \in 1..Len(Parse[d][q[m]]) : s \in Expanded(Signals(d, m, q[m])[i])

Left(x, ss, s) == s \in x \/ \E i \in 1..Len(ss) : s \in Expanded(ss[i])

Forwarded(l, s) == \E i \in 1..Len(l) : l[i] = s

(* What is left or forwarded was decoded, and an allowed one is either. *)
Covered(d, q, n, x, ss, l) ==
    \A s \in Signal :
        /\ Left(x, ss, s) => Decoded(d, q, n, s)
        /\ Forwarded(l, s) => Decoded(d, q, n, s) /\ Allow(Group[d], s)
        /\ Decoded(d, q, n, s) /\ Allow(Group[d], s) => Left(x, ss, s) \/ Forwarded(l, s)

NothingLost(d) == Covered(d, fed[d], msg[d], expanded[d], signals[d], log[d])

(* What is left is of the current message, in order of its parts, and only  *)
(* the PID tells the rest of an expansion apart.                            *)
IsLeft(n, x, ss) ==
    /\ \A i \in 1..Len(ss) : ss[i].Timestamp = n
    /\ \A i, j \in 1..Len(ss) : i < j => ss[i].part < ss[j].part
    /\ \A s \in x :
          /\ s.Timestamp = n /\ s.Signal \notin DOMAIN PidsSupported
          /\ \A i \in 1..Len(ss) : s.part < ss[i].part
          /\ \A t \in x : s.part = t.part /\ (s.pid = t.pid => s = t)

LeftSorted(d) == IsLeft(msg[d], expanded[d], signals[d])

(* What was forwarded is sorted and comes before all that is left. *)
IsLog(n, x, ss, l) ==
    /\ \A i, j \in 1..Len(l) : i < j => Before(l[i], l[j])
    /\ \A i \in 1..Len(l) :
          /\ l[i].Signal \notin DOMAIN PidsSupported
          /\ l[i].Timestamp <= n
          /\ \A s \in x : Before(l[i], s)
          /\ \A j \in 1..Len(ss) : l[i].Timestamp < n \/ l[i].part < ss[j].part

LogSorted(d) == IsLog(msg[d], expanded[d], signals[d], log[d])

DecodeInv ==
    \A d \in Dispatcher : QueueFollows(d) /\ NothingLost(d) /\ LeftSorted(d) /\ LogSorted(d)

(* What the steps do to what one dispatcher decodes. *)
SameDecode(d) ==
    /\ fed'[d] = fed[d] /\ inChannel'[d] = inChannel[d] /\ msg'[d] = msg[d]
    /\ signals'[d] = signals[d] /\ expanded'[d] = expanded[d] /\ log'[d] = log[d]

FeedStep(d) ==
    \E f \in Frame(d) :
        /\ fed'[d] = Append(fed[d], f) /\ inChannel'[d] = Append(inChannel[d], f)
        /\ msg'[d] = msg[d]
        /\ signals'[d] = signals[d] /\ expanded'[d] = expanded[d] /\ log'[d] = log[d]

ReceiveStep(d) ==
    /\ inChannel[d] # << >> /\ expanded[d] = {} /\ signals[d] = << >>
    /\ inChannel'[d] = Tail(inChannel[d]) /\ msg'[d] = msg[d] + 1
    /\ signals'[d] = Signals(d, msg[d] + 1, Head(inChannel[d]))
    /\ fed'[d] = fed[d] /\ expanded'[d] = expanded[d] /\ log'[d] = log[d]

SnapshotStep(d) ==
    /\ expanded[d] = {} /\ signals[d] # << >>
    /\ signals'[d] = Tail(signals[d]) /\ expanded'[d] = Expanded(Head(signals[d]))
    /\ fed'[d] = fed[d] /\ inChannel'[d] = inChannel[d] /\ msg'[d] = msg[d] /\ log'[d] = log[d]

RejectStep(d) ==
    \E s \in expanded[d] :
        /\ ~ Allow(Group[d], s) /\ expanded'[d] = expanded[d] \ {s}
        /\ fed'[d] = fed[d] /\ inChannel'[d] = inChannel[d] /\ msg'[d] = msg[d]
        /\ signals'[d] = signals[d] /\ log'[d] = log[d]

ForwardStep(d) ==
    \E s \in expanded[d] :
        /\ s \in Signal /\ Allow(Group[d], s) /\ \A t \in expanded[d] : s.pid <= t.pid
        /\ expanded'[d] = expanded[d] \ {s} /\ log'[d] = Append(log[d], s)
        /\ fed'[d] = fed[d] /\ inChannel'[d] = inChannel[d] /\ msg'[d] = msg[d]
        /\ signals'[d] = signals[d]

LEMMA DecodeSteps ==
    ASSUME TypeOK, [Next]_vars, NEW d \in Dispatcher
    PROVE  \/ SameDecode(d) \/ FeedStep(d) \/ ReceiveStep(d) \/ SnapshotStep(d)
           \/ RejectStep(d) \/ ForwardStep(d)
<1> DEFINE Goal == \/ SameDecode(d) \/ FeedStep(d) \/ ReceiveStep(d) \/ SnapshotStep(d)
                   \/ RejectStep(d) \/ ForwardStep(d)
<1>1. /\ fed \in [Dispatcher -> Seq(AnyFrame)] /\ inChannel \in [Dispatcher -> Seq(AnyFrame)]
      /\ msg \in [Dispatcher -> 0..MaxSent] /\ signals \in [Dispatcher -> Seq(Raw)]
      /\ expanded \in [Dispatcher -> SUBSET Signal] /\ log \in [Dispatcher -> Seq(Signal)]
  BY TypeParts DEF InputTyped, LoopTyped
<1>2. CASE UNCHANGED <<fed, inChannel, msg, signals, expanded, log>>
  BY <1>2 DEF SameDecode
<1>3. ASSUME NEW e \in Dispatcher, CloseInput(e) \/ End(e) \/ Deliver(e) \/ Drop(e)
      PROVE  UNCHANGED <<fed, inChannel, msg, signals, expanded, log>>
  BY <1>3 DEF CloseInput, End, Deliver, Drop, input, loop
<1>4. CASE Others
  BY <1>2, <1>4 DEF Others, AddListener, Handle, input, loop, vars
<1>5. ASSUME NEW e \in Dispatcher, Feed(e)
      PROVE  Goal
  <2>1. PICK f \in Frame(e) : /\ fed' = [fed EXCEPT ![e] = Append(@, f)]
                              /\ inChannel' = [inChannel EXCEPT ![e] = Append(@, f)]
                              /\ UNCHANGED <<msg, signals, expanded, log>>
    BY <1>5 DEF Feed, loop
  <2>2. CASE e = d
    BY <1>1, <2>1, <2>2 DEF FeedStep
  <2>3. CASE e # d
    BY <1>1, <2>1, <2>3 DEF SameDecode
  <2>4. QED
    BY <2>2, <2>3
<1>6. ASSUME NEW e \in Dispatcher, Receive(e)
      PROVE  Goal
  <2>1. /\ inChannel[e] # << >> /\ expanded[e] = {} /\ signals[e] = << >>
        /\ inChannel' = [inChannel EXCEPT ![e] = Tail(@)]
        /\ msg' = [msg EXCEPT ![e] = @ + 1]
        /\ signals' = [signals EXCEPT ![e] = Signals(e, msg[e] + 1, Head(inChannel[e]))]
        /\ UNCHANGED <<fed, expanded, log>>
    BY <1>6 DEF Receive, Idle
  <2>2. CASE e = d
    BY <1>1, <2>1, <2>2 DEF ReceiveStep
  <2>3. CASE e # d
    BY <1>1, <2>1, <2>3 DEF SameDecode
  <2>4. QED
    BY <2>2, <2>3
<1>7. ASSUME NEW e \in Dispatcher, Snapshot(e)
      PROVE  Goal
  <2>1. /\ expanded[e] = {} /\ signals[e] # << >>
        /\ signals' = [signals EXCEPT ![e] = Tail(@)]
        /\ expanded' = [expanded EXCEPT ![e] = Expanded(Head(signals[e]))]
        /\ UNCHANGED <<fed, inChannel, msg, log>>
    BY <1>7 DEF Snapshot, input
  <2>2. CASE e = d
    BY <1>1, <2>1, <2>2 DEF SnapshotStep
  <2>3. CASE e # d
    BY <1>1, <2>1, <2>3 DEF SameDecode
  <2>4. QED
    BY <2>2, <2>3
<1>8. ASSUME NEW e \in Dispatcher, Reject(e)
      PROVE  Goal
  <2>1. PICK s \in expanded[e] : /\ ~ Allow(Group[e], s)
                                 /\ expanded' = [expanded EXCEPT ![e] = @ \ {s}]
                                 /\ UNCHANGED <<fed, inChannel, msg, signals, log>>
    BY <1>8 DEF Reject, input
  <2>2. CASE e = d
    BY <1>1, <2>1, <2>2 DEF RejectStep
  <2>3. CASE e # d
    BY <1>1, <2>1, <2>3 DEF SameDecode
  <2>4. QED
    BY <2>2, <2>3
<1>9. ASSUME NEW e \in Dispatcher, Forward(e)
      PROVE  Goal
  <2>1. PICK s \in expanded[e] : /\ s \in Signal /\ IsNext(e, s) /\ Allow(Group[e], s)
                                 /\ expanded' = [expanded EXCEPT ![e] = @ \ {s}]
                                 /\ log'[e] = Append(log[e], s)
                                 /\ \A c \in Dispatcher : c # e => log'[c] = log[c]
                                 /\ UNCHANGED <<fed, inChannel, msg, signals>>
    BY <1>9, ForwardHow DEF input
  <2>2. CASE e = d
    BY <1>1, <2>1, <2>2 DEF ForwardStep, IsNext
  <2>3. CASE e # d
    BY <1>1, <2>1, <2>3 DEF SameDecode
  <2>4. QED
    BY <2>2, <2>3
<1> HIDE DEF Goal
<1>10. Goal
  BY <1>2, <1>3, <1>4, <1>5, <1>6, <1>7, <1>8, <1>9 DEF Next, Step, Others, Goal
<1>11. QED
  BY <1>10 DEF Goal

LEMMA QueueKept ==
    ASSUME TypeOK, [Next]_vars, NEW d \in Dispatcher, QueueFollows(d)
    PROVE  QueueFollows(d)'
<1>1. /\ fed[d] \in Seq(Frame(d)) /\ inChannel[d] \in Seq(Frame(d)) /\ msg[d] \in Nat
      /\ msg[d] + Len(inChannel[d]) = Len(fed[d]) /\ Len(inChannel[d]) \in Nat /\ Len(fed[d]) \in Nat
  BY TypeParts DEF InputTyped
<1> DEFINE k == Len(inChannel[d])
           m == msg[d]
           l == Len(fed[d])
<1>6. k \in Nat /\ m \in Nat /\ l \in Nat /\ m + k = l
  BY <1>1
<1>2. CASE fed'[d] = fed[d] /\ inChannel'[d] = inChannel[d] /\ msg'[d] = msg[d]
  BY <1>2 DEF QueueFollows
<1>3. CASE FeedStep(d)
  <2>1. PICK f \in Frame(d) : /\ fed'[d] = Append(fed[d], f) /\ msg'[d] = msg[d]
                              /\ inChannel'[d] = Append(inChannel[d], f)
    BY <1>3 DEF FeedStep
  <2>2. /\ Len(inChannel'[d]) = Len(inChannel[d]) + 1
        /\ \A i \in 1..Len(inChannel[d]) : inChannel'[d][i] = inChannel[d][i]
        /\ inChannel'[d][Len(inChannel[d]) + 1] = f
        /\ \A i \in 1..Len(fed[d]) : fed'[d][i] = fed[d][i]
        /\ fed'[d][Len(fed[d]) + 1] = f
    BY <1>1, <2>1, Added
  <2>3. ASSUME NEW i \in 1..Len(inChannel'[d])
        PROVE  inChannel'[d][i] = fed'[d][msg[d] + i]
    <3>1. CASE i \in 1..Len(inChannel[d])
      <4>1. m + i \in 1..l
        <5> HIDE DEF m, l
        <5>1. i \in 1..k
          BY <3>1
        <5> HIDE DEF k
        <5>2. QED
          BY <1>6, <5>1
      <4>2. QED
        BY <2>2, <3>1, <4>1 DEF QueueFollows
    <3>2. CASE i = Len(inChannel[d]) + 1
      <4>1. m + i = l + 1
        <5> HIDE DEF m, l
        <5>1. i = k + 1
          BY <3>2
        <5> HIDE DEF k
        <5>2. QED
          BY <1>6, <5>1
      <4>2. QED
        BY <2>2, <3>2, <4>1
    <3>3. i \in 1..(Len(inChannel[d]) + 1)
      BY <2>2, <2>3
    <3>4. i \in 1..k \/ i = k + 1
      <4>1. i \in 1..(k + 1)
        BY <3>3
      <4> HIDE DEF k
      <4>2. QED
        BY <1>6, <4>1
    <3>5. QED
      BY <3>1, <3>2, <3>4
  <2>4. QED
    BY <2>1, <2>3 DEF QueueFollows
<1>4. CASE ReceiveStep(d)
  <2>1. /\ Len(inChannel'[d]) = Len(inChannel[d]) - 1
        /\ \A i \in 1..Len(inChannel'[d]) : inChannel'[d][i] = inChannel[d][i + 1]
        /\ fed'[d] = fed[d] /\ msg'[d] = msg[d] + 1
    BY <1>1, <1>4, Rest DEF ReceiveStep
  <2>2. ASSUME NEW i \in 1..Len(inChannel'[d])
        PROVE  inChannel'[d][i] = fed[d][msg[d] + 1 + i]
    <3>1. i + 1 \in 1..k /\ m + (i + 1) = m + 1 + i
      <4>1. i \in 1..(k - 1)
        BY <2>1, <2>2
      <4> HIDE DEF k, m
      <4>2. QED
        BY <1>6, <4>1
    <3>2. QED
      BY <2>1, <3>1 DEF QueueFollows
  <2>3. QED
    BY <2>1, <2>2 DEF QueueFollows
<1>5. QED
  BY <1>2, <1>3, <1>4, DecodeSteps DEF SameDecode, SnapshotStep, RejectStep, ForwardStep

(* NothingLost: how the sets of signals change. *)
LEMMA DecodedMore ==
    ASSUME NEW d \in Dispatcher, NEW q, NEW n \in Nat, NEW s
    PROVE  Decoded(d, q, n + 1, s)
             <=> \/ Decoded(d, q, n, s)
                 \/ \E i \in 1..Len(Parse[d][q[n + 1]]) :
                      s \in Expanded(Signals(d, n + 1, q[n + 1])[i])
<1>1. 1..(n + 1) = (1..n) \cup {n + 1}
  OBVIOUS
<1>2. QED
  BY <1>1 DEF Decoded

LEMMA DecodedFed ==
    ASSUME NEW d \in Dispatcher, NEW q \in Seq(Frame(d)), NEW f \in Frame(d),
           NEW n \in Nat, n <= Len(q), NEW s
    PROVE  Decoded(d, Append(q, f), n, s) <=> Decoded(d, q, n, s)
<1>1. \A m \in 1..n : m \in 1..Len(q)
  OBVIOUS
<1>2. \A m \in 1..n : Append(q, f)[m] = q[m]
  BY <1>1, Added
<1>3. QED
  BY <1>2 DEF Decoded

LEMMA LeftDecodes ==
    ASSUME NEW d \in Dispatcher, NEW n \in 1..MaxSent, NEW f \in Frame(d), NEW s
    PROVE  Left({}, Signals(d, n, f), s)
             <=> \E i \in 1..Len(Parse[d][f]) : s \in Expanded(Signals(d, n, f)[i])
BY SignalsAre DEF Left

LEMMA LeftNothing ==
    ASSUME NEW s
    PROVE  ~ Left({}, << >>, s)
BY DEF Left

LEMMA LeftTaken ==
    ASSUME NEW ss \in Seq(Raw), ss # << >>, NEW s
    PROVE  Left(Expanded(Head(ss)), Tail(ss), s) <=> Left({}, ss, s)
<1> DEFINE k == Len(Tail(ss))
<1>1. /\ Head(ss) = ss[1] /\ k \in Nat /\ Len(ss) = k + 1
      /\ \A i \in 1..k : Tail(ss)[i] = ss[i + 1]
  BY Rest
<1>2. Left(Expanded(Head(ss)), Tail(ss), s)
        <=> s \in Expanded(ss[1]) \/ \E i \in 1..k : s \in Expanded(ss[i + 1])
  BY <1>1 DEF Left
<1>3. Left({}, ss, s) <=> \E i \in 1..(k + 1) : s \in Expanded(ss[i])
  BY <1>1 DEF Left
<1> HIDE DEF k
<1>4. ASSUME NEW i \in 1..(k + 1), s \in Expanded(ss[i]), i # 1
      PROVE  \E j \in 1..k : s \in Expanded(ss[j + 1])
  <2>1. i - 1 \in 1..k /\ (i - 1) + 1 = i
    BY <1>1, <1>4
  <2>2. QED
    BY <1>4, <2>1
<1>5. ASSUME NEW j \in 1..k, s \in Expanded(ss[j + 1])
      PROVE  \E i \in 1..(k + 1) : s \in Expanded(ss[i])
  <2>1. j + 1 \in 1..(k + 1)
    BY <1>1
  <2>2. QED
    BY <1>5, <2>1
<1>6. 1 \in 1..(k + 1)
  BY <1>1
<1>7. QED
  BY <1>2, <1>3, <1>4, <1>5, <1>6

LEMMA LeftLess ==
    ASSUME NEW x, NEW ss, NEW t, NEW s
    PROVE  /\ Left(x \ {t}, ss, s) => Left(x, ss, s)
           /\ Left(x, ss, s) => Left(x \ {t}, ss, s) \/ s = t
           /\ t \in x => Left(x, ss, t)
BY DEF Left

LEMMA ForwardedMore ==
    ASSUME NEW l \in Seq(Signal), NEW t \in Signal, NEW s
    PROVE  Forwarded(Append(l, t), s) <=> Forwarded(l, s) \/ s = t
<1> DEFINE k == Len(l)
<1>1. /\ k \in Nat /\ Len(Append(l, t)) = k + 1 /\ Append(l, t)[k + 1] = t
      /\ \A i \in 1..k : Append(l, t)[i] = l[i]
  BY Added
<1> HIDE DEF k
<1>2. 1..(k + 1) = (1..k) \cup {k + 1}
  BY <1>1
<1>3. Forwarded(Append(l, t), s) <=> \E i \in (1..k) \cup {k + 1} : Append(l, t)[i] = s
  BY <1>1, <1>2 DEF Forwarded
<1>4. Forwarded(l, s) <=> \E i \in 1..k : l[i] = s
  BY DEF Forwarded, k
<1>5. QED
  BY <1>1, <1>3, <1>4

LEMMA NothingLostKept ==
    ASSUME TypeOK, [Next]_vars, NEW d \in Dispatcher, QueueFollows(d), NothingLost(d)
    PROVE  NothingLost(d)'
<1>1. /\ fed[d] \in Seq(Frame(d)) /\ inChannel[d] \in Seq(Frame(d)) /\ msg[d] \in Nat
      /\ msg[d] + Len(inChannel[d]) = Len(fed[d]) /\ Len(inChannel[d]) \in Nat
      /\ Len(fed[d]) \in Nat /\ Len(fed[d]) <= MaxSent
      /\ signals[d] \in Seq(Raw) /\ expanded[d] \subseteq Signal /\ log[d] \in Seq(Signal)
  BY TypeParts DEF InputTyped, LoopTyped
<1> DEFINE Was == Covered(d, fed[d], msg[d], expanded[d], signals[d], log[d])
           Is == Covered(d, fed'[d], msg'[d], expanded'[d], signals'[d], log'[d])
<1>2. Was /\ (Is => NothingLost(d)')
  BY DEF NothingLost, Covered, Decoded, Left, Forwarded
<1> HIDE DEF Was, Is
<1>3. CASE SameDecode(d)
  BY <1>2, <1>3 DEF SameDecode, Was, Is
<1>4. CASE FeedStep(d)
  <2>1. PICK f \in Frame(d) : fed'[d] = Append(fed[d], f)
    BY <1>4 DEF FeedStep
  <2>2. msg'[d] = msg[d] /\ expanded'[d] = expanded[d] /\ signals'[d] = signals[d] /\ log'[d] = log[d]
    BY <1>4 DEF FeedStep
  <2>3. msg[d] <= Len(fed[d])
    BY <1>1
  <2>4. \A s : Decoded(d, fed'[d], msg'[d], s) <=> Decoded(d, fed[d], msg[d], s)
    BY <1>1, <2>1, <2>2, <2>3, DecodedFed
  <2>5. Is
    BY <1>2, <2>2, <2>4 DEF Was, Is, Covered
  <2>6. QED
    BY <1>2, <2>5
<1>5. CASE ReceiveStep(d)
  <2> DEFINE f == Head(inChannel[d])
             n == msg[d] + 1
  <2>1. /\ inChannel[d] # << >> /\ msg'[d] = n /\ fed'[d] = fed[d] /\ expanded[d] = {}
        /\ signals[d] = << >> /\ expanded'[d] = {} /\ log'[d] = log[d]
        /\ signals'[d] = Signals(d, n, f)
    BY <1>5 DEF ReceiveStep
  <2>2. Len(inChannel[d]) \in Nat \ {0} /\ f = inChannel[d][1] /\ f \in Frame(d)
    BY <1>1, <2>1, Rest
  <2>3. f = fed[d][n] /\ n \in 1..MaxSent
    <3>1. 1 \in 1..Len(inChannel[d])
      BY <2>2
    <3>2. f = fed[d][n]
      BY <2>2, <3>1 DEF QueueFollows
    <3>3. n \in 1..MaxSent
      <4>1. msg[d] + Len(inChannel[d]) <= MaxSent
        BY <1>1
      <4>2. msg[d] \in Nat /\ MaxSent \in Nat /\ Len(inChannel[d]) \in Nat \ {0}
        BY <1>1, <2>2, Bounds
      <4>3. QED
        BY <4>1, <4>2
    <3>4. QED
      BY <3>2, <3>3
  <2> HIDE DEF f
  <2>4. ASSUME NEW s
        PROVE  /\ Decoded(d, fed[d], n, s)
                    <=> Decoded(d, fed[d], msg[d], s) \/ Left({}, Signals(d, n, f), s)
               /\ ~ Left(expanded[d], signals[d], s)
    <3>1. Left({}, Signals(d, n, f), s)
            <=> \E i \in 1..Len(Parse[d][f]) : s \in Expanded(Signals(d, n, f)[i])
      BY <2>2, <2>3, LeftDecodes
    <3>2. Decoded(d, fed[d], n, s)
            <=> \/ Decoded(d, fed[d], msg[d], s)
                \/ \E i \in 1..Len(Parse[d][f]) : s \in Expanded(Signals(d, n, f)[i])
      BY <1>1, <2>3, DecodedMore
    <3>3. ~ Left({}, << >>, s)
      BY LeftNothing
    <3>4. QED
      BY <2>1, <3>1, <3>2, <3>3
  <2> HIDE DEF n
  <2>5. Is
    BY <1>2, <2>1, <2>4 DEF Was, Is, Covered
  <2>6. QED
    BY <1>2, <2>5
<1>6. CASE SnapshotStep(d)
  <2>1. /\ expanded[d] = {} /\ signals[d] # << >> /\ fed'[d] = fed[d] /\ msg'[d] = msg[d]
        /\ signals'[d] = Tail(signals[d]) /\ expanded'[d] = Expanded(Head(signals[d]))
        /\ log'[d] = log[d]
    BY <1>6 DEF SnapshotStep
  <2>2. \A s : Left(expanded'[d], signals'[d], s) <=> Left(expanded[d], signals[d], s)
    BY <1>1, <2>1, LeftTaken
  <2>3. Is
    BY <1>2, <2>1, <2>2 DEF Was, Is, Covered
  <2>4. QED
    BY <1>2, <2>3
<1>7. CASE RejectStep(d)
  <2>1. PICK t \in expanded[d] : ~ Allow(Group[d], t) /\ expanded'[d] = expanded[d] \ {t}
    BY <1>7 DEF RejectStep
  <2>2. fed'[d] = fed[d] /\ msg'[d] = msg[d] /\ signals'[d] = signals[d] /\ log'[d] = log[d]
    BY <1>7 DEF RejectStep
  <2>3. \A s : /\ Left(expanded'[d], signals'[d], s) => Left(expanded[d], signals[d], s)
               /\ Left(expanded[d], signals[d], s) => Left(expanded'[d], signals'[d], s) \/ s = t
    <3>1. \A s : /\ Left(expanded[d] \ {t}, signals[d], s) => Left(expanded[d], signals[d], s)
                 /\ Left(expanded[d], signals[d], s)
                      => Left(expanded[d] \ {t}, signals[d], s) \/ s = t
      BY LeftLess
    <3>2. QED
      BY <2>1, <2>2, <3>1
  <2>4. Is
    BY <1>2, <2>1, <2>2, <2>3 DEF Was, Is, Covered
  <2>5. QED
    BY <1>2, <2>4
<1>8. CASE ForwardStep(d)
  <2>1. PICK t \in expanded[d] :
          /\ t \in Signal /\ Allow(Group[d], t) /\ expanded'[d] = expanded[d] \ {t}
          /\ log'[d] = Append(log[d], t)
    BY <1>8 DEF ForwardStep
  <2>2. fed'[d] = fed[d] /\ msg'[d] = msg[d] /\ signals'[d] = signals[d]
    BY <1>8 DEF ForwardStep
  <2>3. \A s : /\ Left(expanded'[d], signals'[d], s) => Left(expanded[d], signals[d], s)
               /\ Left(expanded[d], signals[d], s) => Left(expanded'[d], signals'[d], s) \/ s = t
    <3>1. \A s : /\ Left(expanded[d] \ {t}, signals[d], s) => Left(expanded[d], signals[d], s)
                 /\ Left(expanded[d], signals[d], s)
                      => Left(expanded[d] \ {t}, signals[d], s) \/ s = t
      BY LeftLess
    <3>2. QED
      BY <2>1, <2>2, <3>1
  <2>4. \A s : Forwarded(log'[d], s) <=> Forwarded(log[d], s) \/ s = t
    BY <1>1, <2>1, ForwardedMore
  <2>5. Left(expanded[d], signals[d], t)
    BY LeftLess
  <2>6. Is
    BY <1>2, <2>1, <2>2, <2>3, <2>4, <2>5 DEF Was, Is, Covered
  <2>7. QED
    BY <1>2, <2>6
<1>9. QED
  BY <1>3, <1>4, <1>5, <1>6, <1>7, <1>8, DecodeSteps

(* LeftSorted and LogSorted: each step's part of the order. *)
LEMMA SignalIs ==
    ASSUME NEW s \in Signal
    PROVE  s.Timestamp \in Nat /\ s.part \in Nat /\ s.pid \in Nat
<1>1. PICK r \in Raw : s \in Expanded(r)
  BY DEF Signal
<1>2. QED
  BY <1>1, RawIs, ExpandedAre

LEMMA SortedReceive ==
    ASSUME NEW d \in Dispatcher, NEW n \in Nat, n + 1 \in 1..MaxSent, NEW f \in Frame(d),
           NEW l \in Seq(Signal), IsLog(n, {}, << >>, l)
    PROVE  /\ IsLeft(n + 1, {}, Signals(d, n + 1, f))
           /\ IsLog(n + 1, {}, Signals(d, n + 1, f), l)
<1> DEFINE k == Len(Parse[d][f])
           ss == Signals(d, n + 1, f)
<1>1. k \in Nat /\ Len(ss) = k /\ \A i \in 1..k : ss[i].Timestamp = n + 1 /\ ss[i].part = i
  BY SignalsAre
<1> HIDE DEF k, ss
<1>2. IsLeft(n + 1, {}, ss)
  BY <1>1 DEF IsLeft
<1>3. ASSUME NEW i \in 1..Len(l)
      PROVE  l[i].Timestamp <= n + 1 /\ l[i].Timestamp < n + 1
  <2>1. l[i] \in Signal
    OBVIOUS
  <2>2. l[i].Timestamp \in Nat /\ l[i].Timestamp <= n
    BY <2>1, SignalIs DEF IsLog
  <2>3. QED
    BY <2>2
<1>4. IsLog(n + 1, {}, ss, l)
  BY <1>3 DEF IsLog
<1>5. QED
  BY <1>2, <1>4 DEF ss

LEMMA SortedSnapshot ==
    ASSUME NEW n \in Nat, NEW ss \in Seq(Raw), ss # << >>, NEW l \in Seq(Signal),
           IsLeft(n, {}, ss), IsLog(n, {}, ss, l)
    PROVE  /\ IsLeft(n, Expanded(Head(ss)), Tail(ss))
           /\ IsLog(n, Expanded(Head(ss)), Tail(ss), l)
<1> DEFINE k == Len(Tail(ss))
           x == Expanded(Head(ss))
           ts == Tail(ss)
<1>1. /\ Head(ss) = ss[1] /\ Head(ss) \in Raw /\ k \in Nat /\ Len(ss) = k + 1
      /\ \A i \in 1..k : ts[i] = ss[i + 1]
  BY Rest
<1>2. \A i \in 1..(k + 1) : ss[i].Timestamp = n
  BY <1>1 DEF IsLeft
<1>3. \A i, j \in 1..(k + 1) : i < j => ss[i].part < ss[j].part
  BY <1>1 DEF IsLeft
<1>4. \A i \in 1..Len(l), j \in 1..(k + 1) : l[i].Timestamp < n \/ l[i].part < ss[j].part
  BY <1>1 DEF IsLog
<1>5. /\ \A i, j \in 1..Len(l) : i < j => Before(l[i], l[j])
      /\ \A i \in 1..Len(l) : l[i].Signal \notin DOMAIN PidsSupported /\ l[i].Timestamp <= n
  BY DEF IsLog
<1>6. \A t \in x : t.Timestamp = ss[1].Timestamp /\ t.part = ss[1].part /\ t.pid \in Nat
                   /\ t.Signal \notin DOMAIN PidsSupported
  BY <1>1, ExpandedAre
<1>7. \A t, u \in x : t.pid = u.pid => t = u
  BY <1>1, ExpandedApart
<1>8. Len(ts) = k
  OBVIOUS
<1>9. \A i \in 1..Len(l) : l[i] \in Signal
  OBVIOUS
<1>10. \A i \in 1..k : i + 1 \in 1..(k + 1) /\ 1 < i + 1 /\ 1 \in 1..(k + 1)
  BY <1>1
<1>11. 1 \in 1..(k + 1)
  BY <1>1
<1> HIDE DEF k, x, ts
<1>12. IsLeft(n, x, ts)
  <2>1. \A i \in 1..Len(ts) : ts[i].Timestamp = n
    BY <1>1, <1>2, <1>8, <1>10
  <2>2. ASSUME NEW i \in 1..Len(ts), NEW j \in 1..Len(ts), i < j
        PROVE  ts[i].part < ts[j].part
    <3>1. i + 1 \in 1..(k + 1) /\ j + 1 \in 1..(k + 1) /\ i + 1 < j + 1
      BY <1>1, <1>8, <2>2
    <3>2. QED
      BY <1>1, <1>3, <1>8, <2>2, <3>1
  <2>3. ASSUME NEW t \in x
        PROVE  /\ t.Timestamp = n /\ t.Signal \notin DOMAIN PidsSupported
               /\ \A i \in 1..Len(ts) : t.part < ts[i].part
               /\ \A u \in x : t.part = u.part /\ (t.pid = u.pid => t = u)
    <3>1. t.Timestamp = n /\ t.Signal \notin DOMAIN PidsSupported
      BY <1>2, <1>6, <1>11
    <3>2. \A i \in 1..Len(ts) : t.part < ts[i].part
      BY <1>1, <1>3, <1>6, <1>8, <1>10
    <3>3. QED
      BY <1>6, <1>7, <3>1, <3>2
  <2>4. QED
    BY <2>1, <2>2, <2>3 DEF IsLeft
<1>13. ASSUME NEW i \in 1..Len(l)
       PROVE  /\ \A t \in x : Before(l[i], t)
              /\ \A j \in 1..Len(ts) : l[i].Timestamp < n \/ l[i].part < ts[j].part
  <2>1. l[i].Timestamp \in Nat /\ l[i].Timestamp <= n
    BY <1>5, <1>9, SignalIs
  <2>2. \A t \in x : t.Timestamp = n /\ t.part = ss[1].part
    BY <1>2, <1>6, <1>11
  <2>3. l[i].Timestamp < n \/ l[i].part < ss[1].part
    BY <1>4, <1>11
  <2>4. \A t \in x : Before(l[i], t)
    BY <2>1, <2>2, <2>3 DEF Before
  <2>5. \A j \in 1..Len(ts) : l[i].Timestamp < n \/ l[i].part < ts[j].part
    BY <1>1, <1>4, <1>8, <1>10
  <2>6. QED
    BY <2>4, <2>5
<1>14. IsLog(n, x, ts, l)
  BY <1>5, <1>13 DEF IsLog
<1>15. QED
  BY <1>12, <1>14 DEF x, ts

LEMMA SortedReject ==
    ASSUME NEW n, NEW x, NEW ss, NEW l, NEW t, IsLeft(n, x, ss), IsLog(n, x, ss, l)
    PROVE  IsLeft(n, x \ {t}, ss) /\ IsLog(n, x \ {t}, ss, l)
BY DEF IsLeft, IsLog

LEMMA SortedForward ==
    ASSUME NEW n \in Nat, NEW x \in SUBSET Signal, NEW ss, NEW l \in Seq(Signal),
           NEW t \in x, \A u \in x : t.pid <= u.pid, IsLeft(n, x, ss), IsLog(n, x, ss, l)
    PROVE  IsLeft(n, x \ {t}, ss) /\ IsLog(n, x \ {t}, ss, Append(l, t))
<1> DEFINE k == Len(l)
           m == Append(l, t)
<1>1. /\ k \in Nat /\ Len(m) = k + 1 /\ m[k + 1] = t
      /\ \A i \in 1..k : m[i] = l[i]
  BY Added
<1>2. IsLeft(n, x \ {t}, ss)
  BY SortedReject
<1>3. /\ \A i, j \in 1..k : i < j => Before(l[i], l[j])
      /\ \A i \in 1..k :
          /\ l[i].Signal \notin DOMAIN PidsSupported
          /\ l[i].Timestamp <= n
          /\ \A s \in x : Before(l[i], s)
          /\ \A j \in 1..Len(ss) : l[i].Timestamp < n \/ l[i].part < ss[j].part
  BY DEF IsLog
<1>4. /\ t.Timestamp = n /\ t.Signal \notin DOMAIN PidsSupported
      /\ \A i \in 1..Len(ss) : t.part < ss[i].part
      /\ \A u \in x : t.part = u.part /\ (t.pid = u.pid => t = u) /\ u.Timestamp = n
  BY DEF IsLeft
<1> HIDE DEF k, m
<1>5. \A i \in 1..(k + 1) : i \in 1..k \/ i = k + 1
  BY <1>1
<1>6. ASSUME NEW u \in x \ {t}
      PROVE  Before(t, u)
  <2>1. t.pid \in Nat /\ u.pid \in Nat /\ t.pid <= u.pid /\ t.pid # u.pid
    BY <1>4, <1>6, SignalIs
  <2>2. QED
    BY <1>4, <1>6, <2>1 DEF Before
<1>7. ASSUME NEW i \in 1..(k + 1), NEW j \in 1..(k + 1), i < j
      PROVE  Before(m[i], m[j])
  <2>1. i \in 1..k
    BY <1>1, <1>7
  <2>2. CASE j \in 1..k
    BY <1>1, <1>3, <1>7, <2>1, <2>2
  <2>3. CASE j = k + 1
    BY <1>1, <1>3, <2>1, <2>3
  <2>4. QED
    BY <1>5, <2>2, <2>3
<1>8. ASSUME NEW i \in 1..(k + 1)
      PROVE  /\ m[i].Signal \notin DOMAIN PidsSupported
             /\ m[i].Timestamp <= n
             /\ \A s \in x \ {t} : Before(m[i], s)
             /\ \A j \in 1..Len(ss) : m[i].Timestamp < n \/ m[i].part < ss[j].part
  <2>1. CASE i \in 1..k
    BY <1>1, <1>3, <2>1
  <2>2. CASE i = k + 1
    BY <1>1, <1>4, <1>6, <2>2
  <2>3. QED
    BY <1>5, <2>1, <2>2
<1>9. IsLog(n, x \ {t}, ss, m)
  BY <1>1, <1>7, <1>8 DEF IsLog
<1>10. QED
  BY <1>2, <1>9 DEF m

LEMMA SortedKept ==
    ASSUME TypeOK, [Next]_vars, NEW d \in Dispatcher, LeftSorted(d), LogSorted(d)
    PROVE  LeftSorted(d)' /\ LogSorted(d)'
<1>1. /\ inChannel[d] \in Seq(Frame(d)) /\ msg[d] \in Nat
      /\ msg[d] + Len(inChannel[d]) = Len(fed[d]) /\ Len(inChannel[d]) \in Nat
      /\ Len(fed[d]) \in Nat /\ Len(fed[d]) <= MaxSent
      /\ signals[d] \in Seq(Raw) /\ expanded[d] \subseteq Signal /\ log[d] \in Seq(Signal)
  BY TypeParts DEF InputTyped, LoopTyped
<1> DEFINE Is == /\ IsLeft(msg'[d], expanded'[d], signals'[d])
                 /\ IsLog(msg'[d], expanded'[d], signals'[d], log'[d])
<1>2. /\ IsLeft(msg[d], expanded[d], signals[d]) /\ IsLog(msg[d], expanded[d], signals[d], log[d])
      /\ Is => LeftSorted(d)' /\ LogSorted(d)'
  BY DEF LeftSorted, LogSorted, IsLeft, IsLog
<1>3. CASE msg'[d] = msg[d] /\ expanded'[d] = expanded[d] /\ signals'[d] = signals[d] /\ log'[d] = log[d]
  BY <1>2, <1>3
<1>4. CASE ReceiveStep(d)
  <2> DEFINE f == Head(inChannel[d])
  <2>1. /\ inChannel[d] # << >> /\ msg'[d] = msg[d] + 1 /\ expanded[d] = {}
        /\ signals[d] = << >> /\ expanded'[d] = {} /\ log'[d] = log[d]
        /\ signals'[d] = Signals(d, msg[d] + 1, f)
    BY <1>4 DEF ReceiveStep
  <2>2. Len(inChannel[d]) \in Nat \ {0} /\ f \in Frame(d)
    BY <1>1, <2>1, Rest
  <2>3. msg[d] + 1 \in 1..MaxSent
    <3>1. msg[d] + Len(inChannel[d]) <= MaxSent
      BY <1>1
    <3>2. msg[d] \in Nat /\ MaxSent \in Nat
      BY <1>1, Bounds
    <3>3. QED
      BY <2>2, <3>1, <3>2
  <2>4. IsLog(msg[d], {}, << >>, log[d])
    BY <1>2, <2>1
  <2> HIDE DEF f
  <2>5. /\ IsLeft(msg[d] + 1, {}, Signals(d, msg[d] + 1, f))
        /\ IsLog(msg[d] + 1, {}, Signals(d, msg[d] + 1, f), log[d])
    BY <1>1, <2>2, <2>3, <2>4, SortedReceive
  <2>6. QED
    BY <1>2, <2>1, <2>5
<1>5. CASE SnapshotStep(d)
  <2>1. /\ expanded[d] = {} /\ signals[d] # << >> /\ msg'[d] = msg[d] /\ log'[d] = log[d]
        /\ signals'[d] = Tail(signals[d]) /\ expanded'[d] = Expanded(Head(signals[d]))
    BY <1>5 DEF SnapshotStep
  <2>2. /\ IsLeft(msg[d], Expanded(Head(signals[d])), Tail(signals[d]))
        /\ IsLog(msg[d], Expanded(Head(signals[d])), Tail(signals[d]), log[d])
    BY <1>1, <1>2, <2>1, SortedSnapshot
  <2>3. QED
    BY <1>2, <2>1, <2>2
<1>6. CASE RejectStep(d)
  <2>1. PICK t \in expanded[d] : expanded'[d] = expanded[d] \ {t}
    BY <1>6 DEF RejectStep
  <2>2. msg'[d] = msg[d] /\ signals'[d] = signals[d] /\ log'[d] = log[d]
    BY <1>6 DEF RejectStep
  <2>3. /\ IsLeft(msg[d], expanded[d] \ {t}, signals[d])
        /\ IsLog(msg[d], expanded[d] \ {t}, signals[d], log[d])
    BY <1>2, SortedReject
  <2>4. QED
    BY <1>2, <2>1, <2>2, <2>3
<1>7. CASE ForwardStep(d)
  <2>1. PICK t \in expanded[d] : /\ \A u \in expanded[d] : t.pid <= u.pid
                                 /\ expanded'[d] = expanded[d] \ {t}
                                 /\ log'[d] = Append(log[d], t)
    BY <1>7 DEF ForwardStep
  <2>2. msg'[d] = msg[d] /\ signals'[d] = signals[d]
    BY <1>7 DEF ForwardStep
  <2>3. /\ IsLeft(msg[d], expanded[d] \ {t}, signals[d])
        /\ IsLog(msg[d], expanded[d] \ {t}, signals[d], Append(log[d], t))
    BY <1>1, <1>2, <2>1, SortedForward
  <2>4. QED
    BY <1>2, <2>1, <2>2, <2>3
<1>8. QED
  BY <1>3, <1>4, <1>5, <1>6, <1>7, DecodeSteps DEF SameDecode, FeedStep

LEMMA InitDecode ==
    ASSUME Init
    PROVE  DecodeInv
<1> SUFFICES ASSUME NEW d \in Dispatcher
             PROVE  QueueFollows(d) /\ NothingLost(d) /\ LeftSorted(d) /\ LogSorted(d)
  BY DEF DecodeInv
<1>1. /\ inChannel[d] = << >> /\ msg[d] = 0 /\ signals[d] = << >> /\ expanded[d] = {}
      /\ log[d] = << >>
  BY DEF Init
<1>2. 1..0 = {} /\ Len(<< >>) = 0
  OBVIOUS
<1>3. QueueFollows(d) /\ LeftSorted(d) /\ LogSorted(d)
  BY <1>1, <1>2 DEF QueueFollows, LeftSorted, IsLeft, LogSorted, IsLog
<1>4. \A s : ~ Left({}, << >>, s) /\ ~ Forwarded(<< >>, s) /\ ~ Decoded(d, fed[d], 0, s)
  BY <1>2 DEF Left, Forwarded, Decoded
<1>5. NothingLost(d)
  BY <1>1, <1>4 DEF NothingLost, Covered
<1>6. QED
  BY <1>3, <1>5

(* The invariant says more than the property does. *)
LEMMA DecodedSignals ==
    ASSUME NEW d \in Dispatcher, NEW q \in Seq(Frame(d)), Len(q) <= MaxSent,
           NEW n \in Nat, n <= Len(q), NEW s, Decoded(d, q, n, s)
    PROVE  s \in Signal
<1>1. PICK m \in 1..n : \E i \in 1..Len(Parse[d][q[m]]) : s \in Expanded(Signals(d, m, q[m])[i])
  BY DEF Decoded
<1>2. q[m] \in Frame(d) /\ m \in 1..MaxSent
  <2>1. Len(q) \in Nat /\ MaxSent \in Nat
    BY Bounds
  <2>2. m \in 1..Len(q)
    BY <1>1, <2>1
  <2>3. q[m] \in Frame(d)
    BY <2>2
  <2>4. QED
    BY <2>1, <2>2, <2>3
<1>3. PICK i \in 1..Len(Parse[d][q[m]]) : s \in Expanded(Signals(d, m, q[m])[i])
  BY <1>1
<1>4. Signals(d, m, q[m]) \in Seq(Raw) /\ Len(Signals(d, m, q[m])) = Len(Parse[d][q[m]])
  BY <1>2, SignalsAre
<1>5. Signals(d, m, q[m])[i] \in Raw
  BY <1>3, <1>4
<1>6. QED
  BY <1>3, <1>5 DEF Signal

LEMMA ExpectedIs ==
    ASSUME NEW d \in Dispatcher, NEW n, NEW s
    PROVE  s \in Expected(d, n) <=> Decoded(d, fed[d], n, s)
BY DEF Expected, Decoded

LEMMA ImpliedByDecode ==
    ASSUME TypeOK, DecodeInv
    PROVE  ForwardsWhatItDecodes
<1> SUFFICES ASSUME NEW d \in Dispatcher
             PROVE  /\ \A i, j \in 1..Len(log[d]) : i < j => Before(log[d][i], log[d][j])
                    /\ expanded[d] = {} /\ signals[d] = << >> =>
                          {log[d][i] : i \in 1..Len(log[d])}
                              = {s \in Expected(d, msg[d]) : Allow(Group[d], s)}
                    /\ \A i \in 1..Len(log[d]) : log[d][i].Signal \notin DOMAIN PidsSupported
  BY DEF ForwardsWhatItDecodes
<1>1. /\ fed[d] \in Seq(Frame(d)) /\ msg[d] \in Nat /\ Len(fed[d]) <= MaxSent
      /\ msg[d] <= Len(fed[d]) /\ log[d] \in Seq(Signal)
  <2>1. /\ fed[d] \in Seq(Frame(d)) /\ msg[d] \in Nat /\ Len(fed[d]) <= MaxSent
        /\ log[d] \in Seq(Signal) /\ inChannel[d] \in Seq(Frame(d))
        /\ msg[d] + Len(inChannel[d]) = Len(fed[d])
    BY TypeParts DEF InputTyped, LoopTyped
  <2>2. Len(inChannel[d]) \in Nat
    BY <2>1
  <2>3. QED
    BY <2>1, <2>2
<1>2. LogSorted(d) /\ NothingLost(d)
  BY DEF DecodeInv
<1>3. /\ \A i, j \in 1..Len(log[d]) : i < j => Before(log[d][i], log[d][j])
      /\ \A i \in 1..Len(log[d]) : log[d][i].Signal \notin DOMAIN PidsSupported
  BY <1>2 DEF LogSorted, IsLog
<1>4. ASSUME expanded[d] = {}, signals[d] = << >>
      PROVE  {log[d][i] : i \in 1..Len(log[d])} = {s \in Expected(d, msg[d]) : Allow(Group[d], s)}
  <2>1. \A s : ~ Left(expanded[d], signals[d], s)
    BY <1>4, LeftNothing
  <2>2. \A s : s \in {log[d][i] : i \in 1..Len(log[d])} <=> Forwarded(log[d], s)
    BY DEF Forwarded
  <2>3. \A s : Forwarded(log[d], s) => s \in Signal
    BY <1>1 DEF Forwarded
  <2>4. \A s : Decoded(d, fed[d], msg[d], s) => s \in Signal
    BY <1>1, DecodedSignals
  <2>5. \A s \in Signal : Forwarded(log[d], s)
                            <=> Decoded(d, fed[d], msg[d], s) /\ Allow(Group[d], s)
    BY <1>2, <2>1 DEF NothingLost, Covered
  <2>6. \A s : s \in Expected(d, msg[d]) <=> Decoded(d, fed[d], msg[d], s)
    BY ExpectedIs
  <2>7. QED
    BY <2>2, <2>3, <2>4, <2>5, <2>6
<1>5. QED
  BY <1>3, <1>4

(***************************************************************************)
(* ForwardsWhatItDecodes holds for every parser and filter: what Dispatch  *)
(* decodes, expands and allows it offers, in order, each signal once and   *)
(* none besides.                                                           *)
(***************************************************************************)
THEOREM SignalDecodes == Spec => []ForwardsWhatItDecodes
<1>1. Init => DecodeInv
  BY InitDecode
<1>2. TypeOK /\ DecodeInv /\ [Next]_vars => DecodeInv'
  <2> SUFFICES ASSUME TypeOK, DecodeInv, [Next]_vars, NEW d \in Dispatcher
               PROVE  (QueueFollows(d) /\ NothingLost(d) /\ LeftSorted(d) /\ LogSorted(d))'
    BY DEF DecodeInv
  <2>1. QueueFollows(d) /\ NothingLost(d) /\ LeftSorted(d) /\ LogSorted(d)
    BY DEF DecodeInv
  <2>2. QED
    BY <2>1, QueueKept, NothingLostKept, SortedKept
<1>3. TypeOK /\ DecodeInv => ForwardsWhatItDecodes
  BY ImpliedByDecode
<1>4. QED
  BY <1>1, <1>2, <1>3, SignalTypes, PTL DEF Spec
=============================================================================
