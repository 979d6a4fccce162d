----------------------- MODULE MessageDispatch_proofs -----------------------
(* What the runs check of the message dispatcher, proved for any number of   *)
(* interfaces, listeners, filters, messages and registrations and for        *)
(* channels of any positive capacity.                                        *)
EXTENDS MessageDispatch, FiniteSetTheorems, TLAPS

(* The bounds of the constants, without what is assumed of the filters. *)
LEMMA Bounds ==
    /\ MessageBufferSize \in Nat \ {0}
    /\ MaxSent \in Nat
    /\ MaxRegistered \in Nat
    /\ ReportThroughput \in BOOLEAN
  BY DispatchAssumption

(* A sequence over a set is one over any larger set. *)
LEMMA SeqWiden ==
    ASSUME NEW S, NEW T, S \subseteq T, NEW s \in Seq(S)
    PROVE  s \in Seq(T)
  OBVIOUS

(* Replacing an element keeps a sequence's type and length. *)
LEMMA ReplaceType ==
    ASSUME NEW S, NEW s \in Seq(S), NEW i \in 1..Len(s), NEW x \in S
    PROVE  /\ [s EXCEPT ![i] = x] \in Seq(S)
           /\ Len([s EXCEPT ![i] = x]) = Len(s)
  OBVIOUS

LEMMA RegistrationFields ==
    ASSUME NEW x \in Registration, NEW n \in Nat
    PROVE  /\ [x EXCEPT !.upto = n] \in Registration
           /\ [x EXCEPT !.delivered = n] \in Registration
           /\ x.from \in Nat /\ x.upto \in Nat /\ x.delivered \in Nat
  BY DEF Registration

(* Deleting an element leaves a sequence one shorter, over the same set. *)
LEMMA WithoutType ==
    ASSUME NEW S, NEW s \in Seq(S), NEW i \in 1..Len(s)
    PROVE  /\ Without(s, i) \in Seq(S)
           /\ Len(Without(s, i)) = Len(s) - 1
           /\ \A j \in 1..(Len(s) - 1) : Without(s, i)[j] = s[IF j < i THEN j ELSE j + 1]
<1>1. Len(s) \in Nat /\ Len(s) - 1 \in Nat
  OBVIOUS
<1>2. \A j \in 1..(Len(s) - 1) : s[IF j < i THEN j ELSE j + 1] \in S
  BY <1>1
<1>3. QED
  BY <1>1, <1>2 DEF Without

LEMMA HorizonType ==
    ASSUME LoopTypes
    PROVE  Horizon \in Nat
  BY DEF Horizon, LoopTypes

(* Add allocates one more registration and lists it. *)
LEMMA AddKeepsRegistry ==
    ASSUME LoopTypes, RegistryTypes, NEW l \in Listener, Add(l)
    PROVE  /\ RegistryTypes'
           /\ Len(registered') = Len(registered) + 1
           /\ Len(broadcastChannels') = Len(broadcastChannels) + 1
<1>1. /\ registered' \in Seq(RegisteredListener)
      /\ Len(registered') = Len(registered) + 1
  BY DEF Add, RegistryTypes, RegisteredListener
<1>2. 1..Len(registered) \subseteq 1..Len(registered')
  BY <1>1 DEF RegistryTypes
<1>3. /\ broadcastChannels \in Seq(1..Len(registered'))
      /\ listeners \in Seq(1..Len(registered'))
  BY <1>2, SeqWiden DEF RegistryTypes
<1>4. Len(registered) + 1 \in 1..Len(registered')
  BY <1>1 DEF RegistryTypes
<1>5. /\ broadcastChannels' \in Seq(1..Len(registered'))
      /\ Len(broadcastChannels') = Len(broadcastChannels) + 1
  BY <1>3, <1>4 DEF Add
<1>6. [from |-> Horizon, upto |-> 0, delivered |-> 0] \in Registration
  BY HorizonType DEF Registration
<1>7. span' \in Seq(Registration) /\ Len(span') = Len(span) + 1
  BY <1>6 DEF Add, RegistryTypes
<1>8. QED
  BY <1>1, <1>3, <1>5, <1>7 DEF Add, RegistryTypes

(* Remove takes one registration off the list and closes its span. *)
LEMMA RemoveKeepsRegistry ==
    ASSUME LoopTypes, RegistryTypes, NEW l \in Listener, Remove(l)
    PROVE  RegistryTypes'
<1>1. PICK i \in 1..Len(broadcastChannels) :
          /\ broadcastChannels' = Without(broadcastChannels, i)
          /\ span' = [span EXCEPT ![broadcastChannels[i]].upto = Horizon]
          /\ UNCHANGED <<registered, listeners>>
  BY DEF Remove
<1>2. broadcastChannels' \in Seq(1..Len(registered))
  BY <1>1, WithoutType DEF RegistryTypes
<1>3. broadcastChannels[i] \in 1..Len(span)
  BY DEF RegistryTypes
<1>4. span' \in Seq(Registration) /\ Len(span') = Len(span)
  <2> DEFINE r == broadcastChannels[i]
             x == [span[r] EXCEPT !.upto = Horizon]
  <2>1. span[r] \in Registration /\ span \in Seq(Registration)
    BY <1>3 DEF RegistryTypes
  <2>2. x \in Registration
    BY <2>1, HorizonType, RegistrationFields
  <2>3. span' = [span EXCEPT ![r] = x]
    BY <1>1
  <2>4. QED
    BY <1>3, <2>1, <2>2, <2>3, ReplaceType
<1>5. QED
  BY <1>1, <1>2, <1>4 DEF RegistryTypes

(***************************************************************************)
(* Type correctness: no channel outgrows its capacity, the list of         *)
(* listeners and the broadcaster's copy name objects that exist, and       *)
(* canMsg is the message taken last.                                       *)
(***************************************************************************)
THEOREM DispatchTypes == Spec => []TypeOK
<1> USE Bounds
<1>1. Init => TypeOK
  <2> SUFFICES ASSUME Init
               PROVE  LoopTypes /\ RegistryTypes /\ ChannelTypes
    BY DEF TypeOK
  <2>1. LoopTypes
    <3>1. incomingChannel \in Seq(Msg) /\ log \in Seq(Msg)
      BY DEF Init
    <3>2. sent \in [Conn -> 0..MaxSent]
      BY DEF Init
    <3>3. Len(incomingChannel) <= MessageBufferSize
      BY DEF Init
    <3>4. QED
      BY <3>1, <3>2, <3>3 DEF Init, LoopTypes
  <2>2. RegistryTypes
    BY DEF Init, RegistryTypes
  <2>3. ChannelTypes
    BY DEF Init, ChannelTypes
  <2>4. QED
    BY <2>1, <2>2, <2>3
<1>2. TypeOK /\ [Next]_vars => TypeOK'
  <2> SUFFICES ASSUME LoopTypes, RegistryTypes, ChannelTypes, [Next]_vars
               PROVE  LoopTypes' /\ RegistryTypes' /\ ChannelTypes'
    BY DEF TypeOK
  <2> USE DEF registry, outside
  <2>1. ASSUME NEW c \in Conn, Send(c)
        PROVE  LoopTypes' /\ RegistryTypes' /\ ChannelTypes'
    <3>1. sent[c] + 1 \in 1..MaxSent
      BY <2>1 DEF Send, LoopTypes
    <3>2. [Interface |-> c, seq |-> sent[c] + 1] \in Msg
      BY <3>1 DEF Msg
    <3>3. LoopTypes'
      BY <2>1, <3>2 DEF Send, LoopTypes
    <3>4. RegistryTypes'
      BY <2>1 DEF Send, RegistryTypes
    <3>5. ChannelTypes'
      BY <2>1 DEF Send, ChannelTypes
    <3>6. QED
      BY <3>3, <3>4, <3>5
  <2>2. ASSUME NEW l \in Listener, Add(l)
        PROVE  LoopTypes' /\ RegistryTypes' /\ ChannelTypes'
    <3>1. RegistryTypes'
      BY <2>2, AddKeepsRegistry
    <3>2. LoopTypes'
      BY <2>2 DEF Add, LoopTypes
    <3>3. ChannelTypes'
      BY <2>2 DEF Add, ChannelTypes
    <3>4. QED
      BY <3>1, <3>2, <3>3
  <2>3. ASSUME NEW l \in Listener, Remove(l)
        PROVE  LoopTypes' /\ RegistryTypes' /\ ChannelTypes'
    <3>1. RegistryTypes'
      BY <2>3, RemoveKeepsRegistry
    <3>2. LoopTypes'
      BY <2>3 DEF Remove, LoopTypes
    <3>3. ChannelTypes'
      BY <2>3 DEF Remove, ChannelTypes
    <3>4. QED
      BY <3>1, <3>2, <3>3
  <2>4. ASSUME NEW l \in Listener, Handle(l)
        PROVE  LoopTypes' /\ RegistryTypes' /\ ChannelTypes'
    <3>1. ChannelTypes'
      BY <2>4 DEF Handle, ChannelTypes
    <3>2. LoopTypes' /\ RegistryTypes'
      BY <2>4 DEF Handle, LoopTypes, RegistryTypes
    <3>3. QED
      BY <3>1, <3>2
  <2>5. CASE Broadcast
    BY <2>5 DEF Broadcast, LoopTypes, RegistryTypes, ChannelTypes
  <2>6. CASE Stop
    BY <2>6 DEF Stop, LoopTypes, RegistryTypes, ChannelTypes
  <2>7. CASE Receive
    <3>1. LoopTypes'
      BY <2>7 DEF Receive, LoopTypes
    <3>2. RegistryTypes' /\ ChannelTypes'
      BY <2>7 DEF Receive, RegistryTypes, ChannelTypes
    <3>3. QED
      BY <3>1, <3>2
  <2>8. CASE Snapshot
    BY <2>8 DEF Snapshot, LoopTypes, RegistryTypes, ChannelTypes
  <2>9. CASE Skip
    <3>1. listeners' \in Seq(1..Len(registered))
      BY <2>9 DEF Skip, RegistryTypes
    <3>2. QED
      BY <2>9, <3>1 DEF Skip, LoopTypes, RegistryTypes, ChannelTypes
  <2>10. CASE Deliver
    <3>1. /\ Head(listeners) \in 1..Len(registered)
          /\ listeners' \in Seq(1..Len(registered))
      BY <2>10 DEF Deliver, RegistryTypes
    <3>2. NameOf(Head(listeners)) \in Listener
      <4>1. registered[Head(listeners)] \in RegisteredListener
        BY <3>1 DEF RegistryTypes
      <4>2. QED
        BY <4>1 DEF NameOf, RegisteredListener
    <3>3. canMsg \in Msg
      BY <2>10 DEF Deliver, LoopTypes
    <3>4. ChannelTypes'
      BY <2>10, <3>2, <3>3 DEF Deliver, ChannelTypes
    <3>5. span' \in Seq(Registration) /\ Len(span') = Len(span)
      <4> DEFINE r == Head(listeners)
                 x == [span[r] EXCEPT !.delivered = @ + 1]
      <4>1. r \in 1..Len(span) /\ span \in Seq(Registration) /\ span[r] \in Registration
        BY <3>1 DEF RegistryTypes
      <4>2. x \in Registration
        <5>1. span[r].delivered + 1 \in Nat
          <6>1. span[r].delivered \in Nat
            BY <4>1, RegistrationFields
          <6>2. QED
            BY <6>1
        <5>2. QED
          BY <4>1, <5>1, RegistrationFields
      <4>3. span' = [span EXCEPT ![r] = x]
        BY <2>10 DEF Deliver
      <4>4. QED
        BY <4>1, <4>2, <4>3, ReplaceType
    <3>6. RegistryTypes'
      BY <2>10, <3>1, <3>5 DEF Deliver, RegistryTypes
    <3>7. LoopTypes'
      BY <2>10 DEF Deliver, LoopTypes
    <3>8. QED
      BY <3>4, <3>6, <3>7
  <2>11. CASE Drop
    <3>1. /\ Head(listeners) \in 1..Len(registered)
          /\ listeners' \in Seq(1..Len(registered))
      BY <2>11 DEF Drop, RegistryTypes
    <3>2. /\ registered' \in Seq(RegisteredListener)
          /\ Len(registered') = Len(registered)
      <4> DEFINE r == Head(listeners)
                 x == [registered[r] EXCEPT !.dropped = @ + 1]
      <4>1. registered \in Seq(RegisteredListener) /\ registered[r] \in RegisteredListener
        BY <3>1 DEF RegistryTypes
      <4>2. x \in RegisteredListener
        BY <4>1 DEF RegisteredListener
      <4>3. registered' = [registered EXCEPT ![r] = x]
        BY <2>11 DEF Drop
      <4>4. QED
        BY <3>1, <4>1, <4>2, <4>3, ReplaceType
    <3>3. RegistryTypes'
      BY <2>11, <3>1, <3>2 DEF Drop, RegistryTypes
    <3>4. LoopTypes'
      BY <2>11 DEF Drop, LoopTypes
    <3>5. ChannelTypes'
      BY <2>11 DEF Drop, ChannelTypes
    <3>6. QED
      BY <3>3, <3>4, <3>5
  <2>12. CASE StopReporter
    BY <2>12 DEF StopReporter, LoopTypes, RegistryTypes, ChannelTypes
  <2>13. CASE Cancel
    BY <2>13 DEF Cancel, LoopTypes, RegistryTypes, ChannelTypes
  <2>14. CASE UNCHANGED vars
    BY <2>14 DEF vars, LoopTypes, RegistryTypes, ChannelTypes
  <2>15. QED
    BY <2>1, <2>2, <2>3, <2>4, <2>5, <2>6, <2>7, <2>8, <2>9, <2>10, <2>11,
       <2>12, <2>13, <2>14 DEF Next, Offer
<1>3. QED
  BY <1>1, <1>2, PTL DEF Spec

-----------------------------------------------------------------------------
(* Names: the list of listeners, and any copy of it, holds a name once. *)

NamesInv == DistinctNames(broadcastChannels) /\ DistinctNames(listeners)

(* No step renames a registration. *)
LEMMA NamesFixed ==
    ASSUME TypeOK, [Next]_vars
    PROVE  \A r \in 1..Len(registered) : NameOf(r)' = NameOf(r)
<1> USE DEF TypeOK, RegistryTypes, NameOf
<1>1. ASSUME NEW l \in Listener, Add(l)
      PROVE  \A r \in 1..Len(registered) : NameOf(r)' = NameOf(r)
  BY <1>1 DEF Add
<1>2. CASE Drop
  <2>1. registered' = [registered EXCEPT ![Head(listeners)].dropped = @ + 1]
    BY <1>2 DEF Drop
  <2>2. \A r \in 1..Len(registered) : registered[r] \in RegisteredListener
    OBVIOUS
  <2>3. QED
    BY <2>1, <2>2 DEF RegisteredListener
<1>3. CASE registered' = registered
  BY <1>3
<1>4. registered' = registered \/ Drop \/ \E l \in Listener : Add(l)
  BY DEF Next, Offer, vars, registry, outside, Send, Remove, Handle, Broadcast, Stop,
         Receive, Snapshot, Skip, Deliver, StopReporter, Cancel
<1>5. QED
  BY <1>1, <1>2, <1>3, <1>4

LEMMA WithoutDistinct ==
    ASSUME TypeOK, NamesInv, NEW i \in 1..Len(broadcastChannels),
           broadcastChannels' = Without(broadcastChannels, i)
    PROVE  \A j, k \in 1..Len(broadcastChannels') :
               NameOf(broadcastChannels'[j]) = NameOf(broadcastChannels'[k]) => j = k
<1>1. broadcastChannels \in Seq(1..Len(registered))
  BY DEF TypeOK, RegistryTypes
<1>2. /\ Len(broadcastChannels') = Len(broadcastChannels) - 1
      /\ \A j \in 1..(Len(broadcastChannels) - 1) :
            broadcastChannels'[j] = broadcastChannels[IF j < i THEN j ELSE j + 1]
  BY <1>1, WithoutType
<1>3. Len(broadcastChannels) \in Nat
  BY <1>1
<1>4. SUFFICES ASSUME NEW j \in 1..Len(broadcastChannels'), NEW k \in 1..Len(broadcastChannels'),
                      NameOf(broadcastChannels'[j]) = NameOf(broadcastChannels'[k])
               PROVE  j = k
  OBVIOUS
<1> DEFINE jj == IF j < i THEN j ELSE j + 1
           kk == IF k < i THEN k ELSE k + 1
<1>5. jj \in 1..Len(broadcastChannels) /\ kk \in 1..Len(broadcastChannels)
  BY <1>2, <1>3
<1>6. NameOf(broadcastChannels[jj]) = NameOf(broadcastChannels[kk])
  BY <1>2, <1>3, <1>4
<1>7. jj = kk
  BY <1>5, <1>6 DEF NamesInv, DistinctNames
<1>8. QED
  BY <1>2, <1>3, <1>7

(***************************************************************************)
(* Add refuses a name in use and nothing else lists a registration, so the *)
(* list of listeners and the broadcaster's copy of it hold every name at   *)
(* most once.                                                              *)
(***************************************************************************)
THEOREM DispatchNames == Spec => []NamesInv
<1>1. Init => NamesInv
  BY DEF Init, NamesInv, DistinctNames
<1>2. TypeOK /\ TypeOK' /\ NamesInv /\ [Next]_vars => NamesInv'
  <2> SUFFICES ASSUME TypeOK, TypeOK', NamesInv, [Next]_vars
               PROVE  NamesInv'
    OBVIOUS
  <2>1. \A r \in 1..Len(registered) : NameOf(r)' = NameOf(r)
    BY NamesFixed
  <2>2. /\ broadcastChannels \in Seq(1..Len(registered))
        /\ listeners \in Seq(1..Len(registered))
        /\ Len(registered) \in Nat
    BY DEF TypeOK, RegistryTypes
  <2>3. ASSUME UNCHANGED broadcastChannels
        PROVE  DistinctNames(broadcastChannels)'
    BY <2>1, <2>2, <2>3 DEF NamesInv, DistinctNames
  <2>4. ASSUME UNCHANGED listeners
        PROVE  DistinctNames(listeners)'
    <3>1. \A i \in 1..Len(listeners) : listeners[i] \in 1..Len(registered)
      BY <2>2
    <3>2. \A i \in 1..Len(listeners) : NameOf(listeners[i])' = NameOf(listeners[i])
      BY <2>1, <2>4, <3>1
    <3>3. QED
      BY <2>4, <3>2 DEF NamesInv, DistinctNames
  <2>5. ASSUME NEW l \in Listener, Add(l)
        PROVE  NamesInv'
    <3>1. /\ Len(broadcastChannels') = Len(broadcastChannels) + 1
          /\ \A i \in 1..Len(broadcastChannels) :
                /\ broadcastChannels'[i] = broadcastChannels[i]
                /\ NameOf(broadcastChannels[i]) # l
          /\ broadcastChannels'[Len(broadcastChannels) + 1] = Len(registered) + 1
          /\ listeners' = listeners
      BY <2>2, <2>5 DEF Add
    <3>2. registered'[Len(registered) + 1].name = l
      BY <2>2, <2>5 DEF Add, TypeOK, RegistryTypes
    <3>3. DistinctNames(broadcastChannels)'
      <4>0. PICK n \in Nat : n = Len(broadcastChannels)
        BY <2>2
      <4>1. NameOf(broadcastChannels[n + 1])' = l
        BY <3>1, <3>2, <4>0 DEF NameOf
      <4>2. \A i \in 1..n : broadcastChannels[i] \in 1..Len(registered)
        BY <2>2, <4>0
      <4>3. \A i \in 1..n : NameOf(broadcastChannels[i])' = NameOf(broadcastChannels[i])
        BY <2>1, <3>1, <4>0, <4>2 DEF NameOf
      <4>4. 1..(n + 1) = 1..n \cup {n + 1}
        OBVIOUS
      <4>5. SUFFICES ASSUME NEW i \in 1..(n + 1), NEW j \in 1..(n + 1),
                            NameOf(broadcastChannels[i])' = NameOf(broadcastChannels[j])'
                     PROVE  i = j
        BY <3>1, <4>0 DEF DistinctNames
      <4>6. CASE i \in 1..n /\ j \in 1..n
        BY <4>0, <4>3, <4>5, <4>6 DEF NamesInv, DistinctNames
      <4>7. CASE i = n + 1 /\ j \in 1..n
        BY <3>1, <4>0, <4>1, <4>3, <4>5, <4>7
      <4>8. CASE i \in 1..n /\ j = n + 1
        BY <3>1, <4>0, <4>1, <4>3, <4>5, <4>8
      <4>9. QED
        BY <4>4, <4>6, <4>7, <4>8
    <3>4. QED
      BY <2>4, <3>1, <3>3 DEF NamesInv
  <2>6. ASSUME NEW l \in Listener, Remove(l)
        PROVE  NamesInv'
    <3>1. PICK i \in 1..Len(broadcastChannels) :
              broadcastChannels' = Without(broadcastChannels, i)
      BY <2>6 DEF Remove
    <3>2. \A j, k \in 1..Len(broadcastChannels') :
               NameOf(broadcastChannels'[j]) = NameOf(broadcastChannels'[k]) => j = k
      BY <3>1, WithoutDistinct
    <3>3. registered' = registered /\ listeners' = listeners
      BY <2>6 DEF Remove
    <3>4. DistinctNames(broadcastChannels)'
      BY <3>2, <3>3 DEF DistinctNames, NameOf
    <3>5. QED
      BY <2>4, <3>3, <3>4 DEF NamesInv
  <2>7. CASE Snapshot
    BY <2>3, <2>1, <2>2, <2>7 DEF Snapshot, registry, NamesInv, DistinctNames
  <2>8. CASE Skip \/ Deliver \/ Drop
    <3>1. listeners # << >> /\ listeners' = Tail(listeners)
          /\ broadcastChannels' = broadcastChannels
      BY <2>8 DEF Skip, Deliver, Drop, registry
    <3>2. /\ Len(listeners') = Len(listeners) - 1
          /\ \A i \in 1..Len(listeners') : listeners'[i] = listeners[i + 1]
      BY <2>2, <3>1
    <3>3. \A i \in 1..Len(listeners') : i + 1 \in 1..Len(listeners)
      BY <2>2, <3>2
    <3>4. \A i \in 1..Len(listeners') : NameOf(listeners[i])' = NameOf(listeners[i + 1])
      BY <2>1, <2>2, <3>2, <3>3
    <3>5. DistinctNames(listeners)'
      <4>1. \A i, j \in 1..Len(listeners') :
                NameOf(listeners[i + 1]) = NameOf(listeners[j + 1]) => i + 1 = j + 1
        BY <3>3 DEF NamesInv, DistinctNames
      <4>2. QED
        BY <3>4, <4>1 DEF DistinctNames
    <3>6. QED
      BY <2>3, <3>1, <3>5 DEF NamesInv
  <2>9. CASE UNCHANGED <<broadcastChannels, listeners>>
    BY <2>3, <2>4, <2>9 DEF NamesInv
  <2>10. QED
    BY <2>5, <2>6, <2>7, <2>8, <2>9
    DEF Next, Offer, vars, registry, Send, Handle, Broadcast, Stop, Receive,
        StopReporter, Cancel
<1>3. QED
  BY <1>1, <1>2, DispatchTypes, PTL DEF Spec

-----------------------------------------------------------------------------
(* Refinement: every step is a step of LossyFanout or leaves it alone. *)

(* Taking the head of a channel into the handler changes nothing together. *)
LEMMA HandKeepsOrder ==
    ASSUME NEW S, NEW h \in Seq(S), NEW c \in Seq(S), c # << >>
    PROVE  Append(h, Head(c)) \o Tail(c) = h \o c
  OBVIOUS

(* A message put at the end of the channel comes last. *)
LEMMA SendComesLast ==
    ASSUME NEW S, NEW h \in Seq(S), NEW c \in Seq(S), NEW m \in S
    PROVE  h \o Append(c, m) = Append(h \o c, m)
  OBVIOUS

LEMMA NamesAreListeners ==
    TypeOK => \A r \in 1..Len(registered) : NameOf(r) \in Listener
<1> SUFFICES ASSUME TypeOK, NEW r \in 1..Len(registered)
             PROVE  NameOf(r) \in Listener
  OBVIOUS
<1>1. registered[r] \in RegisteredListener
  BY DEF TypeOK, RegistryTypes
<1>2. QED
  BY <1>1 DEF NameOf, RegisteredListener

(* The names still to be served, less the first, are those of the tail. *)
LEMMA TailServesOthers ==
    ASSUME TypeOK, NamesInv, listeners # << >>
    PROVE  {NameOf(Tail(listeners)[i]) : i \in 1..Len(Tail(listeners))}
               = {NameOf(listeners[i]) : i \in 1..Len(listeners)}
                     \ {NameOf(Head(listeners))}
<1>1. /\ Len(listeners) \in Nat
      /\ Len(Tail(listeners)) = Len(listeners) - 1
      /\ \A i \in 1..(Len(listeners) - 1) : Tail(listeners)[i] = listeners[i + 1]
      /\ Head(listeners) = listeners[1]
  BY DEF TypeOK, RegistryTypes
<1>2. \A i \in 1..Len(listeners) :
          NameOf(listeners[i]) = NameOf(listeners[1]) => i = 1
  BY <1>1 DEF NamesInv, DistinctNames
<1>3. ASSUME NEW i \in 1..(Len(listeners) - 1)
      PROVE  /\ i + 1 \in 1..Len(listeners)
             /\ NameOf(Tail(listeners)[i]) = NameOf(listeners[i + 1])
             /\ NameOf(listeners[i + 1]) # NameOf(listeners[1])
  BY <1>1, <1>2
<1>4. ASSUME NEW i \in 1..Len(listeners), NameOf(listeners[i]) # NameOf(listeners[1])
      PROVE  i - 1 \in 1..(Len(listeners) - 1) /\ Tail(listeners)[i - 1] = listeners[i]
  BY <1>1, <1>4
<1>5. QED
  BY <1>1, <1>3, <1>4

(***************************************************************************)
(* The message dispatcher implements LossyFanout: the refinement the       *)
(* registry run checks on two listeners, for any number of them.           *)
(***************************************************************************)
THEOREM DispatchRefines == Spec => ImplementsLossyFanout
<1>1. Init => Abstract!Init
  <2> SUFFICES ASSUME Init
               PROVE  Abstract!Init
    OBVIOUS
  <2>1. \A l \in Listener : handled[l] = << >> /\ channel[l] = << >>
    BY DEF Init
  <2>2. Got = [l \in Listener |-> << >>]
    BY <2>1 DEF Got
  <2>3. Pending = {}
    BY DEF Init, Pending
  <2>4. QED
    BY <2>2, <2>3 DEF Abstract!Init, Init
<1>2. TypeOK /\ TypeOK' /\ NamesInv /\ [Next]_vars => [Abstract!Next]_Abstract!vars
  <2> SUFFICES ASSUME TypeOK, TypeOK', NamesInv, [Next]_vars
               PROVE  [Abstract!Next]_Abstract!vars
    OBVIOUS
  <2>1. \A r \in 1..Len(registered) : NameOf(r)' = NameOf(r)
    BY NamesFixed
  <2>2. /\ listeners \in Seq(1..Len(registered))
        /\ \A i \in 1..Len(listeners) : listeners[i] \in 1..Len(registered)
        /\ \A i \in 1..Len(listeners') : listeners'[i] \in 1..Len(registered')
    <3>1. RegistryTypes /\ RegistryTypes'
      BY DEF TypeOK
    <3>2. /\ listeners \in Seq(1..Len(registered))
          /\ listeners' \in Seq(1..Len(registered'))
      BY <3>1 DEF RegistryTypes
    <3>3. QED
      BY <3>2
  <2>3. /\ handled \in [Listener -> Seq(Msg)]
        /\ channel \in [Listener -> Seq(Msg)]
    BY DEF TypeOK, ChannelTypes
  <2>4. ASSUME UNCHANGED <<pc, listeners>>
        PROVE  UNCHANGED Pending
    <3>1. \A i \in 1..Len(listeners) : NameOf(listeners[i])' = NameOf(listeners[i])
      BY <2>1, <2>2, <2>4 DEF NameOf
    <3>2. QED
      BY <2>4, <3>1 DEF Pending
  <2>5. ASSUME UNCHANGED <<handled, channel>>
        PROVE  UNCHANGED Got
    BY <2>5 DEF Got
  <2>6. /\ Pending \subseteq Listener
        /\ Pending' \subseteq Listener
    <3>1. \A i \in 1..Len(listeners) : NameOf(listeners[i]) \in Listener
      BY <2>2, NamesAreListeners
    <3>2. \A r \in 1..Len(registered') : NameOf(r)' \in Listener
      <4> SUFFICES ASSUME NEW r \in 1..Len(registered')
                   PROVE  registered'[r].name \in Listener
        BY DEF NameOf
      <4>1. RegistryTypes'
        BY DEF TypeOK
      <4>2. registered'[r] \in RegisteredListener
        BY <4>1 DEF RegistryTypes
      <4>3. QED
        BY <4>2 DEF RegisteredListener
    <3>3. \A i \in 1..Len(listeners') : NameOf(listeners[i])' \in Listener
      BY <2>2, <3>2 DEF NameOf
    <3>4. QED
      BY <3>1, <3>3 DEF Pending
  <2>7. ASSUME UNCHANGED <<pc, listeners, handled, channel, log>>
        PROVE  UNCHANGED Abstract!vars
    BY <2>4, <2>5, <2>7 DEF Abstract!vars
  <2>8. ASSUME NEW l \in Listener, Handle(l)
        PROVE  UNCHANGED Abstract!vars
    <3>1. Append(handled[l], Head(channel[l])) \o Tail(channel[l]) = handled[l] \o channel[l]
      BY <2>3, <2>8, HandKeepsOrder DEF Handle
    <3>2. \A k \in Listener : handled'[k] \o channel'[k] = handled[k] \o channel[k]
      BY <2>3, <2>8, <3>1 DEF Handle
    <3>3. UNCHANGED Got
      BY <3>2 DEF Got
    <3>4. UNCHANGED <<pc, listeners, log>>
      BY <2>8 DEF Handle
    <3>5. QED
      BY <2>4, <3>3, <3>4 DEF Abstract!vars
  <2>9. CASE Receive
    <3>1. Head(incomingChannel) \in Msg
      BY <2>9 DEF Receive, TypeOK, LoopTypes
    <3>2. Pending = {} /\ Pending' = Listener
      BY <2>9 DEF Receive, Pending
    <3>3. UNCHANGED Got
      BY <2>5, <2>9 DEF Receive, outside
    <3>4. Abstract!Publish(Head(incomingChannel), Listener)
      BY <2>9, <3>2, <3>3 DEF Receive, Abstract!Publish
    <3>5. QED
      BY <3>1, <3>4 DEF Abstract!Next
  <2>10. CASE Snapshot
    <3>1. Pending = Listener /\ UNCHANGED <<log, Got>>
      BY <2>5, <2>10 DEF Snapshot, Pending, outside
    <3>2. Pending' = Pending \ (Listener \ Pending')
      BY <2>6, <3>1
    <3>3. Abstract!PassOver(Listener \ Pending')
      BY <3>1, <3>2 DEF Abstract!PassOver
    <3>4. QED
      BY <3>3 DEF Abstract!Next
  <2>11. CASE Skip \/ Deliver \/ Drop
    <3> DEFINE l == NameOf(Head(listeners))
    <3>1. /\ listeners # << >>
          /\ listeners' = Tail(listeners)
          /\ UNCHANGED <<pc, log, handled>>
      BY <2>11 DEF Skip, Deliver, Drop, outside
    <3>2. pc = "loop" /\ log # << >> /\ canMsg = log[Len(log)] /\ canMsg \in Msg
      BY <3>1 DEF TypeOK, LoopTypes
    <3>3. /\ Head(listeners) = listeners[1]
          /\ 1 \in 1..Len(listeners)
          /\ \A i \in 1..Len(Tail(listeners)) : Tail(listeners)[i] \in 1..Len(registered)
      BY <2>2, <3>1
    <3>4. l \in Pending /\ l \in Listener
      BY <2>6, <3>2, <3>3 DEF Pending
    <3>5. Pending' = Pending \ {l}
      <4>1. Pending' = {NameOf(listeners[i])' : i \in 1..Len(Tail(listeners))}
        BY <3>1, <3>2 DEF Pending
      <4>2. \A i \in 1..Len(Tail(listeners)) :
                NameOf(listeners[i])' = NameOf(Tail(listeners)[i])
        BY <2>1, <3>1, <3>3 DEF NameOf
      <4>3. QED
        BY <3>1, <3>2, <4>1, <4>2, TailServesOthers DEF Pending
    <3>6. CASE Skip \/ Drop
      <4>1. UNCHANGED Got
        BY <2>5, <3>1, <3>6 DEF Skip, Drop
      <4>2. Abstract!PassOver({l})
        BY <3>1, <3>5, <4>1 DEF Abstract!PassOver
      <4>3. QED
        BY <3>4, <4>2 DEF Abstract!Next
    <3>7. CASE Deliver
      <4>1. canMsg \in Wanted[l]
        BY <3>2, <3>4, <3>7 DEF Deliver, Wanted
      <4>2. channel' = [channel EXCEPT ![l] = Append(@, canMsg)]
        BY <3>7 DEF Deliver
      <4>3. handled[l] \o Append(channel[l], canMsg) = Append(handled[l] \o channel[l], canMsg)
        BY <2>3, <3>2, <3>4, SendComesLast
      <4>4. Got' = [Got EXCEPT ![l] = Append(@, canMsg)]
        BY <2>3, <3>1, <3>4, <4>2, <4>3 DEF Got
      <4>5. Abstract!Deliver(l)
        BY <3>1, <3>2, <3>4, <3>5, <4>1, <4>4 DEF Abstract!Deliver
      <4>6. QED
        BY <3>4, <4>5 DEF Abstract!Next
    <3>8. QED
      BY <2>11, <3>6, <3>7
  <2>12. ASSUME NEW c \in Conn, Send(c)
         PROVE  UNCHANGED Abstract!vars
    BY <2>7, <2>12 DEF Send
  <2>13. ASSUME NEW l \in Listener, Add(l) \/ Remove(l)
         PROVE  UNCHANGED Abstract!vars
    BY <2>7, <2>13 DEF Add, Remove, outside
  <2>14. CASE Broadcast \/ Stop
    <3>1. UNCHANGED <<handled, channel, log>> /\ Pending' = Pending
      <4>1. /\ UNCHANGED <<handled, channel, log, listeners, registered>>
            /\ pc # "snapshot" /\ pc' # "snapshot"
        BY <2>14 DEF Broadcast, Stop, outside, registry
      <4>2. QED
        BY <4>1 DEF Pending, NameOf
    <3>2. QED
      BY <2>5, <3>1 DEF Abstract!vars
  <2>15. CASE StopReporter \/ Cancel
    BY <2>7, <2>15 DEF StopReporter, Cancel
  <2>16. CASE UNCHANGED vars
    BY <2>7, <2>16 DEF vars
  <2>17. QED
    BY <2>8, <2>9, <2>10, <2>11, <2>12, <2>13, <2>14, <2>15, <2>16 DEF Next, Offer
<1>3. QED
  BY <1>1, <1>2, DispatchTypes, DispatchNames, PTL
  DEF Spec, ImplementsLossyFanout, Abstract!Spec

Fanout == INSTANCE LossyFanout_proofs WITH Wants <- Wanted, pending <- Pending, got <- Got

(***************************************************************************)
(* What a listener's handler received, then what its channel holds, is a   *)
(* subsequence of the messages the broadcaster took, and passes the        *)
(* listener's filter: the promise of LossyFanout, carried over by the      *)
(* refinement.                                                             *)
(***************************************************************************)
THEOREM DispatchInOrder == Spec => []DeliveredInOrder
<1>1. Abstract!Init => Fanout!Init
  BY DEF Abstract!Init, Fanout!Init
<1>2. [Abstract!Next]_Abstract!vars => [Fanout!Next]_Fanout!vars
  BY DEF Abstract!Next, Abstract!vars, Abstract!Publish, Abstract!PassOver, Abstract!Deliver,
         Fanout!Next, Fanout!vars, Fanout!Publish, Fanout!PassOver, Fanout!Deliver
<1>3. Fanout!InOrder => DeliveredInOrder
  BY DEF Fanout!InOrder, Fanout!IsSubsequence, Fanout!Embeds,
         DeliveredInOrder, Abstract!InOrder, Abstract!IsSubsequence, Abstract!Embeds
<1>4. Fanout!Spec => []Fanout!InOrder
  BY Fanout!FanoutInOrder
<1>5. QED
  BY <1>1, <1>2, <1>3, <1>4, DispatchRefines, PTL
  DEF ImplementsLossyFanout, Abstract!Spec, Fanout!Spec

-----------------------------------------------------------------------------
(* Accounting: a registration's balance, and what a step can do to it.  The *)
(* span of a registration never reaches beyond the last snapshot.           *)

Balanced(r) ==
    span[r].delivered + registered[r].dropped + StillToOffer(r)
        = Cardinality(AnswerableFor(r))

Balance(r) ==
    /\ Balanced(r)
    /\ span[r].from <= Horizon
    /\ span[r].upto <= Horizon

AccountInv == \A r \in 1..Len(registered) : Balance(r)

LEMMA FieldTypes ==
    ASSUME TypeOK, NEW r \in 1..Len(registered)
    PROVE  /\ span[r].from \in Nat
           /\ span[r].upto \in Nat
           /\ span[r].delivered \in Nat
           /\ registered[r].dropped \in Nat
           /\ Horizon \in Nat
           /\ Len(log) \in Nat
           /\ Horizon <= Len(log)
           /\ LastAnswerable(r) \in Nat
<1>1. span[r] \in Registration /\ registered[r] \in RegisteredListener
  BY DEF TypeOK, RegistryTypes
<1>2. Horizon \in Nat /\ Len(log) \in Nat /\ Horizon <= Len(log)
  BY DEF Horizon, TypeOK, LoopTypes
<1>3. /\ span[r].from \in Nat
      /\ span[r].upto \in Nat
      /\ span[r].delivered \in Nat
  BY <1>1 DEF Registration
<1>4. registered[r].dropped \in Nat
  BY <1>1 DEF RegisteredListener
<1>5. QED
  BY <1>2, <1>3, <1>4 DEF LastAnswerable

LEMMA AnswerableFinite ==
    ASSUME TypeOK, NEW r \in 1..Len(registered)
    PROVE  /\ IsFiniteSet(AnswerableFor(r))
           /\ Cardinality(AnswerableFor(r)) \in Nat
<1>1. IsFiniteSet((span[r].from + 1)..LastAnswerable(r))
  <2>1. span[r].from + 1 \in Int /\ LastAnswerable(r) \in Int
    BY FieldTypes
  <2>2. QED
    BY <2>1, FS_Interval
<1>2. AnswerableFor(r) \subseteq (span[r].from + 1)..LastAnswerable(r)
  BY DEF AnswerableFor
<1>3. QED
  BY <1>1, <1>2, FS_Subset, FS_CardinalityType

(* A step that leaves the counters, the span and the pending offer of r    *)
(* alone leaves its balance alone, even if the log grows.                  *)
LEMMA BalanceFrozen ==
    ASSUME TypeOK, NEW r \in 1..Len(registered), Balance(r),
           NameOf(r)' = NameOf(r),
           registered'[r].dropped = registered[r].dropped,
           span'[r] = span[r],
           StillToOffer(r)' = StillToOffer(r),
           LastAnswerable(r)' = LastAnswerable(r),
           Horizon' = Horizon,
           \A p \in 1..Len(log) : log'[p] = log[p]
    PROVE  Balance(r)'
<1>1. LastAnswerable(r) <= Len(log)
  BY FieldTypes DEF LastAnswerable, Balance
<1>2. \A p \in (span[r].from + 1)..LastAnswerable(r) : p \in 1..Len(log)
  BY <1>1, FieldTypes
<1>3. \A p \in (span[r].from + 1)..LastAnswerable(r) :
          Passes(NameOf(r), log[p])' <=> Passes(NameOf(r), log[p])
  BY <1>2 DEF Passes
<1>4. AnswerableFor(r)' = AnswerableFor(r)
  BY <1>3 DEF AnswerableFor
<1>5. QED
  BY <1>4 DEF Balance, Balanced

(* Before the new message, every listed registration answers for the       *)
(* messages up to the horizon; the snapshot moves the horizon to include   *)
(* the message taken last, and offers it to whoever is listed.             *)
LEMMA SnapshotBalances ==
    ASSUME TypeOK, Snapshot, NEW r \in 1..Len(registered), Balance(r)
    PROVE  Balance(r)'
<1> DEFINE n == Len(log)
           S == AnswerableFor(r)
           m == canMsg
<1>1. /\ UNCHANGED <<registered, broadcastChannels, span, log, canMsg>>
      /\ listeners = << >>
      /\ listeners' = broadcastChannels
      /\ pc = "snapshot" /\ pc' = "loop"
      /\ n \in Nat /\ n > 0
      /\ m = log[n]
      /\ Horizon = n - 1 /\ Horizon' = n
  BY DEF Snapshot, registry, TypeOK, LoopTypes, Horizon
<1>2. /\ IsFiniteSet(S)
      /\ Cardinality(S) \in Nat
      /\ span[r].from \in Nat /\ span[r].from <= n - 1
      /\ span[r].upto \in Nat /\ span[r].upto <= n - 1
  BY <1>1, FieldTypes, AnswerableFinite DEF Balance
<1>3. StillToOffer(r) = 0
  BY <1>1 DEF StillToOffer, AwaitsOffer
<1>4. /\ NameOf(r)' = NameOf(r)
      /\ IsRegistered(r)' = IsRegistered(r)
      /\ AwaitsOffer(r)' = IsRegistered(r)
      /\ \A p : Passes(NameOf(r), log[p])' = Passes(NameOf(r), log[p])
      /\ Passes(NameOf(r), canMsg)' = Passes(NameOf(r), m)
  BY <1>1 DEF NameOf, IsRegistered, AwaitsOffer, Passes
<1>5. CASE ~ IsRegistered(r)
  <2>1. LastAnswerable(r)' = LastAnswerable(r)
    BY <1>1, <1>4, <1>5 DEF LastAnswerable
  <2>2. AnswerableFor(r)' = S
    BY <1>1, <1>4, <2>1 DEF AnswerableFor
  <2>3. StillToOffer(r)' = 0
    BY <1>4, <1>5 DEF StillToOffer
  <2>4. QED
    BY <1>1, <1>2, <1>3, <2>2, <2>3 DEF Balance, Balanced
<1>6. CASE IsRegistered(r)
  <2>1. LastAnswerable(r) = n - 1 /\ LastAnswerable(r)' = n
    BY <1>1, <1>4, <1>6 DEF LastAnswerable
  <2>2. S = {p \in (span[r].from + 1)..(n - 1) : Passes(NameOf(r), log[p])}
    BY <2>1 DEF AnswerableFor
  <2>3. AnswerableFor(r)' = {p \in (span[r].from + 1)..n : Passes(NameOf(r), log[p])}
    BY <1>1, <1>4, <2>1 DEF AnswerableFor
  <2>4. (span[r].from + 1)..n = ((span[r].from + 1)..(n - 1)) \cup {n}
    BY <1>1, <1>2
  <2>5. n \notin S
    BY <1>1, <1>2, <2>2
  <2>6. CASE Passes(NameOf(r), m)
    <3>1. AnswerableFor(r)' = S \cup {n}
      BY <1>1, <2>2, <2>3, <2>4, <2>6
    <3>2. Cardinality(S \cup {n}) = Cardinality(S) + 1
      BY <1>2, <2>5, FS_AddElement
    <3>3. StillToOffer(r)' = 1
      BY <1>4, <1>6, <2>6 DEF StillToOffer
    <3>4. span[r].delivered + registered[r].dropped = Cardinality(S)
      BY <1>3, FieldTypes DEF Balance, Balanced
    <3>5. span'[r] = span[r] /\ registered'[r] = registered[r]
      BY <1>1
    <3>6. Balanced(r)'
      BY <1>2, <3>1, <3>2, <3>3, <3>4, <3>5 DEF Balanced
    <3>7. QED
      BY <1>1, <1>2, <3>5, <3>6 DEF Balance
  <2>7. CASE ~ Passes(NameOf(r), m)
    <3>1. AnswerableFor(r)' = S
      BY <1>1, <2>2, <2>3, <2>4, <2>7
    <3>2. StillToOffer(r)' = 0
      BY <1>4, <2>7 DEF StillToOffer
    <3>3. QED
      BY <1>1, <1>2, <1>3, <3>1, <3>2 DEF Balance, Balanced
  <2>8. QED
    BY <2>6, <2>7
<1>7. QED
  BY <1>5, <1>6

(* The registration at the head of the copy is offered the message: it     *)
(* leaves the list, and one counter grows if its filter lets it pass.      *)
LEMMA OfferBalances ==
    ASSUME TypeOK, NamesInv, Skip \/ Deliver \/ Drop,
           \A q \in 1..Len(registered) : NameOf(q)' = NameOf(q),
           NEW r \in 1..Len(registered), Balance(r)
    PROVE  Balance(r)'
<1>1. /\ listeners # << >>
      /\ listeners' = Tail(listeners)
      /\ UNCHANGED <<broadcastChannels, pc, log, canMsg>>
  BY DEF Skip, Deliver, Drop, registry
<1>2. /\ Len(listeners) \in Nat /\ Len(listeners) > 0
      /\ Len(listeners') = Len(listeners) - 1
      /\ \A i \in 1..(Len(listeners) - 1) : listeners'[i] = listeners[i + 1]
      /\ Head(listeners) = listeners[1]
      /\ listeners[1] \in 1..Len(registered)
  BY <1>1 DEF TypeOK, RegistryTypes
<1>3. /\ span \in Seq(Registration)
      /\ registered \in Seq(RegisteredListener)
      /\ Len(span) = Len(registered)
  BY DEF TypeOK, RegistryTypes
<1>4. /\ NameOf(r)' = NameOf(r)
      /\ Horizon' = Horizon
      /\ LastAnswerable(r)' = IF IsRegistered(r) THEN Horizon ELSE span'[r].upto
      /\ Passes(NameOf(r), canMsg)' = Passes(NameOf(r), canMsg)
  BY <1>1 DEF Horizon, LastAnswerable, IsRegistered, Passes
<1>5. CASE r # listeners[1]
  <2>1. span'[r] = span[r] /\ registered'[r] = registered[r]
    BY <1>2, <1>3, <1>5 DEF Skip, Deliver, Drop, registry
  <2>2. AwaitsOffer(r)' = AwaitsOffer(r)
    <3>1. ASSUME NEW i \in 1..Len(listeners'), listeners'[i] = r
          PROVE  i + 1 \in 1..Len(listeners) /\ listeners[i + 1] = r
      BY <1>2, <3>1
    <3>2. ASSUME NEW i \in 1..Len(listeners), listeners[i] = r
          PROVE  i - 1 \in 1..Len(listeners') /\ listeners'[i - 1] = r
      BY <1>2, <1>5, <3>2
    <3>3. QED
      BY <3>1, <3>2 DEF AwaitsOffer
  <2>3. StillToOffer(r)' = StillToOffer(r)
    BY <1>4, <2>2 DEF StillToOffer
  <2>4. LastAnswerable(r)' = LastAnswerable(r)
    BY <1>4, <2>1 DEF LastAnswerable
  <2>5. QED
    BY <1>1, <1>4, <2>1, <2>3, <2>4, BalanceFrozen
<1>6. CASE r = listeners[1]
  <2>1. AwaitsOffer(r)
    BY <1>2, <1>6 DEF AwaitsOffer
  <2>2. ~ AwaitsOffer(r)'
    <3>1. SUFFICES ASSUME NEW i \in 1..Len(listeners'), listeners'[i] = r
                   PROVE  FALSE
      BY DEF AwaitsOffer
    <3>2. i + 1 \in 1..Len(listeners) /\ 1 \in 1..Len(listeners) /\ listeners[i + 1] = r
      BY <1>2, <3>1
    <3>3. i + 1 = 1
      BY <1>6, <3>2 DEF NamesInv, DistinctNames
    <3>4. QED
      BY <1>2, <3>3
  <2>3. StillToOffer(r)' = 0
    BY <2>2 DEF StillToOffer
  <2>4. /\ StillToOffer(r) = IF Passes(NameOf(r), canMsg) THEN 1 ELSE 0
    BY <2>1 DEF StillToOffer
  <2>5. span[r] \in Registration /\ registered[r] \in RegisteredListener
    BY <1>3
  <2>6. /\ span'[r].from = span[r].from
        /\ span'[r].upto = span[r].upto
        /\ span'[r].delivered + registered'[r].dropped
               = span[r].delivered + registered[r].dropped + StillToOffer(r)
    <3>1. CASE Skip
      <4>1. ~ Passes(NameOf(r), canMsg)
        BY <1>2, <1>6, <3>1 DEF Skip
      <4>2. span' = span /\ registered' = registered
        BY <3>1 DEF Skip, registry
      <4>3. QED
        BY <2>4, <4>1, <4>2, FieldTypes
    <3>2. CASE Deliver
      <4>1. Passes(NameOf(r), canMsg)
        BY <1>2, <1>6, <3>2 DEF Deliver
      <4>2. span' = [span EXCEPT ![r].delivered = @ + 1] /\ registered' = registered
        BY <1>2, <1>6, <3>2 DEF Deliver
      <4>3. /\ span'[r].from = span[r].from
            /\ span'[r].upto = span[r].upto
            /\ span'[r].delivered = span[r].delivered + 1
        BY <1>3, <2>5, <4>2 DEF Registration
      <4>4. registered'[r].dropped = registered[r].dropped
        BY <4>2
      <4>5. StillToOffer(r) = 1
        BY <2>4, <4>1
      <4>6. span[r].delivered \in Nat /\ registered[r].dropped \in Nat
        BY <2>5, FieldTypes
      <4>7. QED
        BY <4>3, <4>4, <4>5, <4>6
    <3>3. CASE Drop
      <4>1. Passes(NameOf(r), canMsg)
        BY <1>2, <1>6, <3>3 DEF Drop
      <4>2. registered' = [registered EXCEPT ![r].dropped = @ + 1] /\ span' = span
        BY <1>2, <1>6, <3>3 DEF Drop
      <4>3. registered'[r].dropped = registered[r].dropped + 1
        BY <1>3, <2>5, <4>2 DEF RegisteredListener
      <4>4. span'[r] = span[r]
        BY <4>2
      <4>5. StillToOffer(r) = 1
        BY <2>4, <4>1
      <4>6. span[r].delivered \in Nat /\ registered[r].dropped \in Nat
        BY <2>5, FieldTypes
      <4>7. QED
        BY <4>3, <4>4, <4>5, <4>6
    <3>4. QED
      BY <3>1, <3>2, <3>3
  <2>7. AnswerableFor(r)' = AnswerableFor(r)
    BY <1>1, <1>4, <2>6 DEF AnswerableFor, LastAnswerable, Passes
  <2>8. span'[r].delivered + registered'[r].dropped = Cardinality(AnswerableFor(r))
    BY <2>6 DEF Balance, Balanced
  <2>9. Balanced(r)'
    <3>1. Cardinality(AnswerableFor(r)) \in Nat
      BY AnswerableFinite
    <3>2. QED
      BY <2>3, <2>7, <2>8, <3>1 DEF Balanced
  <2>10. QED
    BY <1>4, <2>6, <2>9 DEF Balance
<1>7. QED
  BY <1>5, <1>6

(* A new registration owes nothing; the others do not notice it. *)
LEMMA AddBalances ==
    ASSUME TypeOK, TypeOK', NEW l \in Listener, Add(l), AccountInv,
           \A q \in 1..Len(registered) : NameOf(q)' = NameOf(q)
    PROVE  AccountInv'
<1>1. /\ registered \in Seq(RegisteredListener)
      /\ span \in Seq(Registration)
      /\ Len(span) = Len(registered)
      /\ listeners \in Seq(1..Len(registered))
      /\ broadcastChannels \in Seq(1..Len(registered))
      /\ Horizon \in Nat
  BY FieldTypes, HorizonType DEF TypeOK, RegistryTypes
<1>2. PICK n \in Nat : n = Len(registered)
  BY <1>1
<1>3. /\ Len(registered') = n + 1
      /\ Len(span') = n + 1
      /\ UNCHANGED <<pc, canMsg, listeners, log>>
      /\ registered'[n + 1].dropped = 0
      /\ span'[n + 1].from = Horizon
      /\ span'[n + 1].upto = 0
      /\ span'[n + 1].delivered = 0
      /\ \A r \in 1..n : registered'[r] = registered[r] /\ span'[r] = span[r]
      /\ Len(broadcastChannels') = Len(broadcastChannels) + 1
      /\ broadcastChannels'[Len(broadcastChannels) + 1] = n + 1
      /\ \A i \in 1..Len(broadcastChannels) : broadcastChannels'[i] = broadcastChannels[i]
  BY <1>1, <1>2 DEF Add
<1>4. Horizon' = Horizon
  BY <1>3 DEF Horizon
<1>5. ASSUME NEW r \in 1..n
      PROVE  Balance(r)'
  <2>1. NameOf(r)' = NameOf(r) /\ Balance(r)
    BY <1>2 DEF AccountInv
  <2>2. IsRegistered(r)' = IsRegistered(r)
    <3>1. r # n + 1
      OBVIOUS
    <3>2. Len(broadcastChannels) \in Nat
      BY <1>1
    <3>3. QED
      BY <1>3, <3>1, <3>2 DEF IsRegistered
  <2>3. LastAnswerable(r)' = LastAnswerable(r)
    BY <1>3, <1>4, <2>2 DEF LastAnswerable
  <2>4. StillToOffer(r)' = StillToOffer(r)
    BY <1>3, <2>1 DEF StillToOffer, AwaitsOffer, Passes
  <2>5. QED
    BY <1>2, <1>3, <1>4, <2>1, <2>3, <2>4, BalanceFrozen
<1>6. Balance(n + 1)'
  <2>1. \A i \in 1..Len(listeners) : listeners[i] # n + 1
    BY <1>1, <1>2
  <2>2. StillToOffer(n + 1)' = 0
    BY <1>3, <2>1 DEF StillToOffer, AwaitsOffer
  <2>3. IsRegistered(n + 1)'
    <3>1. Len(broadcastChannels) + 1 \in 1..Len(broadcastChannels')
      BY <1>1, <1>3
    <3>2. QED
      BY <1>3, <3>1 DEF IsRegistered
  <2>4. AnswerableFor(n + 1)' = {}
    <3>1. LastAnswerable(n + 1)' = Horizon
      BY <1>4, <2>3 DEF LastAnswerable
    <3>2. (Horizon + 1)..Horizon = {}
      BY <1>1
    <3>3. QED
      BY <1>3, <3>1, <3>2 DEF AnswerableFor
  <2>5. Cardinality(AnswerableFor(n + 1)') = 0
    BY <2>4, FS_EmptySet
  <2>6. Balanced(n + 1)'
    BY <1>3, <2>2, <2>5 DEF Balanced
  <2>7. QED
    BY <1>1, <1>3, <1>4, <2>6 DEF Balance
<1>7. 1..Len(registered') = 1..n \cup {n + 1}
  BY <1>3
<1>8. QED
  BY <1>5, <1>6, <1>7 DEF AccountInv

(* Remove closes the span of one registration where it stands. *)
LEMMA RemoveBalances ==
    ASSUME TypeOK, NamesInv, NEW l \in Listener, Remove(l),
           NEW r \in 1..Len(registered), Balance(r)
    PROVE  Balance(r)'
<1>1. PICK i \in 1..Len(broadcastChannels) :
          /\ broadcastChannels' = Without(broadcastChannels, i)
          /\ span' = [span EXCEPT ![broadcastChannels[i]].upto = Horizon]
          /\ UNCHANGED <<registered, pc, canMsg, listeners, log>>
  BY DEF Remove
<1>2. /\ broadcastChannels \in Seq(1..Len(registered))
      /\ broadcastChannels[i] \in 1..Len(registered)
      /\ span \in Seq(Registration)
      /\ Len(span) = Len(registered)
      /\ span[r] \in Registration
      /\ Len(broadcastChannels) \in Nat
  BY DEF TypeOK, RegistryTypes
<1>3. /\ Len(broadcastChannels') = Len(broadcastChannels) - 1
      /\ \A j \in 1..(Len(broadcastChannels) - 1) :
            broadcastChannels'[j] = broadcastChannels[IF j < i THEN j ELSE j + 1]
  BY <1>1, <1>2, WithoutType
<1>4. /\ Horizon' = Horizon /\ Horizon \in Nat
      /\ NameOf(r)' = NameOf(r)
      /\ StillToOffer(r)' = StillToOffer(r)
  BY <1>1, FieldTypes DEF Horizon, NameOf, StillToOffer, AwaitsOffer, Passes
<1>5. CASE r # broadcastChannels[i]
  <2>1. span'[r] = span[r]
    BY <1>1, <1>2, <1>5
  <2>2. IsRegistered(r)' = IsRegistered(r)
    <3>1. ASSUME NEW j \in 1..Len(broadcastChannels'), broadcastChannels'[j] = r
          PROVE  IsRegistered(r)
      <4> DEFINE jj == IF j < i THEN j ELSE j + 1
      <4>1. jj \in 1..Len(broadcastChannels) /\ broadcastChannels[jj] = r
        BY <1>2, <1>3, <3>1
      <4>2. QED
        BY <4>1 DEF IsRegistered
    <3>2. ASSUME NEW j \in 1..Len(broadcastChannels), broadcastChannels[j] = r
          PROVE  \E k \in 1..Len(broadcastChannels') : broadcastChannels'[k] = r
      <4>1. CASE j < i
        <5>1. j \in 1..(Len(broadcastChannels) - 1)
          BY <1>2, <4>1
        <5>2. broadcastChannels'[j] = broadcastChannels[j]
          BY <1>3, <4>1, <5>1
        <5>3. QED
          BY <1>3, <3>2, <5>1, <5>2
      <4>2. CASE j > i
        <5>1. j - 1 \in 1..(Len(broadcastChannels) - 1) /\ ~ (j - 1 < i)
          BY <1>2, <4>2
        <5>2. broadcastChannels'[j - 1] = broadcastChannels[j]
          BY <1>3, <5>1
        <5>3. QED
          BY <1>3, <3>2, <5>1, <5>2
      <4>3. QED
        BY <1>5, <3>2, <4>1, <4>2
    <3>3. QED
      BY <3>1, <3>2 DEF IsRegistered
  <2>3. LastAnswerable(r)' = LastAnswerable(r)
    BY <1>4, <2>1, <2>2 DEF LastAnswerable
  <2>4. QED
    BY <1>1, <1>4, <2>1, <2>3, BalanceFrozen
<1>6. CASE r = broadcastChannels[i]
  <2>1. /\ span'[r].from = span[r].from
        /\ span'[r].delivered = span[r].delivered
        /\ span'[r].upto = Horizon
    BY <1>1, <1>2, <1>6 DEF Registration
  <2>2. IsRegistered(r)
    BY <1>6 DEF IsRegistered
  <2>3. ~ IsRegistered(r)'
    <3>1. SUFFICES ASSUME NEW j \in 1..Len(broadcastChannels'), broadcastChannels'[j] = r
                   PROVE  FALSE
      BY DEF IsRegistered
    <3> DEFINE jj == IF j < i THEN j ELSE j + 1
    <3>2. jj \in 1..Len(broadcastChannels) /\ jj # i /\ broadcastChannels[jj] = r
      BY <1>2, <1>3, <3>1
    <3>3. jj = i
      BY <1>6, <3>2 DEF NamesInv, DistinctNames
    <3>4. QED
      BY <3>2, <3>3
  <2>4. LastAnswerable(r) = Horizon /\ LastAnswerable(r)' = Horizon
    BY <2>1, <2>2, <2>3 DEF LastAnswerable
  <2>5. AnswerableFor(r)' = AnswerableFor(r)
    BY <1>1, <1>4, <2>1, <2>4 DEF AnswerableFor, Passes
  <2>6. Balanced(r)'
    BY <1>1, <1>4, <2>1, <2>5 DEF Balance, Balanced
  <2>7. QED
    BY <1>4, <2>1, <2>6 DEF Balance
<1>7. QED
  BY <1>5, <1>6

(***************************************************************************)
(* Every matching message of a registration's life is delivered, counted   *)
(* as dropped, or about to be offered, and exactly one of these: for any   *)
(* listeners, filters and capacities, and any interleaving of Add and      *)
(* Remove with the fan-out.                                                *)
(***************************************************************************)
THEOREM DispatchAccounting == Spec => []Accounting
<1>1. Init => AccountInv
  BY DEF Init, AccountInv
<1>2. TypeOK /\ TypeOK' /\ NamesInv /\ AccountInv /\ [Next]_vars => AccountInv'
  <2> SUFFICES ASSUME TypeOK, TypeOK', NamesInv, AccountInv, [Next]_vars
               PROVE  AccountInv'
    OBVIOUS
  <2>1. \A r \in 1..Len(registered) : NameOf(r)' = NameOf(r)
    BY NamesFixed
  <2>2. ASSUME UNCHANGED <<registered, span, broadcastChannels, listeners, canMsg>>,
               Horizon' = Horizon,
               \A p \in 1..Len(log) : log'[p] = log[p]
        PROVE  AccountInv'
    <3> SUFFICES ASSUME NEW r \in 1..Len(registered)
                 PROVE  Balance(r)'
      BY <2>2 DEF AccountInv
    <3>1. StillToOffer(r)' = StillToOffer(r) /\ LastAnswerable(r)' = LastAnswerable(r)
      BY <2>1, <2>2 DEF StillToOffer, AwaitsOffer, Passes, LastAnswerable, IsRegistered
    <3>2. QED
      BY <2>1, <2>2, <3>1, BalanceFrozen DEF AccountInv
  <2>3. ASSUME NEW l \in Listener, Add(l)
        PROVE  AccountInv'
    BY <2>1, <2>3, AddBalances
  <2>4. ASSUME NEW l \in Listener, Remove(l)
        PROVE  AccountInv'
    <3>1. registered' = registered
      BY <2>4 DEF Remove
    <3>2. QED
      BY <2>4, <3>1, RemoveBalances DEF AccountInv
  <2>5. CASE Snapshot
    <3>1. registered' = registered
      BY <2>5 DEF Snapshot, registry
    <3>2. QED
      BY <2>5, <3>1, SnapshotBalances DEF AccountInv
  <2>6. CASE Skip \/ Deliver \/ Drop
    <3>1. Len(registered') = Len(registered)
      BY <2>6 DEF Skip, Deliver, Drop, registry, TypeOK, RegistryTypes
    <3>2. QED
      BY <2>1, <2>6, <3>1, OfferBalances DEF AccountInv
  <2>7. CASE Receive
    <3>1. /\ UNCHANGED <<registered, span, broadcastChannels, listeners>>
          /\ listeners = << >>
          /\ log' = Append(log, Head(incomingChannel))
          /\ pc = "loop" /\ pc' = "snapshot"
          /\ Len(log) \in Nat
          /\ log \in Seq(Msg)
      BY <2>7 DEF Receive, registry, TypeOK, LoopTypes
    <3>2. Horizon' = Horizon /\ \A p \in 1..Len(log) : log'[p] = log[p]
      BY <3>1 DEF Horizon
    <3> SUFFICES ASSUME NEW r \in 1..Len(registered)
                 PROVE  Balance(r)'
      BY <3>1 DEF AccountInv
    <3>3. StillToOffer(r)' = 0 /\ StillToOffer(r) = 0
      BY <3>1 DEF StillToOffer, AwaitsOffer
    <3>4. LastAnswerable(r)' = LastAnswerable(r)
      BY <3>1, <3>2 DEF LastAnswerable, IsRegistered
    <3>5. QED
      BY <2>1, <3>1, <3>2, <3>3, <3>4, BalanceFrozen DEF AccountInv
  <2>8. ASSUME NEW l \in Listener, Handle(l)
        PROVE  AccountInv'
    BY <2>2, <2>8 DEF Handle, registry, Horizon
  <2>9. ASSUME NEW c \in Conn, Send(c)
        PROVE  AccountInv'
    BY <2>2, <2>9 DEF Send, registry, Horizon
  <2>10. CASE Broadcast \/ Stop \/ StopReporter \/ Cancel
    BY <2>2, <2>10 DEF Broadcast, Stop, StopReporter, Cancel, registry, Horizon
  <2>11. CASE UNCHANGED vars
    BY <2>2, <2>11 DEF vars, Horizon
  <2>12. QED
    BY <2>3, <2>4, <2>5, <2>6, <2>7, <2>8, <2>9, <2>10, <2>11 DEF Next, Offer
<1>3. AccountInv => Accounting
  BY DEF AccountInv, Balance, Balanced, Accounting
<1>4. QED
  BY <1>1, <1>2, <1>3, DispatchTypes, DispatchNames, PTL DEF Spec
=============================================================================
