------------------------- MODULE LossyFanout_proofs -------------------------
(* The fan-out's promise follows from its specification, for any listeners, *)
(* messages and filters.                                                     *)
EXTENDS LossyFanout, TLAPS

(***************************************************************************)
(* The variables of the abstract fan-out keep their types: a log of        *)
(* messages and one such sequence for every listener.                      *)
(***************************************************************************)
THEOREM FanoutTypes == Spec => []TypeOK
<1>1. Init => TypeOK
  BY DEF Init, TypeOK
<1>2. TypeOK /\ [Next]_vars => TypeOK'
  <2> SUFFICES ASSUME TypeOK, [Next]_vars
               PROVE  TypeOK'
    OBVIOUS
  <2> USE DEF TypeOK
  <2>1. ASSUME NEW m \in Msg, NEW ls \in SUBSET Listener, Publish(m, ls)
        PROVE  TypeOK'
    BY <2>1 DEF Publish
  <2>2. ASSUME NEW ls \in SUBSET Listener, PassOver(ls)
        PROVE  TypeOK'
    BY <2>2 DEF PassOver
  <2>3. ASSUME NEW l \in Listener, Deliver(l)
        PROVE  TypeOK'
    <3>1. log[Len(log)] \in Msg
      BY <2>3 DEF Deliver
    <3>2. QED
      BY <2>3, <3>1 DEF Deliver
  <2>4. CASE UNCHANGED vars
    BY <2>4 DEF vars
  <2>5. QED
    BY <2>1, <2>2, <2>3, <2>4 DEF Next
<1>3. QED
  BY <1>1, <1>2, PTL DEF Spec

(***************************************************************************)
(* The embedding of got[l] in the log that witnesses InOrder stops short   *)
(* of the latest message while that may still be delivered to l.           *)
(***************************************************************************)
EmbedsSoFar(l) ==
    \E f \in [1..Len(got[l]) -> 1..Len(log)] :
        /\ Embeds(f, got[l], log)
        /\ l \in pending => \A i \in 1..Len(got[l]) : f[i] < Len(log)

InOrderInv ==
    \A l \in Listener :
        /\ EmbedsSoFar(l)
        /\ \A i \in 1..Len(got[l]) : got[l][i] \in Wants[l]

(* A longer log embeds what the shorter one did, and stops short of its end. *)
LEMMA PublishKeepsEmbedding ==
    ASSUME TypeOK, NEW m \in Msg, NEW ls \in SUBSET Listener, Publish(m, ls), NEW l \in Listener, EmbedsSoFar(l)
    PROVE  EmbedsSoFar(l)'
<1>1. PICK f \in [1..Len(got[l]) -> 1..Len(log)] : Embeds(f, got[l], log)
  BY DEF EmbedsSoFar
<1>2. /\ log \in Seq(Msg)
      /\ log' = Append(log, m)
      /\ Len(log') = Len(log) + 1
      /\ \A k \in 1..Len(log) : log'[k] = log[k]
      /\ got' = got
  BY DEF TypeOK, Publish
<1>3. /\ Len(log) \in Nat
      /\ Len(got[l]) \in Nat
  BY <1>2 DEF TypeOK
<1>4. f \in [1..Len(got'[l]) -> 1..Len(log')]
  BY <1>1, <1>2, <1>3
<1>5. Embeds(f, got'[l], log')
  BY <1>1, <1>2, <1>3, <1>4 DEF Embeds
<1>6. \A i \in 1..Len(got'[l]) : f[i] < Len(log')
  BY <1>1, <1>2, <1>3
<1>7. QED
  BY <1>4, <1>5, <1>6 DEF EmbedsSoFar

(* Delivering the latest message extends the embedding by the log's last position. *)
LEMMA DeliverKeepsEmbedding ==
    ASSUME TypeOK, NEW d \in Listener, Deliver(d), NEW l \in Listener, EmbedsSoFar(l)
    PROVE  EmbedsSoFar(l)'
<1>1. PICK f \in [1..Len(got[l]) -> 1..Len(log)] :
          /\ Embeds(f, got[l], log)
          /\ l \in pending => \A i \in 1..Len(got[l]) : f[i] < Len(log)
  BY DEF EmbedsSoFar
<1>2. /\ log' = log
      /\ log \in Seq(Msg)
      /\ Len(log) \in Nat
      /\ Len(log) > 0
      /\ got \in [Listener -> Seq(Msg)]
      /\ log[Len(log)] \in Msg
      /\ Len(got[l]) \in Nat
  BY DEF TypeOK, Deliver
<1>3. CASE l # d
  <2>1. got'[l] = got[l] /\ (l \in pending' => l \in pending)
    BY <1>2, <1>3 DEF Deliver
  <2>2. QED
    BY <1>1, <1>2, <2>1 DEF EmbedsSoFar, Embeds
<1>4. CASE l = d
  <2> DEFINE n == Len(got[l])
             g == [i \in 1..(n + 1) |-> IF i <= n THEN f[i] ELSE Len(log)]
  <2>1. /\ got'[l] = Append(got[l], log[Len(log)])
        /\ Len(got'[l]) = n + 1
        /\ l \in pending
        /\ l \notin pending'
    BY <1>2, <1>4 DEF Deliver
  <2>2. /\ \A i \in 1..n : got'[l][i] = got[l][i]
        /\ got'[l][n + 1] = log[Len(log)]
    BY <1>2, <2>1
  <2>3. g \in [1..Len(got'[l]) -> 1..Len(log')]
    BY <1>1, <1>2, <2>1
  <2>4. \A i \in 1..(n + 1) : got'[l][i] = log'[g[i]]
    <3>1. ASSUME NEW i \in 1..n
          PROVE  got'[l][i] = log'[g[i]]
      BY <1>1, <1>2, <2>2, <3>1 DEF Embeds
    <3>2. got'[l][n + 1] = log'[g[n + 1]]
      BY <1>2, <2>2
    <3>3. \A i \in 1..(n + 1) : i \in 1..n \/ i = n + 1
      BY <1>2
    <3> HIDE DEF g
    <3>4. QED
      BY <3>1, <3>2, <3>3
  <2>5. \A i, j \in 1..(n + 1) : i < j => g[i] < g[j]
    BY <1>1, <1>2, <2>1 DEF Embeds
  <2>6. Embeds(g, got'[l], log')
    BY <2>1, <2>3, <2>4, <2>5 DEF Embeds
  <2>7. QED
    BY <2>1, <2>3, <2>6 DEF EmbedsSoFar
<1>5. QED
  BY <1>3, <1>4

(***************************************************************************)
(* InOrder holds of the fan-out: whatever a listener got is a subsequence  *)
(* of what was published and passes its filter.                            *)
(***************************************************************************)
THEOREM FanoutInOrder == Spec => []InOrder
<1>1. Init => InOrderInv
  <2> SUFFICES ASSUME Init, NEW l \in Listener
               PROVE  EmbedsSoFar(l) /\ \A i \in 1..Len(got[l]) : got[l][i] \in Wants[l]
    BY DEF InOrderInv
  <2>1. got[l] = << >> /\ log = << >> /\ pending = {}
    BY DEF Init
  <2> DEFINE f == [i \in 1..Len(got[l]) |-> 0]
  <2>2. Len(got[l]) = 0 /\ 1..Len(got[l]) = {}
    BY <2>1
  <2>3. f \in [1..Len(got[l]) -> 1..Len(log)]
    BY <2>2
  <2> HIDE DEF f
  <2>4. Embeds(f, got[l], log)
    BY <2>2, <2>3 DEF Embeds
  <2>5. QED
    BY <2>2, <2>3, <2>4 DEF EmbedsSoFar
<1>2. TypeOK /\ InOrderInv /\ [Next]_vars => InOrderInv'
  <2> SUFFICES ASSUME TypeOK, InOrderInv, [Next]_vars, NEW l \in Listener
               PROVE  EmbedsSoFar(l)' /\ \A i \in 1..Len(got'[l]) : got'[l][i] \in Wants[l]
    BY DEF InOrderInv
  <2>0. EmbedsSoFar(l) /\ \A i \in 1..Len(got[l]) : got[l][i] \in Wants[l]
    BY DEF InOrderInv
  <2>1. ASSUME NEW m \in Msg, NEW ls \in SUBSET Listener, Publish(m, ls)
        PROVE  EmbedsSoFar(l)' /\ got' = got
    BY <2>0, <2>1, PublishKeepsEmbedding DEF Publish
  <2>2. ASSUME NEW ls \in SUBSET Listener, PassOver(ls)
        PROVE  EmbedsSoFar(l)' /\ got' = got
    BY <2>0, <2>2 DEF PassOver, EmbedsSoFar
  <2>3. ASSUME NEW d \in Listener, Deliver(d)
        PROVE  EmbedsSoFar(l)' /\ \A i \in 1..Len(got'[l]) : got'[l][i] \in Wants[l]
    <3>1. EmbedsSoFar(l)'
      BY <2>0, <2>3, DeliverKeepsEmbedding
    <3>2. got[l] \in Seq(Msg) /\ log[Len(log)] \in Msg
      BY <2>3 DEF TypeOK, Deliver
    <3>3. got'[l] = IF l = d THEN Append(got[l], log[Len(log)]) ELSE got[l]
      BY <2>3 DEF TypeOK, Deliver
    <3>4. l = d => log[Len(log)] \in Wants[l]
      BY <2>3 DEF Deliver
    <3>5. QED
      BY <2>0, <3>1, <3>2, <3>3, <3>4
  <2>4. CASE UNCHANGED vars
    BY <2>0, <2>4 DEF vars, EmbedsSoFar
  <2>5. QED
    BY <2>0, <2>1, <2>2, <2>3, <2>4 DEF Next
<1>3. InOrderInv => InOrder
  BY DEF InOrderInv, EmbedsSoFar, InOrder, IsSubsequence
<1>4. QED
  BY <1>1, <1>2, <1>3, FanoutTypes, PTL DEF Spec
=============================================================================
