---------------------------- MODULE Dedupe_proofs ----------------------------
(* The dedupe filter's promises, proved for any callers, messages, hash      *)
(* function, identifiers and window.                                          *)
EXTENDS Dedupe, TLAPS

LEMMA Bounds == timeout \in Nat /\ MaxTime \in Nat /\ MaxCalls \in Nat
  BY DedupeAssumption

LEMMA KeyType ==
    ASSUME TypeOK, NEW c \in Caller
    PROVE  KeyOf(c) \in Key
<1>1. HashOf \in [Msg -> Key]
  BY DedupeAssumption
<1>2. QED
  BY <1>1 DEF TypeOK, KeyOf

(* Whoever is past Lock holds the mutex, so at most one caller is. *)
MutexInv == \A c \in Caller : pc[c] \in {"lookup", "sweep", "renew"} => mu = c

TypeInv == TypeOK /\ MutexInv

LEMMA TypeInvariant == Spec => []TypeInv
<1> USE Bounds
<1>1. Init => TypeInv
  BY DEF Init, TypeOK, TypeInv, MutexInv
<1>2. TypeInv /\ [Next]_vars => TypeInv'
  <2> SUFFICES ASSUME TypeOK, MutexInv, [Next]_vars
               PROVE  TypeOK' /\ MutexInv'
    BY DEF TypeInv
  <2>1. CASE Tick
    BY <2>1 DEF Tick, TypeOK, MutexInv
  <2>2. ASSUME NEW c \in Caller, NEW m \in Msg, Call(c, m)
        PROVE  TypeOK' /\ MutexInv'
    BY <2>2 DEF Call, TypeOK, MutexInv
  <2>3. ASSUME NEW c \in Caller, Lock(c)
        PROVE  TypeOK' /\ MutexInv'
    <3>1. \A d \in Caller : mu # d
      BY <2>3, DedupeAssumption DEF Lock
    <3>2. QED
      BY <2>3, <3>1 DEF Lock, TypeOK, MutexInv
  <2>4. ASSUME NEW c \in Caller, Insert(c)
        PROVE  TypeOK' /\ MutexInv'
    <3>1. KeyOf(c) \in Key
      BY KeyType
    <3>2. passes' \in [Key -> Seq(0..MaxTime)]
      BY <2>4, <3>1 DEF Insert, Record, TypeOK
    <3>3. /\ DOMAIN storage' = DOMAIN storage \cup {KeyOf(c)}
          /\ \A h \in DOMAIN storage' : storage'[h] \in 0..MaxTime
      BY <2>4, <3>1 DEF Insert, Put, TypeOK
    <3>4. QED
      BY <2>4, <3>1, <3>2, <3>3 DEF Insert, TypeOK, MutexInv
  <2>5. ASSUME NEW c \in Caller, Sweep(c)
        PROVE  TypeOK' /\ MutexInv'
    <3>1. PICK h \in unswept :
              /\ unswept' = unswept \ {h}
              /\ storage' = IF Expired(h) THEN Delete(storage, h) ELSE storage
      BY <2>5 DEF Sweep
    <3>2. /\ DOMAIN storage' \subseteq DOMAIN storage
          /\ DOMAIN storage \ {h} \subseteq DOMAIN storage'
          /\ \A k \in DOMAIN storage' : storage'[k] = storage[k]
      BY <3>1 DEF Delete
    <3>3. QED
      BY <2>5, <3>1, <3>2 DEF Sweep, TypeOK, MutexInv
  <2>6. ASSUME NEW c \in Caller, SweepDone(c)
        PROVE  TypeOK' /\ MutexInv'
    BY <2>6 DEF SweepDone, Return, TypeOK, MutexInv
  <2>7. ASSUME NEW c \in Caller, FindExpired(c)
        PROVE  TypeOK' /\ MutexInv'
    BY <2>7 DEF FindExpired, TypeOK, MutexInv
  <2>8. ASSUME NEW c \in Caller, Renew(c)
        PROVE  TypeOK' /\ MutexInv'
    <3>1. KeyOf(c) \in Key
      BY KeyType
    <3>2. passes' \in [Key -> Seq(0..MaxTime)]
      BY <2>8, <3>1 DEF Renew, Record, TypeOK
    <3>3. /\ DOMAIN storage' = DOMAIN storage \cup {KeyOf(c)}
          /\ \A h \in DOMAIN storage' : storage'[h] \in 0..MaxTime
      BY <2>8, <3>1 DEF Renew, Put, TypeOK
    <3>4. QED
      BY <2>8, <3>1, <3>2, <3>3 DEF Renew, Return, TypeOK, MutexInv
  <2>9. ASSUME NEW c \in Caller, FindDuplicate(c)
        PROVE  TypeOK' /\ MutexInv'
    BY <2>9 DEF FindDuplicate, Return, TypeOK, MutexInv
  <2>10. CASE UNCHANGED vars
    BY <2>10 DEF vars, TypeOK, MutexInv
  <2>11. QED
    BY <2>1, <2>2, <2>3, <2>4, <2>5, <2>6, <2>7, <2>8, <2>9, <2>10 DEF Next
<1>3. QED
  BY <1>1, <1>2, PTL DEF Spec

(***************************************************************************)
(* Type correctness: what is stored is a past reading of the clock, and    *)
(* the sweep only looks at hashes still in storage.                        *)
(***************************************************************************)
THEOREM DedupeTypes == Spec => []TypeOK
  BY TypeInvariant, PTL DEF TypeInv

-----------------------------------------------------------------------------
(* The inductive invariant.  What storage forgets is of no consequence: a  *)
(* hash that is not in it was never seen, or its window is over.           *)

LastPass(h) == passes[h][Len(passes[h])]

StorageAgrees(h) ==
    /\ h \in DOMAIN storage => passes[h] # << >> /\ storage[h] = LastPass(h)
    /\ h \notin DOMAIN storage /\ passes[h] # << >> => now - LastPass(h) >= timeout

Spaced(h) ==
    /\ \A i \in 1..Len(passes[h]) : passes[h][i] <= now
    /\ \A i \in 1..(Len(passes[h]) - 1) : passes[h][i + 1] - passes[h][i] >= timeout

RenewInv ==
    \A c \in Caller :
        pc[c] = "renew" => KeyOf(c) \in DOMAIN storage /\ Expired(KeyOf(c))

WindowInv ==
    /\ \A h \in Key : StorageAgrees(h) /\ Spaced(h)
    /\ RenewInv
    /\ DropsOnlyDuplicates

(* Writing a hash whose window is over, or that is new, keeps the spacing. *)
LEMMA PassKeepsWindow ==
    ASSUME TypeOK, NEW k \in Key, NEW h \in Key, StorageAgrees(h), Spaced(h),
           k \notin DOMAIN storage \/ Expired(k),
           storage' = Put(storage, k, now),
           passes' = [passes EXCEPT ![k] = Append(@, now)],
           now' = now
    PROVE  StorageAgrees(h)' /\ Spaced(h)'
<1> USE Bounds
<1>1. /\ passes[h] \in Seq(0..MaxTime)
      /\ Len(passes[h]) \in Nat
      /\ now \in 0..MaxTime
  BY DEF TypeOK
<1>2. CASE h # k
  <2>1. /\ passes'[h] = passes[h]
        /\ h \in DOMAIN storage' <=> h \in DOMAIN storage
        /\ h \in DOMAIN storage => storage'[h] = storage[h]
    BY <1>2 DEF Put, TypeOK
  <2>2. StorageAgrees(h)'
    BY <2>1 DEF StorageAgrees, LastPass
  <2>3. Spaced(h)'
    BY <2>1 DEF Spaced
  <2>4. QED
    BY <2>2, <2>3
<1>3. CASE h = k
  <2>1. PICK n \in Nat : n = Len(passes[h])
    BY <1>1
  <2>2. /\ Len(passes'[h]) = n + 1
        /\ passes'[h][n + 1] = now
        /\ \A i \in 1..n : passes'[h][i] = passes[h][i]
        /\ \A i \in 1..n : passes[h][i] \in 0..MaxTime
        /\ passes'[h] # << >>
    <3>1. passes'[h] = Append(passes[h], now)
      BY <1>3 DEF TypeOK
    <3> DEFINE s == Append(passes[h], now)
    <3>2. /\ Len(s) = n + 1
          /\ s[n + 1] = now
          /\ \A i \in 1..n : s[i] = passes[h][i] /\ passes[h][i] \in 0..MaxTime
          /\ s # << >>
      <4>1. passes[h] \in Seq(0..MaxTime) /\ now \in 0..MaxTime
        BY <1>1
      <4>2. /\ Len(s) = Len(passes[h]) + 1
            /\ s[Len(passes[h]) + 1] = now
            /\ \A i \in 1..Len(passes[h]) : s[i] = passes[h][i] /\ passes[h][i] \in 0..MaxTime
            /\ s # << >>
        BY <4>1
      <4> HIDE DEF s
      <4>3. QED
        BY <2>1, <4>2
    <3> HIDE DEF s
    <3>3. passes'[h] = s
      BY <3>1 DEF s
    <3>4. QED
      BY <3>2, <3>3
  <2>3. h \in DOMAIN storage' /\ storage'[h] = now
    BY <1>3 DEF Put
  <2>4. n > 0 => now - passes[h][n] >= timeout
    <3>1. n > 0 => passes[h] # << >>
      BY <1>1, <2>1
    <3>2. QED
      BY <1>3, <2>1, <3>1 DEF StorageAgrees, LastPass, Expired
  <2>5. \A i \in 1..(n + 1) : passes'[h][i] <= now'
    BY <1>1, <2>1, <2>2 DEF Spaced
  <2>6. ASSUME NEW i \in 1..n
        PROVE  passes'[h][i + 1] - passes'[h][i] >= timeout
    <3>1. CASE i = n
      BY <2>2, <2>4, <3>1
    <3>2. CASE i < n
      <4>1. i \in 1..(n - 1) /\ i + 1 \in 1..n
        BY <3>2
      <4>2. passes[h][i + 1] - passes[h][i] >= timeout
        BY <2>1, <4>1 DEF Spaced
      <4>3. QED
        BY <2>2, <4>1, <4>2
    <3>3. i = n \/ i < n
      OBVIOUS
    <3>4. QED
      BY <3>1, <3>2, <3>3
  <2>7. StorageAgrees(h)'
    BY <2>2, <2>3 DEF StorageAgrees, LastPass
  <2>8. Spaced(h)'
    BY <2>2, <2>5, <2>6 DEF Spaced
  <2>9. QED
    BY <2>7, <2>8
<1>4. QED
  BY <1>2, <1>3

(* A verdict to drop stays justified as more passes are recorded. *)
LEMMA VerdictsStay ==
    ASSUME TypeOK, TypeOK', DropsOnlyDuplicates,
           \A h \in Key : \A i \in 1..Len(passes[h]) :
               i \in 1..Len(passes'[h]) /\ passes'[h][i] = passes[h][i],
           \A c \in Caller : verdict'[c] = "drop" =>
               /\ verdict[c] = "drop"
               /\ msg'[c] = msg[c]
               /\ decided'[c] = decided[c]
    PROVE  DropsOnlyDuplicates'
<1> SUFFICES ASSUME NEW c \in Caller, verdict'[c] = "drop"
             PROVE  \E i \in 1..Len(passes'[KeyOf(c)']) :
                        /\ passes'[KeyOf(c)'][i] <= decided'[c]
                        /\ decided'[c] - passes'[KeyOf(c)'][i] < timeout
  BY DEF DropsOnlyDuplicates
<1>1. KeyOf(c)' = KeyOf(c) /\ KeyOf(c) \in Key /\ decided'[c] = decided[c]
  BY KeyType DEF KeyOf
<1>2. PICK i \in 1..Len(passes[KeyOf(c)]) :
          /\ passes[KeyOf(c)][i] <= decided[c]
          /\ decided[c] - passes[KeyOf(c)][i] < timeout
  BY DEF DropsOnlyDuplicates
<1>3. QED
  BY <1>1, <1>2

(* Time passing, or an expired entry deleted, keeps storage in agreement. *)
LEMMA LaterAgrees ==
    ASSUME TypeOK, NEW h \in Key, StorageAgrees(h), Spaced(h),
           UNCHANGED passes, now' \in Nat, now' >= now,
           h \in DOMAIN storage' => h \in DOMAIN storage /\ storage'[h] = storage[h],
           h \in DOMAIN storage /\ h \notin DOMAIN storage' => Expired(h)
    PROVE  StorageAgrees(h)' /\ Spaced(h)'
<1> USE Bounds
<1>1. /\ passes[h] \in Seq(0..MaxTime)
      /\ now \in 0..MaxTime
      /\ \A i \in 1..Len(passes[h]) : passes[h][i] \in 0..MaxTime
  BY DEF TypeOK
<1>2. passes[h] # << >> => LastPass(h) \in 0..MaxTime
  BY <1>1 DEF LastPass
<1>3. LastPass(h)' = LastPass(h)
  BY DEF LastPass
<1>4. StorageAgrees(h)'
  <2>1. CASE h \in DOMAIN storage'
    BY <1>3, <2>1 DEF StorageAgrees
  <2>2. CASE h \notin DOMAIN storage' /\ passes[h] # << >>
    <3>1. now - LastPass(h) >= timeout
      BY <2>2 DEF StorageAgrees, Expired
    <3>2. now' - LastPass(h) >= timeout
      BY <1>1, <1>2, <2>2, <3>1
    <3>3. QED
      BY <1>3, <2>2, <3>2 DEF StorageAgrees
  <2>3. CASE h \notin DOMAIN storage' /\ passes[h] = << >>
    BY <2>3 DEF StorageAgrees
  <2>4. QED
    BY <2>1, <2>2, <2>3
<1>5. Spaced(h)'
  <2>1. \A i \in 1..Len(passes[h]) : passes[h][i] <= now'
    <3>1. \A i \in 1..Len(passes[h]) : passes[h][i] <= now
      BY DEF Spaced
    <3>2. QED
      BY <1>1, <3>1
  <2>2. QED
    BY <2>1 DEF Spaced
<1>6. QED
  BY <1>4, <1>5

LEMMA WindowInvariant == Spec => []WindowInv
<1> USE Bounds
<1>1. Init => WindowInv
  BY DEF Init, WindowInv, StorageAgrees, Spaced, RenewInv, DropsOnlyDuplicates
<1>2. TypeInv /\ TypeInv' /\ WindowInv /\ [Next]_vars => WindowInv'
  <2> SUFFICES ASSUME TypeOK, TypeOK', MutexInv, MutexInv', WindowInv, [Next]_vars
               PROVE  WindowInv'
    BY DEF TypeInv
  <2>0. /\ \A h \in Key : StorageAgrees(h) /\ Spaced(h)
        /\ RenewInv
        /\ DropsOnlyDuplicates
    BY DEF WindowInv
  <2>1. CASE Tick
    <3>1. now' \in Nat /\ now' >= now /\ now \in Nat
      BY <2>1 DEF Tick, TypeOK
    <3>2. \A h \in Key : StorageAgrees(h)' /\ Spaced(h)'
      BY <2>0, <2>1, <3>1, LaterAgrees DEF Tick
    <3>3. RenewInv'
      <4>1. ASSUME NEW c \in Caller, pc[c] = "renew"
            PROVE  KeyOf(c)' \in DOMAIN storage' /\ Expired(KeyOf(c))'
        <5>1. KeyOf(c) \in DOMAIN storage /\ Expired(KeyOf(c))
          BY <2>0, <4>1 DEF RenewInv
        <5>2. storage[KeyOf(c)] \in 0..MaxTime
          BY <5>1 DEF TypeOK
        <5>3. QED
          BY <2>1, <3>1, <5>1, <5>2 DEF Tick, Expired, KeyOf
      <4>2. QED
        BY <2>1, <4>1 DEF Tick, RenewInv
    <3>4. DropsOnlyDuplicates'
      BY <2>0, <2>1, VerdictsStay DEF Tick
    <3>5. QED
      BY <3>2, <3>3, <3>4 DEF WindowInv
  <2>2. ASSUME UNCHANGED <<now, storage, passes>>
        PROVE  \A h \in Key : StorageAgrees(h)' /\ Spaced(h)'
    BY <2>0, <2>2 DEF StorageAgrees, Spaced, LastPass
  <2>3. ASSUME UNCHANGED <<now, storage, msg>>,
               \A c \in Caller : pc'[c] = "renew" => pc[c] = "renew"
        PROVE  RenewInv'
    BY <2>0, <2>3 DEF RenewInv, Expired, KeyOf
  <2>4. ASSUME NEW c \in Caller, NEW m \in Msg, Call(c, m)
        PROVE  WindowInv'
    <3>1. RenewInv'
      <4>1. \A d \in Caller : pc'[d] = "renew" => d # c /\ pc[d] = "renew" /\ msg'[d] = msg[d]
        BY <2>4 DEF Call, TypeOK
      <4>2. QED
        BY <2>0, <2>4, <4>1 DEF Call, RenewInv, Expired, KeyOf
    <3>2. \A d \in Caller : verdict'[d] = "drop" => d # c /\ verdict[d] = "drop"
      BY <2>4 DEF Call, TypeOK
    <3>3. DropsOnlyDuplicates'
      BY <2>0, <2>4, <3>2, VerdictsStay DEF Call, TypeOK
    <3>4. QED
      BY <2>2, <2>4, <3>1, <3>3 DEF Call, WindowInv
  <2>5. ASSUME NEW c \in Caller, Lock(c)
        PROVE  WindowInv'
    <3>1. \A d \in Caller : pc'[d] = "renew" => pc[d] = "renew"
      BY <2>5 DEF Lock, TypeOK
    <3>2. DropsOnlyDuplicates'
      BY <2>0, <2>5, VerdictsStay DEF Lock
    <3>3. QED
      BY <2>2, <2>3, <2>5, <3>1, <3>2 DEF Lock, WindowInv
  <2>6. ASSUME NEW c \in Caller, pc[c] \in {"lookup", "sweep", "renew"},
               pc'[c] # "renew", \A d \in Caller : d # c => pc'[d] = pc[d]
        PROVE  RenewInv'
    <3>1. \A d \in Caller : pc[d] = "renew" => d = c
      BY <2>6 DEF MutexInv
    <3>2. QED
      BY <2>6, <3>1 DEF RenewInv
  <2>7. ASSUME NEW c \in Caller, Insert(c) \/ Renew(c)
        PROVE  WindowInv'
    <3> DEFINE k == KeyOf(c)
    <3>1. /\ k \in Key
          /\ k \notin DOMAIN storage \/ Expired(k)
          /\ storage' = Put(storage, k, now)
          /\ passes' = [passes EXCEPT ![k] = Append(@, now)]
          /\ now' = now
      BY <2>0, <2>7, KeyType DEF Insert, Renew, Record, RenewInv
    <3>2. \A h \in Key : StorageAgrees(h)' /\ Spaced(h)'
      BY <2>0, <3>1, PassKeepsWindow
    <3>3. RenewInv'
      BY <2>6, <2>7 DEF Insert, Renew, Return, TypeOK
    <3>4. \A h \in Key : \A i \in 1..Len(passes[h]) :
              i \in 1..Len(passes'[h]) /\ passes'[h][i] = passes[h][i]
      BY <3>1 DEF TypeOK
    <3>5. DropsOnlyDuplicates'
      BY <2>0, <2>7, <3>4, VerdictsStay DEF Insert, Renew, Return, TypeOK
    <3>6. QED
      BY <3>2, <3>3, <3>5 DEF WindowInv
  <2>8. ASSUME NEW c \in Caller, Sweep(c)
        PROVE  WindowInv'
    <3>1. PICK h \in unswept :
              storage' = IF Expired(h) THEN Delete(storage, h) ELSE storage
      BY <2>8 DEF Sweep
    <3>2. /\ UNCHANGED <<now, pc, msg, verdict, decided, passes>>
          /\ pc[c] = "sweep"
          /\ now \in Nat
      BY <2>8 DEF Sweep, TypeOK
    <3>3. \A k \in Key :
              /\ k \in DOMAIN storage' => k \in DOMAIN storage /\ storage'[k] = storage[k]
              /\ k \in DOMAIN storage /\ k \notin DOMAIN storage' => Expired(k)
      BY <3>1 DEF Delete
    <3>4. \A k \in Key : StorageAgrees(k)' /\ Spaced(k)'
      BY <2>0, <3>2, <3>3, LaterAgrees
    <3>5. RenewInv'
      BY <2>6, <3>2
    <3>6. DropsOnlyDuplicates'
      BY <2>0, <3>2, VerdictsStay
    <3>7. QED
      BY <3>4, <3>5, <3>6 DEF WindowInv
  <2>9. ASSUME NEW c \in Caller, SweepDone(c)
        PROVE  WindowInv'
    <3>1. RenewInv'
      BY <2>6, <2>9 DEF SweepDone, Return, TypeOK
    <3>2. DropsOnlyDuplicates'
      BY <2>0, <2>9, VerdictsStay DEF SweepDone, Return, TypeOK
    <3>3. QED
      BY <2>2, <2>9, <3>1, <3>2 DEF SweepDone, WindowInv
  <2>10. ASSUME NEW c \in Caller, FindExpired(c)
         PROVE  WindowInv'
    <3>1. \A d \in Caller : pc'[d] = "renew" => d = c \/ pc[d] = "renew"
      BY <2>10 DEF FindExpired, TypeOK
    <3>2. RenewInv'
      BY <2>0, <2>10, <3>1 DEF FindExpired, RenewInv, Expired, KeyOf
    <3>3. DropsOnlyDuplicates'
      BY <2>0, <2>10, VerdictsStay DEF FindExpired
    <3>4. QED
      BY <2>2, <2>10, <3>2, <3>3 DEF FindExpired, WindowInv
  <2>11. ASSUME NEW c \in Caller, FindDuplicate(c)
         PROVE  WindowInv'
    <3>1. RenewInv'
      BY <2>6, <2>11 DEF FindDuplicate, Return, TypeOK
    <3>2. DropsOnlyDuplicates'
      <4> DEFINE k == KeyOf(c)
      <4>1. /\ k \in Key /\ k \in DOMAIN storage /\ now - storage[k] < timeout
            /\ storage[k] = passes[k][Len(passes[k])] /\ passes[k] # << >>
            /\ storage[k] \in 0..MaxTime /\ now \in 0..MaxTime
        BY <2>0, <2>11, KeyType DEF FindDuplicate, Expired, StorageAgrees, LastPass, TypeOK
      <4>2. /\ Len(passes[k]) \in 1..Len(passes[k])
            /\ passes[k][Len(passes[k])] <= now
        BY <2>0, <4>1 DEF Spaced, TypeOK
      <4>3. /\ decided'[c] = now
            /\ UNCHANGED <<msg, passes>>
            /\ \A d \in Caller : d # c => verdict'[d] = verdict[d] /\ decided'[d] = decided[d]
        BY <2>11 DEF FindDuplicate, Return, TypeOK
      <4>4. ASSUME NEW d \in Caller, verdict'[d] = "drop"
            PROVE  \E i \in 1..Len(passes[KeyOf(d)]) :
                      /\ passes[KeyOf(d)][i] <= decided'[d]
                      /\ decided'[d] - passes[KeyOf(d)][i] < timeout
        <5>1. CASE d = c
          BY <4>1, <4>2, <4>3, <5>1
        <5>2. CASE d # c
          BY <2>0, <4>3, <4>4, <5>2 DEF DropsOnlyDuplicates
        <5>3. QED
          BY <5>1, <5>2
      <4>5. QED
        BY <4>3, <4>4 DEF DropsOnlyDuplicates, KeyOf
    <3>3. QED
      BY <2>2, <2>11, <3>1, <3>2 DEF FindDuplicate, WindowInv
  <2>12. CASE UNCHANGED vars
    <3>1. DropsOnlyDuplicates'
      BY <2>0, <2>12, VerdictsStay DEF vars
    <3>2. QED
      BY <2>2, <2>3, <2>12, <3>1 DEF vars, WindowInv
  <2>13. QED
    BY <2>1, <2>4, <2>5, <2>7, <2>8, <2>9, <2>10, <2>11, <2>12 DEF Next
<1>3. QED
  BY <1>1, <1>2, TypeInvariant, PTL DEF Spec

(***************************************************************************)
(* Two messages with the same hash are let through at least one window     *)
(* apart, although the sweep forgets hashes and the clock runs on between  *)
(* its readings.                                                           *)
(***************************************************************************)
THEOREM DedupeSpacing == Spec => []OnePassPerWindow
<1>1. WindowInv => OnePassPerWindow
  BY DEF WindowInv, Spaced, OnePassPerWindow
<1>2. QED
  BY <1>1, WindowInvariant, PTL

(***************************************************************************)
(* A message is dropped only if one with its hash was let through less     *)
(* than a window before.                                                   *)
(***************************************************************************)
THEOREM DedupeJustified == Spec => []DropsOnlyDuplicates
  BY WindowInvariant, PTL DEF WindowInv

-----------------------------------------------------------------------------
(* The sweep.  The mutex keeps everybody else from the map, and the pass it *)
(* measures the others by is no later than any reading of its clock.        *)

SweeperPassed == \A c \in Caller : pc[c] = "sweep" => passes[KeyOf(c)] # << >>

LEMMA SweeperPassedKept ==
    ASSUME TypeOK, SweeperPassed, [Next]_vars
    PROVE  SweeperPassed'
<1> SUFFICES ASSUME NEW c \in Caller, pc'[c] = "sweep"
             PROVE  passes'[KeyOf(c)'] # << >>
  BY DEF SweeperPassed
<1>1. ASSUME pc[c] = "sweep", msg'[c] = msg[c],
             NEW d \in Caller, UNCHANGED passes \/ Record(d)
      PROVE  passes'[KeyOf(c)'] # << >>
  <2>1. passes[KeyOf(c)] \in Seq(0..MaxTime) /\ KeyOf(c)' = KeyOf(c) /\ now \in 0..MaxTime
    BY <1>1, KeyType DEF TypeOK, KeyOf
  <2>2. passes[KeyOf(c)] # << >>
    BY <1>1 DEF SweeperPassed
  <2>3. passes'[KeyOf(c)] \in {passes[KeyOf(c)], Append(passes[KeyOf(c)], now)}
    BY <1>1, KeyType DEF Record, TypeOK
  <2>4. QED
    BY <2>1, <2>2, <2>3
<1>2. CASE Tick \/ UNCHANGED vars
  BY <1>1, <1>2 DEF Tick, vars
<1>3. ASSUME NEW d \in Caller, NEW m \in Msg, Call(d, m)
      PROVE  passes'[KeyOf(c)'] # << >>
  BY <1>1, <1>3 DEF Call, TypeOK
<1>4. ASSUME NEW d \in Caller, Insert(d)
      PROVE  passes'[KeyOf(c)'] # << >>
  <2>1. CASE c # d
    BY <1>1, <1>4, <2>1 DEF Insert, TypeOK
  <2>2. CASE c = d
    <3>1. passes[KeyOf(c)] \in Seq(0..MaxTime) /\ KeyOf(c)' = KeyOf(c) /\ now \in 0..MaxTime
      BY <1>4, KeyType DEF Insert, TypeOK, KeyOf
    <3>2. passes'[KeyOf(c)] = Append(passes[KeyOf(c)], now)
      BY <1>4, <2>2, KeyType DEF Insert, Record, TypeOK
    <3>3. QED
      BY <3>1, <3>2
  <2>3. QED
    BY <2>1, <2>2
<1>5. ASSUME NEW d \in Caller,
             Lock(d) \/ Sweep(d) \/ SweepDone(d) \/ FindExpired(d) \/ Renew(d) \/ FindDuplicate(d)
      PROVE  passes'[KeyOf(c)'] # << >>
  BY <1>1, <1>5 DEF Lock, Sweep, SweepDone, FindExpired, Renew, FindDuplicate, Return, TypeOK
<1>6. QED
  BY <1>2, <1>3, <1>4, <1>5 DEF Next

LEMMA SweepKept ==
    ASSUME TypeOK, MutexInv, WindowInv, SweeperPassed, SweepLeavesTheFresh, [Next]_vars
    PROVE  SweepLeavesTheFresh'
<1> USE Bounds
<1> SUFFICES ASSUME NEW c \in Caller, pc'[c] = "sweep",
                    NEW h \in DOMAIN storage', h \notin unswept'
             PROVE  LastPass(KeyOf(c))' - storage'[h] < timeout
  BY DEF SweepLeavesTheFresh, LastPass
<1>1. ASSUME pc[c] = "sweep", UNCHANGED <<storage, unswept, passes>>, msg'[c] = msg[c]
      PROVE  LastPass(KeyOf(c))' - storage'[h] < timeout
  BY <1>1 DEF SweepLeavesTheFresh, LastPass, KeyOf
<1>2. ASSUME NEW d \in Caller, d # c, pc[c] = "sweep"
      PROVE  pc[d] \notin {"lookup", "sweep", "renew"}
  BY <1>2 DEF MutexInv
<1>3. CASE Tick
  BY <1>1, <1>3 DEF Tick
<1>4. ASSUME NEW d \in Caller, NEW m \in Msg, Call(d, m)
      PROVE  LastPass(KeyOf(c))' - storage'[h] < timeout
  BY <1>1, <1>4 DEF Call, TypeOK
<1>5. ASSUME NEW d \in Caller, Lock(d)
      PROVE  LastPass(KeyOf(c))' - storage'[h] < timeout
  BY <1>1, <1>5 DEF Lock, TypeOK
<1>6. ASSUME NEW d \in Caller, Insert(d)
      PROVE  FALSE
  <2>1. c = d
    BY <1>2, <1>6 DEF Insert, TypeOK
  <2>2. DOMAIN storage' = unswept'
    BY <1>6, <2>1 DEF Insert, Put
  <2>3. QED
    BY <2>2
<1>7. ASSUME NEW d \in Caller, Sweep(d)
      PROVE  LastPass(KeyOf(c))' - storage'[h] < timeout
  <2>1. PICK k \in unswept :
            /\ unswept' = unswept \ {k}
            /\ storage' = IF Expired(k) THEN Delete(storage, k) ELSE storage
    BY <1>7 DEF Sweep
  <2>2. UNCHANGED <<now, pc, msg, passes>> /\ c = d /\ pc[c] = "sweep"
    BY <1>2, <1>7 DEF Sweep
  <2>3. h \in DOMAIN storage /\ storage'[h] = storage[h] /\ (h = k => ~ Expired(k))
    BY <2>1 DEF Delete
  <2>4. KeyOf(c)' = KeyOf(c) /\ LastPass(KeyOf(c))' = LastPass(KeyOf(c))
    BY <2>2 DEF KeyOf, LastPass
  <2>5. CASE h # k
    BY <2>1, <2>2, <2>3, <2>4, <2>5 DEF SweepLeavesTheFresh, LastPass
  <2>6. CASE h = k
    <3>1. storage[h] \in 0..MaxTime /\ now \in 0..MaxTime /\ now - storage[h] < timeout
      BY <2>3, <2>6 DEF Expired, TypeOK
    <3>2. LastPass(KeyOf(c)) \in 0..MaxTime /\ LastPass(KeyOf(c)) <= now
      <4> DEFINE p == passes[KeyOf(c)]
      <4>1. KeyOf(c) \in Key /\ p \in Seq(0..MaxTime) /\ p # << >>
        BY <2>2, KeyType DEF TypeOK, SweeperPassed
      <4>2. \A i \in 1..Len(p) : p[i] <= now
        BY <4>1 DEF WindowInv, Spaced
      <4>3. QED
        BY <4>1, <4>2 DEF LastPass
    <3>3. QED
      BY <2>3, <2>4, <3>1, <3>2
  <2>7. QED
    BY <2>5, <2>6
<1>8. ASSUME NEW d \in Caller, SweepDone(d) \/ FindExpired(d) \/ FindDuplicate(d)
      PROVE  LastPass(KeyOf(c))' - storage'[h] < timeout
  BY <1>1, <1>8 DEF SweepDone, FindExpired, FindDuplicate, Return, TypeOK
<1>9. ASSUME NEW d \in Caller, Renew(d)
      PROVE  FALSE
  BY <1>2, <1>9 DEF Renew, Return, TypeOK
<1>10. CASE UNCHANGED vars
  BY <1>1, <1>10 DEF vars
<1>11. QED
  BY <1>3, <1>4, <1>5, <1>6, <1>7, <1>8, <1>9, <1>10 DEF Next

(***************************************************************************)
(* When a sweep ends, whatever it left was inside its window when the new  *)
(* hash was written: what is stored never outlives the traffic.            *)
(***************************************************************************)
THEOREM DedupeSweep == Spec => []SweepLeavesTheFresh
<1>1. Init => SweeperPassed /\ SweepLeavesTheFresh
  BY DEF Init, SweeperPassed, SweepLeavesTheFresh
<1>2. TypeInv /\ WindowInv /\ SweeperPassed /\ SweepLeavesTheFresh /\ [Next]_vars
          => SweeperPassed' /\ SweepLeavesTheFresh'
  BY SweeperPassedKept, SweepKept DEF TypeInv
<1>3. QED
  BY <1>1, <1>2, TypeInvariant, WindowInvariant, PTL DEF Spec
=============================================================================
