------------------------------- MODULE Dedupe -------------------------------
(***************************************************************************)
(* internal/client/dedupe: Filter answers whether a message is to be       *)
(* dropped.  It keeps, per hash of a message's content, the time the last  *)
(* message with that hash was let through, and sweeps the expired entries  *)
(* when it meets a new hash.  A mutex serialises the callers, but the      *)
(* clock runs on between the time.Now and time.Since calls of one call:    *)
(* every reading of the clock is a step of its own.                        *)
(***************************************************************************)
EXTENDS Integers, Sequences, FiniteSets

CONSTANTS Caller,    (* goroutines that call Filter                          *)
          Nobody,    (* the mutex is free                                    *)
          Msg,       (* message contents                                     *)
          Key,       (* hash values                                          *)
          HashOf,    (* hashCanMessageData, collisions included              *)
          IdOf,      (* CAN identifier of a message                          *)
          ids,       (* identifiers to deduplicate; all of them when empty   *)
          timeout,   (* length of the window                                 *)
          MaxTime,   (* bound: how far the clock runs                        *)
          MaxCalls   (* bound: calls of Filter                               *)

ASSUME DedupeAssumption ==
    /\ Nobody \notin Caller
    /\ HashOf \in [Msg -> Key]
    /\ timeout \in Nat
    /\ MaxTime \in Nat
    /\ MaxCalls \in Nat

VARIABLES now,
          storage,   (* from hash to the time of the last pass               *)
          mu,        (* the caller that holds the mutex                      *)
          pc,        (* idle, lock, lookup, sweep, renew                     *)
          msg,       (* the message each caller asks about                   *)
          unswept,   (* hashes the running sweep has yet to look at          *)
          verdict,   (* what the last call returned: none yet, pass, drop    *)
          calls,
          decided,   (* history: clock reading behind a verdict to drop      *)
          passes     (* history: the times written for each hash             *)

vars == <<now, storage, mu, pc, msg, unswept, verdict, calls, decided, passes>>

TypeOK ==
    /\ now \in 0..MaxTime
    /\ DOMAIN storage \subseteq Key
    /\ \A h \in DOMAIN storage : storage[h] \in 0..MaxTime
    /\ mu \in Caller \cup {Nobody}
    /\ pc \in [Caller -> {"idle", "lock", "lookup", "sweep", "renew"}]
    /\ msg \in [Caller -> Msg]
    /\ unswept \subseteq DOMAIN storage
    /\ verdict \in [Caller -> {"none", "pass", "drop"}]
    /\ calls \in 0..MaxCalls
    /\ decided \in [Caller -> 0..MaxTime]
    /\ passes \in [Key -> Seq(0..MaxTime)]

Tracked(m) == ids = {} \/ IdOf[m] \in ids

KeyOf(c) == HashOf[msg[c]]

Expired(h) == now - storage[h] >= timeout

Put(f, h, t) == [k \in DOMAIN f \cup {h} |-> IF k = h THEN t ELSE f[k]]

Delete(f, h) == [k \in DOMAIN f \ {h} |-> f[k]]

-----------------------------------------------------------------------------
Init ==
    /\ now = 0
    /\ storage = << >>
    /\ mu = Nobody
    /\ pc = [c \in Caller |-> "idle"]
    /\ msg \in [Caller -> Msg]
    /\ unswept = {}
    /\ verdict = [c \in Caller |-> "none"]
    /\ calls = 0
    /\ decided = [c \in Caller |-> 0]
    /\ passes = [h \in Key |-> << >>]

Tick ==
    /\ now < MaxTime
    /\ now' = now + 1
    /\ UNCHANGED <<storage, mu, pc, msg, unswept, verdict, calls, decided, passes>>

(* The head of Filter: a message with another identifier passes at once. *)
Call(c, m) ==
    /\ pc[c] = "idle"
    /\ calls < MaxCalls
    /\ calls' = calls + 1
    /\ msg' = [msg EXCEPT ![c] = m]
    /\ pc' = [pc EXCEPT ![c] = IF Tracked(m) THEN "lock" ELSE "idle"]
    /\ verdict' = [verdict EXCEPT ![c] = IF Tracked(m) THEN "none" ELSE "pass"]
    /\ UNCHANGED <<now, storage, mu, unswept, decided, passes>>

(* Mutant: no mutex. *)
LockNothing(c) ==
    /\ pc[c] = "lock"
    /\ pc' = [pc EXCEPT ![c] = "lookup"]
    /\ UNCHANGED <<now, storage, mu, msg, unswept, verdict, calls, decided, passes>>

Lock(c) ==
    /\ pc[c] = "lock"
    /\ mu = Nobody
    /\ mu' = c
    /\ pc' = [pc EXCEPT ![c] = "lookup"]
    /\ UNCHANGED <<now, storage, msg, unswept, verdict, calls, decided, passes>>

(* Return, with the deferred Unlock. *)
Return(c, v) ==
    /\ mu' = Nobody
    /\ pc' = [pc EXCEPT ![c] = "idle"]
    /\ verdict' = [verdict EXCEPT ![c] = v]

Record(c) == passes' = [passes EXCEPT ![KeyOf(c)] = Append(@, now)]

(* A hash not in storage is written, and the sweep begins. *)
Insert(c) ==
    /\ pc[c] = "lookup"
    /\ KeyOf(c) \notin DOMAIN storage
    /\ storage' = Put(storage, KeyOf(c), now)
    /\ unswept' = DOMAIN storage \cup {KeyOf(c)}
    /\ pc' = [pc EXCEPT ![c] = "sweep"]
    /\ Record(c)
    /\ UNCHANGED <<now, mu, msg, verdict, calls, decided>>

(* Mutant: the sweep's comparison is off by one. *)
SweepEarly(c) ==
    /\ pc[c] = "sweep"
    /\ \E h \in unswept :
          /\ unswept' = unswept \ {h}
          /\ storage' = IF now - storage[h] + 1 >= timeout THEN Delete(storage, h) ELSE storage
    /\ UNCHANGED <<now, mu, pc, msg, verdict, calls, decided, passes>>

(* Mutant: the sweep looks but deletes nothing. *)
SweepNothing(c) ==
    /\ pc[c] = "sweep"
    /\ \E h \in unswept : unswept' = unswept \ {h}
    /\ UNCHANGED <<now, storage, mu, pc, msg, verdict, calls, decided, passes>>

(* One turn of the sweep, in map order; each reads the clock again. *)
Sweep(c) ==
    /\ pc[c] = "sweep"
    /\ \E h \in unswept :
          /\ unswept' = unswept \ {h}
          /\ storage' = IF Expired(h) THEN Delete(storage, h) ELSE storage
    /\ UNCHANGED <<now, mu, pc, msg, verdict, calls, decided, passes>>

SweepDone(c) ==
    /\ pc[c] = "sweep"
    /\ unswept = {}
    /\ Return(c, "pass")
    /\ UNCHANGED <<now, storage, msg, unswept, calls, decided, passes>>

(* The window of a known hash is over ... *)
FindExpired(c) ==
    /\ pc[c] = "lookup"
    /\ KeyOf(c) \in DOMAIN storage
    /\ Expired(KeyOf(c))
    /\ pc' = [pc EXCEPT ![c] = "renew"]
    /\ UNCHANGED <<now, storage, mu, msg, unswept, verdict, calls, decided, passes>>

(* Mutant: the end of the window is stored, not its start. *)
RenewWithExpiry(c) ==
    /\ pc[c] = "renew"
    /\ storage' = Put(storage, KeyOf(c), now + timeout)
    /\ Record(c)
    /\ Return(c, "pass")
    /\ UNCHANGED <<now, msg, unswept, calls, decided>>

(* ... so it starts anew, at a later reading of the clock. *)
Renew(c) ==
    /\ pc[c] = "renew"
    /\ storage' = Put(storage, KeyOf(c), now)
    /\ Record(c)
    /\ Return(c, "pass")
    /\ UNCHANGED <<now, msg, unswept, calls, decided>>

(* Mutant: a duplicate prolongs the window. *)
FindDuplicateAndRefresh(c) ==
    /\ pc[c] = "lookup"
    /\ KeyOf(c) \in DOMAIN storage
    /\ ~ Expired(KeyOf(c))
    /\ storage' = Put(storage, KeyOf(c), now)
    /\ decided' = [decided EXCEPT ![c] = now]
    /\ Return(c, "drop")
    /\ UNCHANGED <<now, msg, unswept, calls, passes>>

FindDuplicate(c) ==
    /\ pc[c] = "lookup"
    /\ KeyOf(c) \in DOMAIN storage
    /\ ~ Expired(KeyOf(c))
    /\ decided' = [decided EXCEPT ![c] = now]
    /\ Return(c, "drop")
    /\ UNCHANGED <<now, storage, msg, unswept, calls, passes>>

Next ==
    \/ Tick
    \/ \E c \in Caller :
          \/ \E m \in Msg : Call(c, m)
          \/ Lock(c)
          \/ Insert(c) \/ Sweep(c) \/ SweepDone(c)
          \/ FindExpired(c) \/ Renew(c)
          \/ FindDuplicate(c)

Spec == Init /\ [][Next]_vars

-----------------------------------------------------------------------------
(***************************************************************************)
(* The output sees one message of a content per window: two messages with  *)
(* the same hash are let through at least timeout apart, whoever the       *)
(* callers are and whatever the sweep deletes in between.                  *)
(***************************************************************************)
OnePassPerWindow ==
    \A h \in Key : \A i \in 1..(Len(passes[h]) - 1) :
        passes[h][i + 1] - passes[h][i] >= timeout

(***************************************************************************)
(* No message disappears for good: one is dropped only if another with its *)
(* hash was let through less than timeout before.  A steady stream of      *)
(* duplicates does not prolong the window.                                 *)
(***************************************************************************)
DropsOnlyDuplicates ==
    \A c \in Caller :
        verdict[c] = "drop" =>
            \E i \in 1..Len(passes[KeyOf(c)]) :
                /\ passes[KeyOf(c)][i] <= decided[c]
                /\ decided[c] - passes[KeyOf(c)][i] < timeout

(***************************************************************************)
(* storage does not grow with the traffic of the past ("Sweep expired      *)
(* entries on new additions"): when a sweep ends, every entry left was     *)
(* still inside its window when the new hash was written.                  *)
(***************************************************************************)
SweepLeavesTheFresh ==
    \A c \in Caller :
        pc[c] = "sweep" =>
            LET start == passes[KeyOf(c)][Len(passes[KeyOf(c)])]
            IN  \A h \in DOMAIN storage \ unswept :
                    start - storage[h] < timeout
=============================================================================
