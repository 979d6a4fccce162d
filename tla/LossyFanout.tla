---------------------------- MODULE LossyFanout ----------------------------
(***************************************************************************)
(* What a broadcaster promises its listeners, and nothing about how.  One  *)
(* message at a time is published; while it is the latest one, each        *)
(* listener that wants it either gets it, once, or never does.  A listener *)
(* may lose messages but sees no stranger, no duplicate and no message out *)
(* of order.                                                               *)
(***************************************************************************)
EXTENDS Naturals, Sequences

CONSTANTS Listener,   (* the listeners there can be                         *)
          Msg,        (* the messages that can be published                 *)
          Wants       (* [Listener -> SUBSET Msg]: what its filter accepts *)

VARIABLES log,      (* the messages published, in order                     *)
          pending,  (* the listeners the latest message may still go to     *)
          got       (* what each listener was given, in order               *)

vars == <<log, pending, got>>

TypeOK ==
    /\ log \in Seq(Msg)
    /\ pending \subseteq Listener
    /\ got \in [Listener -> Seq(Msg)]

Init ==
    /\ log = << >>
    /\ pending = {}
    /\ got = [l \in Listener |-> << >>]

(* The listeners that may get it are chosen now, or found out later. *)
Publish(m, ls) ==
    /\ pending = {}
    /\ log' = Append(log, m)
    /\ pending' = ls
    /\ UNCHANGED got

\* The latest message leaves pending listeners alone: they are not registered,
\* their filter rejects it, or it is lost on them.
PassOver(ls) ==
    /\ pending' = pending \ ls
    /\ UNCHANGED <<log, got>>

Deliver(l) ==
    /\ l \in pending
    /\ log # << >>
    /\ log[Len(log)] \in Wants[l]
    /\ got' = [got EXCEPT ![l] = Append(@, log[Len(log)])]
    /\ pending' = pending \ {l}
    /\ UNCHANGED log

Next ==
    \/ \E m \in Msg, ls \in SUBSET Listener : Publish(m, ls)
    \/ \E ls \in SUBSET Listener : PassOver(ls)
    \/ \E l \in Listener : Deliver(l)

Spec == Init /\ [][Next]_vars

-----------------------------------------------------------------------------
(* s is what is left of t when some of its elements are dropped. *)
Embeds(f, s, t) ==
    /\ f \in [1..Len(s) -> 1..Len(t)]
    /\ \A i \in 1..Len(s) : s[i] = t[f[i]]
    /\ \A i, j \in 1..Len(s) : i < j => f[i] < f[j]

IsSubsequence(s, t) == \E f \in [1..Len(s) -> 1..Len(t)] : Embeds(f, s, t)

(***************************************************************************)
(* Every listener sees wanted messages only, in the order they were        *)
(* published, each at most once: what it got is a subsequence of the log.  *)
(* For CANtou, the loop of dispatcher.go that offers one message to every  *)
(* listener before it takes the next.                                      *)
(***************************************************************************)
InOrder ==
    \A l \in Listener :
        /\ IsSubsequence(got[l], log)
        /\ \A i \in 1..Len(got[l]) : got[l][i] \in Wants[l]
=============================================================================
