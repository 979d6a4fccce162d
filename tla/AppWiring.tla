----------------------------- MODULE AppWiring -----------------------------
(***************************************************************************)
(* What internal/app keeps: who is registered with whom, which goroutines  *)
(* there are, and how far main has come; and what must hold of that.       *)
(* App has the steps.                                                      *)
(*                                                                         *)
(* A goroutine is a pair of what it runs and for whom.                     *)
(***************************************************************************)
EXTENDS Naturals, FiniteSets

CONSTANTS Output,          (* the configured outputs                         *)
          Server,          (* outputs whose Run serves until it fails
                              (prometheus, one at most)                      *)
          Pool,            (* outputs whose Run starts workers and returns, and
                              whose handlers watch the context (influxdb)    *)
          Interface,       (* the configured interfaces                      *)
          Parsed,          (* interfaces with a parser                       *)
          Endless          (* interfaces that stream until the context ends  *)

(* Outputs register as "output-...", dispatchers as "signal-dispatcher-..."; *)
(* main makes one output of each kind at most.                               *)
ASSUME AppAssumption ==
    /\ Server \subseteq Output
    /\ Cardinality(Server) <= 1
    /\ Pool \subseteq Output \ Server
    /\ Parsed \subseteq Interface
    /\ Endless \subseteq Interface
    /\ Output \cap Interface = {}

Goroutine ==
    ({"run", "can", "signal"} \X Output)
        \cup ({"dispatch", "connection"} \X Interface)
        \cup ({"broadcast", "receive"} \X {"app"})

VARIABLES
    config,            \* the options LogCanMessages and LogSignals
    phase,             \* main: parsers, outputs, run, broadcast, receive, wait, exited
    unparsed,          \* interfaces main has yet to make a dispatcher for
    unadded,           \* outputs it has yet to add
    signalDispatchers, \* interfaces with a registered dispatcher
    listeners,         \* who is registered with the message dispatcher
    signalListeners,   \* the outputs registered with each signal dispatcher
    go                 \* absent, running, ended

(***************************************************************************)
(* Nothing is registered with a signal dispatcher while its Dispatch runs  *)
(* ("Dispatch is started in Run() after all outputs have registered        *)
(* listeners", app.go), nor with the message dispatcher while it           *)
(* broadcasts: no output misses the first messages.                        *)
(***************************************************************************)
WiredBeforeStart ==
    [][/\ \A i \in Interface :
              go[<<"dispatch", i>>] = "running" => signalListeners'[i] = signalListeners[i]
       /\ go[<<"broadcast", "app">>] = "running" => listeners' = listeners
      ]_<<listeners, signalListeners>>

(***************************************************************************)
(* Whoever is registered has someone to drain its channel: a listener      *)
(* without its goroutine would only ever fill up and drop.                 *)
(***************************************************************************)
ListenersAreServed ==
    phase \in {"receive", "wait"} =>
        /\ \A o \in Output : o \in listeners <=> go[<<"can", o>>] # "absent"
        /\ \A i \in Interface : i \in listeners <=> go[<<"dispatch", i>>] # "absent"
        /\ \A o \in Output :
              go[<<"signal", o>>] # "absent" <=>
                  \E i \in Interface : o \in signalListeners[i]
=============================================================================
