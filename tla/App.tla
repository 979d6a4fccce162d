-------------------------------- MODULE App --------------------------------
(***************************************************************************)
(* internal/app with cmd/server: the goroutines of the process, who starts *)
(* them, in which order, and what ends each of them.  They run in one      *)
(* errgroup: the first error a member returns cancels the context that the *)
(* connections, the broadcaster and some outputs watch, and Wait returns   *)
(* when every member has returned.                                         *)
(***************************************************************************)
EXTENDS AppWiring

(* The members of wgClients; the connections run in ReceiveAll's WaitGroup. *)
Member == {g \in Goroutine : g[1] # "connection"}

VARIABLES
    err,               \* the error the group keeps
    cancelled

vars == <<config, phase, unparsed, unadded, signalDispatchers, listeners,
          signalListeners, go, err, cancelled>>

wiring == <<signalDispatchers, listeners, signalListeners>>
setup  == <<config, phase, unparsed, unadded, wiring>>

Options == [LogCanMessages : BOOLEAN, LogSignals : BOOLEAN]

TypeOK ==
    /\ config \in Options
    /\ phase \in {"parsers", "outputs", "run", "broadcast", "receive", "wait", "exited"}
    /\ unparsed \subseteq Parsed
    /\ unadded \subseteq Output
    /\ signalDispatchers \subseteq Parsed \ unparsed
    /\ listeners \subseteq Output \cup Interface
    /\ signalListeners \in [Interface -> SUBSET Output]
    /\ go \in [Goroutine -> {"absent", "running", "ended"}]
    /\ err \in {"none", "server", "context"}
    /\ cancelled \in BOOLEAN

Running(g) == go[g] = "running"

Start(gs) == go' = [g \in Goroutine |-> IF g \in gs THEN "running" ELSE go[g]]

(* A member returns nil ... *)
End(g) ==
    /\ go' = [go EXCEPT ![g] = "ended"]
    /\ UNCHANGED <<err, cancelled>>

(* Mutant: the group has no context to cancel. *)
FailQuietly(g, e) ==
    /\ go' = [go EXCEPT ![g] = "ended"]
    /\ err' = IF err = "none" THEN e ELSE err
    /\ UNCHANGED cancelled

(* ... or an error, of which the group keeps the first. *)
Fail(g, e) ==
    /\ go' = [go EXCEPT ![g] = "ended"]
    /\ err' = IF err = "none" THEN e ELSE err
    /\ cancelled' = TRUE

-----------------------------------------------------------------------------
Init ==
    /\ config \in Options
    /\ phase = "parsers"
    /\ unparsed = Parsed
    /\ unadded = Output
    /\ signalDispatchers = {}
    /\ listeners = {}
    /\ signalListeners = [i \in Interface |-> {}]
    /\ go = [g \in Goroutine |-> "absent"]
    /\ err = "none"
    /\ cancelled = FALSE

(* Mutant: the dispatcher starts as soon as it is registered. *)
AddAndStartDispatcher(i) ==
    /\ phase = "parsers"
    /\ i \in unparsed
    /\ unparsed' = unparsed \ {i}
    /\ IF config.LogSignals
       THEN /\ signalDispatchers' = signalDispatchers \cup {i}
            /\ listeners' = listeners \cup {i}
            /\ Start({<<"dispatch", i>>})
       ELSE UNCHANGED <<signalDispatchers, listeners, go>>
    /\ UNCHANGED <<config, phase, unadded, signalListeners, err, cancelled>>

AddSignalDispatcher(i) ==
    /\ phase = "parsers"
    /\ i \in unparsed
    /\ unparsed' = unparsed \ {i}
    /\ IF config.LogSignals
       THEN /\ signalDispatchers' = signalDispatchers \cup {i}
            /\ listeners' = listeners \cup {i}
       ELSE UNCHANGED <<signalDispatchers, listeners>>
    /\ UNCHANGED <<config, phase, unadded, signalListeners, go, err, cancelled>>

HasDispatchers ==
    /\ phase = "parsers"
    /\ unparsed = {}
    /\ phase' = "outputs"
    /\ UNCHANGED <<config, unparsed, unadded, wiring, go, err, cancelled>>

(* AddOutput: Run, if there is one, the handlers, and their registrations. *)
AddOutput(o) ==
    /\ phase = "outputs"
    /\ o \in unadded
    /\ unadded' = unadded \ {o}
    /\ LET runner  == {"run"} \X ({o} \cap (Server \cup Pool))
           can     == IF config.LogCanMessages THEN {<<"can", o>>} ELSE {}
           signals == IF signalDispatchers # {} THEN {<<"signal", o>>} ELSE {}
       IN  Start(runner \cup can \cup signals)
    /\ listeners' = IF config.LogCanMessages THEN listeners \cup {o} ELSE listeners
    /\ signalListeners' =
           [i \in Interface |->
               signalListeners[i] \cup (IF i \in signalDispatchers THEN {o} ELSE {})]
    /\ UNCHANGED <<config, phase, unparsed, signalDispatchers, err, cancelled>>

(* Mutant: the loop starts one dispatcher only. *)
RunOneDispatcher ==
    /\ phase = "outputs"
    /\ unadded = {}
    /\ phase' = "broadcast"
    /\ \/ \E i \in signalDispatchers : Start({<<"dispatch", i>>})
       \/ signalDispatchers = {} /\ UNCHANGED go
    /\ UNCHANGED <<config, unparsed, unadded, wiring, err, cancelled>>

(* Run: the dispatchers, the broadcaster, the connections, then Wait. *)
RunDispatchers ==
    /\ phase = "outputs"
    /\ unadded = {}
    /\ phase' = "broadcast"
    /\ Start({"dispatch"} \X signalDispatchers)
    /\ UNCHANGED <<config, unparsed, unadded, wiring, err, cancelled>>

RunBroadcast ==
    /\ phase = "broadcast"
    /\ phase' = "receive"
    /\ Start({<<"broadcast", "app">>})
    /\ UNCHANGED <<config, unparsed, unadded, wiring, err, cancelled>>

(* ReceiveAll calls Receive of every connection, and waits for them. *)
RunReceive ==
    /\ phase = "receive"
    /\ phase' = "wait"
    /\ Start({<<"receive", "app">>} \cup ({"connection"} \X Interface))
    /\ UNCHANGED <<config, unparsed, unadded, wiring, err, cancelled>>

(* Wait returns, and cancels the context. *)
Exit ==
    /\ phase = "wait"
    /\ \A g \in Member : ~ Running(g)
    /\ phase' = "exited"
    /\ cancelled' = TRUE
    /\ UNCHANGED <<config, unparsed, unadded, wiring, go, err>>

-----------------------------------------------------------------------------
(* The metrics server cannot listen, or stops serving.  Its Run also returns *)
(* after a cancellation; as the only member that fails by itself it never    *)
(* sees one, for there is at most one such output.                           *)
ServerFails(o) ==
    /\ o \in Server
    /\ Running(<<"run", o>>)
    /\ Fail(<<"run", o>>, "server")
    /\ UNCHANGED setup

PoolStarted(o) ==
    /\ o \in Pool
    /\ Running(<<"run", o>>)
    /\ End(<<"run", o>>)
    /\ UNCHANGED setup

(* The handlers of a pool watch the context.  Those of every other output,  *)
(* and Dispatch, range over a channel nobody closes: they have no action.   *)
HandlerStops(o) ==
    /\ o \in Pool
    /\ cancelled
    /\ \E g \in {"can", "signal"} \X {o} : Running(g) /\ End(g)
    /\ UNCHANGED setup

(* Mutant: the broadcaster does not watch the context. *)
BroadcastGoesOn == FALSE

BroadcastStops ==
    /\ Running(<<"broadcast", "app">>)
    /\ cancelled
    /\ Fail(<<"broadcast", "app">>, "context")
    /\ UNCHANGED setup

ConnectionStops(i) ==
    /\ Running(<<"connection", i>>)
    /\ cancelled \/ i \notin Endless
    /\ End(<<"connection", i>>)
    /\ UNCHANGED setup

ReceiveReturns ==
    /\ Running(<<"receive", "app">>)
    /\ \A i \in Interface : ~ Running(<<"connection", i>>)
    /\ End(<<"receive", "app">>)
    /\ UNCHANGED setup

Main ==
    \/ \E i \in Interface : AddSignalDispatcher(i)
    \/ HasDispatchers
    \/ \E o \in Output : AddOutput(o)
    \/ RunDispatchers \/ RunBroadcast \/ RunReceive \/ Exit

Stops ==
    \/ \E o \in Output : PoolStarted(o) \/ HandlerStops(o)
    \/ BroadcastStops
    \/ \E i \in Interface : ConnectionStops(i)
    \/ ReceiveReturns

Next == Main \/ Stops \/ \E o \in Output : ServerFails(o)

Spec == Init /\ [][Next]_vars

(* Every goroutine that may return does, in the end; a server need not fail. *)
FairSpec == Spec /\ WF_vars(Main) /\ WF_vars(Stops)

-----------------------------------------------------------------------------
(***************************************************************************)
(* The error of one member stops the inputs and the broadcaster, and no    *)
(* Run is left, whenever during startup it comes.                          *)
(***************************************************************************)
ErrorStopsInputs ==
    err # "none" ~>
        \A g \in Goroutine : g[1] \in {"run", "broadcast", "receive", "connection"} =>
            go[g] = "ended" \/ (g[1] = "run" /\ g[2] \notin Server \cup Pool)

(***************************************************************************)
(* After a cancel every handler ends, and so closes what it writes: MF4    *)
(* files are "finalized on graceful shutdown" (README.md).                 *)
(***************************************************************************)
ShutdownEndsHandlers ==
    cancelled ~> \A o \in Output : ~ Running(<<"can", o>>) /\ ~ Running(<<"signal", o>>)
=============================================================================
