------------------------------ MODULE ObdConn ------------------------------
(***************************************************************************)
(* internal/connection/obdconn: one OBD adapter.  Its caller opens it,     *)
(* starts the receive loop and closes it; the loop streams frames, and     *)
(* rebuilds the transport and its driver when the link fails.  The two     *)
(* goroutines share driver (under mu), streaming and quit.                 *)
(*                                                                         *)
(* A driver is known by its transport.  The adapter's answers are data: a  *)
(* command works or fails, a read yields some frames, none, or an error.   *)
(***************************************************************************)
EXTENDS Naturals, FiniteSets

CONSTANTS Transport,    (* handles openTransport may return                  *)
          None,         (* the nil driver                                    *)
          Pids,         (* PIDs to poll                                      *)
          OpensFirst,   (* the caller opens the connection before Receive    *)
          ChannelSize,  (* capacity of the message channel                   *)
          MaxChunk,     (* bound: frames one read yields                     *)
          MaxDrops,     (* bound: times the link goes down                   *)
          MaxFaults     (* bound: failed commands on a good link             *)

ASSUME ObdAssumption ==
    /\ None \notin Transport
    /\ Pids \in Nat \ {0}
    /\ OpensFirst \in BOOLEAN
    /\ ChannelSize \in Nat
    /\ MaxChunk \in Nat
    /\ MaxDrops \in Nat
    /\ MaxFaults \in Nat

VARIABLES
    mode,       \* the mode New settled on: monitor, poll, hybrid
    link,       \* the adapter is in reach: up, down
    transport,  \* closed, open, or dead: open, but its link went down
    driver,     \* b.driver
    quit,       \* none until Receive makes it, open, closed
    streaming,
    opened,
    cancelled,  \* the context is done
    pc,         \* where the caller and the loop are
    building,   \* the transport each of them is setting up in connect
    taken,      \* the driver Close has taken from b.driver and not closed yet
    using,      \* the driver runOnce works with
    err,        \* runOnce failed
    pid,        \* the PID polled next
    chunk,      \* frames read and not yet emitted
    channel,    \* messages waiting in the channel
    backoff,    \* seconds
    drops, faults,
    lateOpens   \* history: transports the loop opened after it was told to stop

vars == <<mode, link, transport, driver, quit, streaming, opened, cancelled, pc,
          building, taken, using, err, pid, chunk, channel, backoff, drops,
          faults, lateOpens>>

world  == <<mode, link, drops>>
shared == <<driver, quit, streaming, opened>>
work   == <<using, err, pid, chunk, channel, backoff>>

Proc == {"caller", "loop"}

ConnectSteps == {"open", "init", "filters", "install"}

CallerSteps == ConnectSteps \cup {"new", "opened", "receiving", "take", "close", "closed"}

StreamSteps == {"periodic", "command", "monitor", "read", "emit", "poll", "request", "tick"}

LoopSteps == ConnectSteps \cup StreamSteps \cup
             {"off", "run", "clear", "returned", "reconnect", "retry", "backoff", "ended"}

HandleTypes ==
    /\ mode \in {"monitor", "poll", "hybrid"}
    /\ link \in {"up", "down"}
    /\ transport \in [Transport -> {"closed", "open", "dead"}]
    /\ driver \in Transport \cup {None}
    /\ quit \in {"none", "open", "closed"}
    /\ building \in [Proc -> Transport \cup {None}]
    /\ taken \in Transport \cup {None}
    /\ using \in Transport \cup {None}

StepTypes ==
    /\ pc \in [Proc -> CallerSteps \cup LoopSteps]
    /\ pc["caller"] \in CallerSteps
    /\ pc["loop"] \in LoopSteps

FlagTypes ==
    /\ streaming \in BOOLEAN
    /\ opened \in BOOLEAN
    /\ cancelled \in BOOLEAN
    /\ err \in BOOLEAN

CountTypes ==
    /\ pid \in 1..(Pids + 1)
    /\ chunk \in 0..MaxChunk
    /\ channel \in 0..ChannelSize
    /\ backoff \in {1, 2, 4, 8, 16, 30}
    /\ drops \in 0..MaxDrops
    /\ faults \in 0..MaxFaults
    /\ lateOpens \in Nat

TypeOK == HandleTypes /\ StepTypes /\ FlagTypes /\ CountTypes

Stopping == quit = "closed" \/ cancelled

Goto(p, step) == pc' = [pc EXCEPT ![p] = step]

(* A command on a good link may fail now and then. *)
Fault == faults < MaxFaults /\ faults' = faults + 1

CommandWorks(t) == transport[t] = "open" /\ UNCHANGED faults

CommandFails(t) ==
    \/ transport[t] # "open" /\ UNCHANGED faults
    \/ transport[t] = "open" /\ Fault

-----------------------------------------------------------------------------
Init ==
    /\ mode \in {"monitor", "poll", "hybrid"}
    /\ link = "up"
    /\ transport = [t \in Transport |-> "closed"]
    /\ driver = None
    /\ quit = "none"
    /\ streaming = FALSE
    /\ opened = FALSE
    /\ cancelled = FALSE
    /\ pc = [p \in Proc |-> IF p = "caller" THEN "new" ELSE "off"]
    /\ building = [p \in Proc |-> None]
    /\ taken = None
    /\ using = None
    /\ err = FALSE
    /\ pid = 1
    /\ chunk = 0
    /\ channel = 0
    /\ backoff = 1
    /\ drops = 0
    /\ faults = 0
    /\ lateOpens = 0

(***************************************************************************)
(* The world: the link goes down and comes back, the dispatcher takes      *)
(* messages, the owner of the context cancels it.                          *)
(***************************************************************************)
LinkDown ==
    /\ link = "up"
    /\ drops < MaxDrops
    /\ link' = "down"
    /\ drops' = drops + 1
    /\ transport' = [t \in Transport |->
                        IF transport[t] = "open" THEN "dead" ELSE transport[t]]
    /\ UNCHANGED <<mode, shared, cancelled, pc, building, taken, work, faults, lateOpens>>

LinkUp ==
    /\ link = "down"
    /\ link' = "up"
    /\ UNCHANGED <<mode, transport, shared, cancelled, pc, building, taken, work,
                   drops, faults, lateOpens>>

Consume ==
    /\ channel > 0
    /\ channel' = channel - 1
    /\ UNCHANGED <<world, transport, shared, cancelled, pc, building, taken,
                   using, err, pid, chunk, backoff, faults, lateOpens>>

Cancel ==
    /\ ~ cancelled
    /\ cancelled' = TRUE
    /\ UNCHANGED <<world, transport, shared, pc, building, taken, work, faults,
                   lateOpens>>

-----------------------------------------------------------------------------
(* connect, as Open runs it in the caller and reconnect in the loop.       *)

ConnectFailed(p) == Goto(p, IF p = "loop" THEN "backoff" ELSE "new")

OpenTransport(p) ==
    /\ pc[p] = "open"
    /\ lateOpens' = IF p = "loop" /\ Stopping THEN lateOpens + 1 ELSE lateOpens
    /\ \/ \E t \in Transport :
              /\ transport[t] = "closed"
              /\ transport' = [transport EXCEPT ![t] = IF link = "up" THEN "open" ELSE "dead"]
              /\ building' = [building EXCEPT ![p] = t]
              /\ Goto(p, "init")
              /\ UNCHANGED faults
       \/ /\ \/ link = "down" /\ UNCHANGED faults
             \/ link = "up" /\ Fault
          /\ ConnectFailed(p)
          /\ UNCHANGED <<transport, building>>
    /\ UNCHANGED <<world, shared, cancelled, taken, work>>

(* driver.Init, then driver.SetFilters; if either fails the transport is   *)
(* closed again.                                                           *)
Configure(p) ==
    /\ pc[p] \in {"init", "filters"}
    /\ \/ /\ CommandWorks(building[p])
          /\ Goto(p, IF pc[p] = "init" THEN "filters" ELSE "install")
          /\ UNCHANGED <<transport, building>>
       \/ /\ CommandFails(building[p])
          /\ transport' = [transport EXCEPT ![building[p]] = "closed"]
          /\ building' = [building EXCEPT ![p] = None]
          /\ ConnectFailed(p)
    /\ UNCHANGED <<world, shared, cancelled, taken, work, lateOpens>>

(* The new driver, under mu; in Open, opened too. *)
Install(p) ==
    /\ pc[p] = "install"
    /\ driver' = building[p]
    /\ building' = [building EXCEPT ![p] = None]
    /\ opened' = (opened \/ p = "caller")
    /\ Goto(p, IF p = "loop" THEN "run" ELSE "opened")
    /\ UNCHANGED <<world, transport, quit, streaming, cancelled, taken, work,
                   faults, lateOpens>>

Connect(p) == OpenTransport(p) \/ Configure(p) \/ Install(p)

-----------------------------------------------------------------------------
(* The caller. *)

Open ==
    /\ pc["caller"] = "new"
    /\ OpensFirst
    /\ Goto("caller", "open")
    /\ UNCHANGED <<world, transport, shared, cancelled, building, taken, work,
                   faults, lateOpens>>

Receive ==
    /\ pc["caller"] = IF OpensFirst THEN "opened" ELSE "new"
    /\ quit' = "open"
    /\ streaming' = TRUE
    /\ pc' = [caller |-> "receiving", loop |-> "run"]
    /\ UNCHANGED <<world, transport, driver, opened, cancelled, building, taken,
                   work, faults, lateOpens>>

(* Close begins with Discontinue ... *)
Discontinue ==
    /\ pc["caller"] \in {"opened", "receiving"}
    /\ quit' = IF streaming /\ quit # "none" THEN "closed" ELSE quit
    /\ streaming' = FALSE
    /\ Goto("caller", "take")
    /\ UNCHANGED <<world, transport, driver, opened, cancelled, building, taken,
                   work, faults, lateOpens>>

(* ... takes the driver under mu ... *)
TakeDriver ==
    /\ pc["caller"] = "take"
    /\ taken' = driver
    /\ driver' = None
    /\ Goto("caller", "close")
    /\ UNCHANGED <<world, transport, quit, streaming, opened, cancelled,
                   building, work, faults, lateOpens>>

(* ... and closes it. *)
CloseDriver ==
    /\ pc["caller"] = "close"
    /\ opened' = FALSE
    /\ transport' = IF taken = None THEN transport
                    ELSE [transport EXCEPT ![taken] = "closed"]
    /\ taken' = None
    /\ Goto("caller", "closed")
    /\ UNCHANGED <<world, driver, quit, streaming, cancelled, building, work,
                   faults, lateOpens>>

Caller == Open \/ Connect("caller") \/ Receive \/ Discontinue \/ TakeDriver \/ CloseDriver

-----------------------------------------------------------------------------
(* The receive loop: runOnce. *)

Quiet == UNCHANGED <<world, shared, cancelled, building, taken, lateOpens>>

FirstStep == IF mode = "poll" THEN "poll" ELSE IF mode = "hybrid" THEN "periodic" ELSE "command"

RunOnce ==
    /\ pc["loop"] = "run"
    /\ using' = driver
    /\ err' = FALSE
    /\ pid' = 1
    /\ Goto("loop", IF driver = None THEN "returned" ELSE FirstStep)
    /\ UNCHANGED <<transport, chunk, channel, backoff, faults>>
    /\ Quiet

StartPeriodic ==
    /\ pc["loop"] = "periodic"
    /\ \/ CommandWorks(using) /\ Goto("loop", "command") /\ UNCHANGED err
       \/ CommandFails(using) /\ Goto("loop", "returned") /\ err' = TRUE
    /\ UNCHANGED <<transport, using, pid, chunk, channel, backoff>>
    /\ Quiet

(* Monitor is back; in hybrid mode the firmware's polling is cleared first. *)
MonitorReturns(e) ==
    /\ err' = e
    /\ Goto("loop", IF mode = "hybrid" THEN "clear" ELSE "returned")

StartMonitor ==
    /\ pc["loop"] = "command"
    /\ \/ CommandWorks(using) /\ Goto("loop", "monitor") /\ UNCHANGED err
       \/ CommandFails(using) /\ MonitorReturns(TRUE)
    /\ UNCHANGED <<transport, using, pid, chunk, channel, backoff>>
    /\ Quiet

(* The select at the head of Monitor's loop looks at quit only. *)
StopMonitor ==
    /\ pc["loop"] = "monitor"
    /\ quit = "closed"
    /\ \/ transport[using] # "closed" /\ MonitorReturns(FALSE)
       \/ transport[using] # "open" /\ MonitorReturns(TRUE)
    /\ UNCHANGED <<transport, using, pid, chunk, channel, backoff, faults>>
    /\ Quiet

GoOn ==
    /\ pc["loop"] = "monitor"
    /\ quit # "closed"
    /\ Goto("loop", "read")
    /\ UNCHANGED <<transport, work, faults>>
    /\ Quiet

(* Mutant: the end of the stream is taken for a clean stop. *)
ReadEndsCleanly ==
    /\ pc["loop"] = "read"
    /\ \/ /\ transport[using] = "open"
          /\ chunk' \in 0..MaxChunk
          /\ Goto("loop", IF chunk' = 0 THEN "monitor" ELSE "emit")
          /\ UNCHANGED err
       \/ /\ transport[using] # "open"
          /\ MonitorReturns(FALSE)
          /\ UNCHANGED chunk
    /\ UNCHANGED <<transport, using, pid, channel, backoff, faults>>
    /\ Quiet

(* A read yields frames, times out with none, or fails. *)
Read ==
    /\ pc["loop"] = "read"
    /\ \/ /\ transport[using] = "open"
          /\ chunk' \in 0..MaxChunk
          /\ Goto("loop", IF chunk' = 0 THEN "monitor" ELSE "emit")
          /\ UNCHANGED err
       \/ /\ transport[using] # "open"
          /\ MonitorReturns(TRUE)
          /\ UNCHANGED chunk
    /\ UNCHANGED <<transport, using, pid, channel, backoff, faults>>
    /\ Quiet

(* Mutant: the send does not look at quit and ctx. *)
EmitBlocking ==
    /\ pc["loop"] = "emit"
    /\ channel < ChannelSize /\ channel' = channel + 1
    /\ chunk' = chunk - 1
    /\ Goto("loop", IF chunk > 1 THEN "emit" ELSE IF mode = "poll" THEN "poll" ELSE "monitor")
    /\ UNCHANGED <<transport, using, err, pid, backoff, faults>>
    /\ Quiet

(* emit blocks until there is room, or drops the frame at shutdown. *)
Emit ==
    /\ pc["loop"] = "emit"
    /\ \/ channel < ChannelSize /\ channel' = channel + 1
       \/ Stopping /\ UNCHANGED channel
    /\ chunk' = chunk - 1
    /\ Goto("loop", IF chunk > 1 THEN "emit" ELSE IF mode = "poll" THEN "poll" ELSE "monitor")
    /\ UNCHANGED <<transport, using, err, pid, backoff, faults>>
    /\ Quiet

(* StopPeriodic, whose result nobody reads. *)
ClearPeriodic ==
    /\ pc["loop"] = "clear"
    /\ Goto("loop", "returned")
    /\ UNCHANGED <<transport, work, faults>>
    /\ Quiet

(* The head of pollOnce's loop. *)
Poll ==
    /\ pc["loop"] = "poll"
    /\ Goto("loop", IF pid > Pids \/ Stopping THEN "tick" ELSE "request")
    /\ UNCHANGED <<transport, work, faults>>
    /\ Quiet

Request ==
    /\ pc["loop"] = "request"
    /\ \/ /\ CommandWorks(using)
          /\ chunk' \in 0..MaxChunk
          /\ pid' = pid + 1
          /\ Goto("loop", IF chunk' = 0 THEN "poll" ELSE "emit")
          /\ UNCHANGED err
       \/ /\ CommandFails(using)
          /\ err' = TRUE
          /\ Goto("loop", "returned")
          /\ UNCHANGED <<chunk, pid>>
    /\ UNCHANGED <<transport, using, channel, backoff>>
    /\ Quiet

(* runPoll's select, its ticker case ... *)
Tick ==
    /\ pc["loop"] = "tick"
    /\ pid' = 1
    /\ Goto("loop", "poll")
    /\ UNCHANGED <<transport, using, err, chunk, channel, backoff, faults>>
    /\ Quiet

(* Mutant: the select has no case for the context. *)
StopPollAtQuit ==
    /\ pc["loop"] = "tick"
    /\ quit = "closed"
    /\ err' = FALSE
    /\ Goto("loop", "returned")
    /\ UNCHANGED <<transport, using, pid, chunk, channel, backoff, faults>>
    /\ Quiet

(* ... and its two others. *)
StopPoll ==
    /\ pc["loop"] = "tick"
    /\ Stopping
    /\ err' = FALSE
    /\ Goto("loop", "returned")
    /\ UNCHANGED <<transport, using, pid, chunk, channel, backoff, faults>>
    /\ Quiet

-----------------------------------------------------------------------------
(* The receive loop: run and reconnect. *)

(* Mutant: a failed link ends the loop like a clean stop. *)
GiveUp ==
    /\ pc["loop"] = "returned"
    /\ Goto("loop", "ended")
    /\ UNCHANGED <<transport, work, faults>>
    /\ Quiet

Returned ==
    /\ pc["loop"] = "returned"
    /\ Goto("loop", IF ~ err \/ Stopping THEN "ended" ELSE "reconnect")
    /\ UNCHANGED <<transport, work, faults>>
    /\ Quiet

(* Mutant: the failed driver is forgotten, not closed. *)
ForgetDriver ==
    /\ pc["loop"] = "reconnect"
    /\ driver' = None
    /\ backoff' = 1
    /\ Goto("loop", "retry")
    /\ UNCHANGED <<world, transport, quit, streaming, opened, cancelled,
                   building, taken, using, err, pid, chunk, channel, faults, lateOpens>>

(* The failed driver is closed, under mu. *)
DropDriver ==
    /\ pc["loop"] = "reconnect"
    /\ transport' = IF driver = None THEN transport
                    ELSE [transport EXCEPT ![driver] = "closed"]
    /\ driver' = None
    /\ backoff' = 1
    /\ Goto("loop", "retry")
    /\ UNCHANGED <<world, quit, streaming, opened, cancelled, building, taken,
                   using, err, pid, chunk, channel, faults, lateOpens>>

(* Mutant: reconnect does not ask whether to stop. *)
RetryAnyway ==
    /\ pc["loop"] = "retry"
    /\ Goto("loop", "open")
    /\ UNCHANGED <<transport, work, faults>>
    /\ Quiet

Retry ==
    /\ pc["loop"] = "retry"
    /\ Goto("loop", IF Stopping THEN "ended" ELSE "open")
    /\ UNCHANGED <<transport, work, faults>>
    /\ Quiet

(* Mutant: the backoff is doubled without its ceiling. *)
BackoffUncapped ==
    /\ pc["loop"] = "backoff"
    /\ \/ /\ Goto("loop", "retry")
          /\ backoff' = IF backoff < 30 THEN 2 * backoff ELSE backoff
       \/ /\ Stopping
          /\ Goto("loop", "ended")
          /\ UNCHANGED backoff
    /\ UNCHANGED <<transport, using, err, pid, chunk, channel, faults>>
    /\ Quiet

(* Seconds between two attempts: reconnectMinBackoff to reconnectMaxBackoff. *)
Longer(b) == IF 2 * b > 30 THEN 30 ELSE 2 * b

Backoff ==
    /\ pc["loop"] = "backoff"
    /\ \/ /\ Goto("loop", "retry")
          /\ backoff' = IF backoff < 30 THEN Longer(backoff) ELSE backoff
       \/ /\ Stopping
          /\ Goto("loop", "ended")
          /\ UNCHANGED backoff
    /\ UNCHANGED <<transport, using, err, pid, chunk, channel, faults>>
    /\ Quiet

Loop ==
    \/ RunOnce \/ StartPeriodic \/ StartMonitor \/ StopMonitor \/ GoOn \/ Read
    \/ Emit \/ ClearPeriodic \/ Poll \/ Request \/ Tick \/ StopPoll
    \/ Returned \/ DropDriver \/ Retry \/ Connect("loop") \/ Backoff

Next == LinkDown \/ LinkUp \/ Consume \/ Cancel \/ Caller \/ Loop

Spec == Init /\ [][Next]_vars

(***************************************************************************)
(* The loop's goroutine runs: its reads and commands carry timeouts, so    *)
(* none of its steps blocks but a send on a full channel.  A select with   *)
(* two ready cases takes each of them some day: strong fairness for        *)
(* StopPoll.  The dispatcher may stop taking messages.                     *)
(***************************************************************************)
FairSpec == Spec /\ WF_vars(Loop) /\ SF_vars(StopPoll)

-----------------------------------------------------------------------------
(***************************************************************************)
(* The adapter's port is never open twice: before it connects again, the   *)
(* loop has closed the failed driver, or Close has taken it, and then the  *)
(* loop does not connect again.                                            *)
(***************************************************************************)
OneOpenTransport ==
    \A t, u \in Transport : transport[t] # "closed" /\ transport[u] # "closed" => t = u

(***************************************************************************)
(* No failure of the link, in whatever step it strikes, ends the loop: it  *)
(* ends only when shutdown was requested ("reconnecting on transport       *)
(* failure until shutdown is requested", above run).                       *)
(***************************************************************************)
EndsOnlyWhenAsked == pc["loop"] = "ended" => Stopping

(***************************************************************************)
(* Once it was asked to stop, the loop opens at most one more transport:   *)
(* the one it was about to open when it last asked stopping().             *)
(***************************************************************************)
StopBoundsReconnects == lateOpens <= 1

(***************************************************************************)
(* "Close stops streaming and closes the device": with Close returned and  *)
(* the loop ended, nothing is left open.                                   *)
(***************************************************************************)
CloseClosesDevice ==
    pc["caller"] = "closed" /\ pc["loop"] \in {"off", "ended"} =>
        \A t \in Transport : transport[t] = "closed"

(***************************************************************************)
(* Close ends the loop wherever it is: in a read, blocked on a channel     *)
(* nobody drains, between two attempts to connect.                         *)
(***************************************************************************)
CloseEndsReceive == quit = "closed" ~> pc["loop"] = "ended"

(***************************************************************************)
(* stopping() takes the end of the context for a request to stop: a loop   *)
(* that polls ends, wherever it is.                                        *)
(***************************************************************************)
ContextEndsPolling ==
    mode = "poll" /\ cancelled /\ pc["loop"] # "off" ~> pc["loop"] = "ended"

(***************************************************************************)
(* "A dropped link reconnects automatically": once the link is there for   *)
(* good, nobody asks to stop and the channel is drained (see               *)
(* MessageDispatch), the loop streams from a good transport for good.      *)
(***************************************************************************)
LinkLossIsTransient ==
    /\ <>[](link = "up" /\ ~ Stopping /\ pc["loop"] # "off")
    /\ []<>(channel < ChannelSize)
    =>
        <>[](/\ pc["loop"] \in StreamSteps
             /\ transport[using] = "open"
             /\ driver = using)
=============================================================================
