----------------------------- MODULE ObdDevice -----------------------------
(***************************************************************************)
(* internal/obd: the command, answer, prompt protocol with an ELM327 or    *)
(* STN adapter, driven by the sessions of obdconn: a transport is opened,  *)
(* the adapter configured (Init, SetFilters), then monitored or polled,    *)
(* and after a failure all of it is done again over a new transport.       *)
(*                                                                         *)
(* An answer is one text and the prompt; what the text says is data.  The  *)
(* line between them keeps its order, but an answer may come after the     *)
(* host has stopped waiting, even in a later session.  An identifier is    *)
(* the set of its one bits.  The adapter is external: it does what the     *)
(* code expects of it.                                                     *)
(***************************************************************************)
EXTENDS Naturals, Sequences, FiniteSets, SequencesExt

CONSTANTS Bits,         (* bits of an identifier                             *)
          FilterLists,  (* lists of identifiers that may be configured       *)
          ResponseIds,  (* identifiers ECUs answer on                        *)
          PIDs,         (* requests to poll                                  *)
          MaxSessions,  (* bound: transports opened                          *)
          MaxTimeouts,  (* bound: answers given up before a stop is asked    *)
          MaxWire       (* bound: frames are sent up to this many tokens     *)

(* The settings of ELM327.Init after the reset. *)
Settings == <<"ATE0", "ATL0", "ATS0", "ATH1", "ATCAF0", "ATCFC0", "ATSP">>

(* A list of identifiers is the set of them: no property tells their order *)
(* apart.  Every answer that is given up and comes later puts the          *)
(* conversation one answer behind; with fewer of them than settings no     *)
(* Init gets past its banner.                                              *)
ASSUME DeviceAssumption ==
    /\ \A list \in FilterLists \cup {ResponseIds} :
        list \in SUBSET SUBSET Bits /\ IsFiniteSet(list)
    /\ IsFiniteSet(PIDs)
    /\ MaxSessions \in Nat
    /\ MaxTimeouts \in 0..(Len(Settings) - 1)
    /\ MaxWire \in Nat

VARIABLES
    driver,     \* kind of adapter, mode and hardware filters of the connection
    pc,         \* where the host is
    plan,       \* commands it has left to send, the current one first
    acc,        \* texts read for the current answer
    pending,    \* d.pending: what was read past a prompt
    stop,       \* the stop channel is closed
    port,       \* the transport is open
    leaving,    \* Monitor has returned: StopPeriodic is under way
    failed,     \* Monitor returned an error
    outcome,    \* how the end of monitoring went
    toAdapter,  \* commands on the line
    toHost,     \* texts and prompts on the line
    adapter,    \* what the adapter is doing and how it is set up
    sessions, timeouts

line == <<toAdapter, toHost>>
host == <<pc, plan, acc, pending, leaving, failed, outcome>>
vars == <<driver, pc, plan, acc, pending, stop, port, leaving, failed, outcome,
          toAdapter, toHost, adapter, sessions, timeouts>>

Prompt == ">"
Texts == {"ok", "banner", "value", "error", "frame", "nodata", "stopped"}

-----------------------------------------------------------------------------
(* Filters. *)

(* combinedFilter: the code is the AND of the identifiers, the mask the    *)
(* bits in which OR and AND agree.                                         *)
Code(ids) == {b \in Bits : \A id \in ids : b \in id}

OrAll(ids) == UNION ids

(* Mutant: the mask has the bits that differ. *)
MaskOfDifferences(ids) == {b \in Bits : ~(b \in OrAll(ids) <=> b \in Code(ids))}

Mask(ids) == {b \in Bits : b \in OrAll(ids) <=> b \in Code(ids)}

(* What a code and a mask let through. *)
Matches(id, code, mask) == id \cap mask = code \cap mask

MergeUnique(list, more) == list \cup more

(* obdconn.New adds the identifiers of the answers to the filters. *)
Filters ==
    IF driver.filters # {} /\ driver.mode # "monitor"
    THEN MergeUnique(driver.filters, ResponseIds) ELSE driver.filters

-----------------------------------------------------------------------------
(* Commands; one without an argument has the empty set. *)
Cmd(name, arg) == [name |-> name, arg |-> arg]

Plain(names) == [i \in DOMAIN names |-> Cmd(names[i], {})]

InitCommands ==
    Plain(<<"ATZ">> \o Settings \o IF driver.kind = "stn" THEN <<"STFPC">> ELSE <<>>)

ElmFilterCommands ==
    IF Filters = {} THEN <<Cmd("ATCM", {})>>
    ELSE <<Cmd("ATCF", Code(Filters)), Cmd("ATCM", Mask(Filters))>>

(* STN filters on the whole identifier: one entry each. *)
StnFilterCommands ==
    LET ids == SetToSeq(Filters)
    IN  <<Cmd("STFPC", {})>> \o [i \in DOMAIN ids |-> Cmd("STFPA", ids[i])]

Requests(name) == LET pids == SetToSeq(PIDs) IN [i \in DOMAIN pids |-> Cmd(name, {pids[i]})]

StartPeriodic == <<Cmd("STCMM1", {})>> \o Requests("STPPMA")

StopPeriodic == Plain(<<"STPPMC", "STCMM0">>)

Monitor == <<Cmd("Monitor", {})>>

(* connect, and what the mode sends then. *)
Configuration ==
    InitCommands \o IF driver.kind = "stn" THEN StnFilterCommands ELSE ElmFilterCommands

Polling ==
    CASE driver.mode = "monitor" -> Monitor
      [] driver.mode = "poll" -> Requests("Request")
      [] driver.mode = "hybrid" -> StartPeriodic \o Monitor

Session == Configuration \o Polling

Streams(c) == c.name \in {"Monitor", "Request"}

(* The adapter has been set up, and no end of monitoring was reached. *)
Running == pc \in {"stream", "tick"} \/ (plan # <<>> /\ Streams(Head(plan)))

(* Mutant: any answer but an error is as good as an OK. *)
AcceptsAllButErrors(name, texts) == "error" \notin texts

(* expectOK; of the commands that return a value only STPPMA looks at it. *)
Accepts(name, texts) ==
    CASE name \in {"ATZ", "Request"} -> TRUE
      [] name = "STPPMA" -> "error" \notin texts
      [] OTHER -> "ok" \in texts

-----------------------------------------------------------------------------
PowerOn == [at |-> "prompt", cmd |-> Cmd("", {}), set |-> {}, code |-> {}, mask |-> {},
            pass |-> {}, periodic |-> {}, normal |-> FALSE]

Drivers == [kind : {"elm327", "stn"}, mode : {"monitor", "poll", "hybrid"},
            filters : FilterLists]

Commands ==
    [name : Range(Settings) \cup {"ATZ", "STFPC", "STCMM1", "STCMM0", "STPPMC", "Monitor", "CR"},
     arg : {{}}]
    \cup [name : {"ATCF", "ATCM", "STFPA"}, arg : SUBSET Bits]
    \cup [name : {"STPPMA", "Request"}, arg : {{pid} : pid \in PIDs}]

Adapters ==
    [at : {"prompt", "busy", "monitor"}, cmd : Commands \cup {Cmd("", {})},
     set : SUBSET Range(Settings), code : SUBSET Bits, mask : SUBSET Bits,
     pass : SUBSET SUBSET Bits, periodic : SUBSET PIDs, normal : BOOLEAN]

TypeOK ==
    /\ driver \in Drivers
    /\ pc \in {"closed", "command", "answer", "stream", "drain", "tick", "ended"}
    /\ plan \in Seq(Commands)
    /\ pc \in {"command", "answer"} => plan # <<>>
    /\ acc \subseteq Texts
    /\ pending \in Seq(Texts \cup {Prompt})
    /\ stop \in BOOLEAN
    /\ port \in BOOLEAN
    /\ leaving \in BOOLEAN
    /\ failed \in BOOLEAN
    /\ outcome \in {"none", "drained", "undrained", "silenced", "unsilenced"}
    /\ toAdapter \in Seq(Commands)
    /\ toHost \in Seq(Texts \cup {Prompt})
    /\ adapter \in Adapters
    /\ adapter.at = "busy" => adapter.cmd.name \notin {"", "CR"}
    /\ sessions \in 0..MaxSessions
    /\ timeouts \in 0..MaxTimeouts

Init ==
    /\ driver \in Drivers
    /\ driver.mode = "hybrid" => driver.kind = "stn"
    /\ pc = "closed"
    /\ plan = <<>>
    /\ acc = {}
    /\ pending = <<>>
    /\ stop = FALSE
    /\ port = FALSE
    /\ leaving = FALSE
    /\ failed = FALSE
    /\ outcome = "none"
    /\ toAdapter = <<>>
    /\ toHost = <<>>
    (* an earlier process may have left the adapter in monitor mode *)
    /\ adapter \in {PowerOn, [PowerOn EXCEPT !.at = "monitor", !.normal = TRUE,
                                             !.periodic = PIDs]}
    /\ sessions = 0
    /\ timeouts = 0

-----------------------------------------------------------------------------
(* The host. *)

(* The steps of obdconn.connect; failing there leaves no driver behind. *)
Configures(c) == c.name \notin {"STCMM1", "STPPMA", "STPPMC", "STCMM0", "Monitor", "Request"}

Configuring == plan # <<>> /\ Configures(Head(plan))

(* reconnect looks at stop before every connect. *)
Open ==
    /\ pc = "closed"
    /\ ~stop
    /\ sessions < MaxSessions
    /\ sessions' = sessions + 1
    /\ port' = TRUE
    /\ plan' = Session
    /\ pc' = "command"
    /\ pending' = <<>>
    /\ failed' = FALSE
    /\ outcome' = "none"
    /\ UNCHANGED <<driver, acc, stop, leaving, line, adapter, timeouts>>

GiveUp ==
    /\ pc = "closed"
    /\ stop
    /\ pc' = "ended"
    /\ UNCHANGED <<driver, plan, acc, pending, stop, port, leaving, failed, outcome, line,
                   adapter, sessions, timeouts>>

(* The session is over; after an error, unless told to stop, comes the next. *)
Return(err) ==
    /\ pc' = IF err /\ ~stop THEN "closed" ELSE "ended"
    /\ port' = (port /\ pc' = "ended")
    /\ plan' = <<>>
    /\ leaving' = FALSE

(* runHybrid clears the periodic messages whatever Monitor returned. *)
MonitorReturns(err) ==
    IF driver.mode = "hybrid"
    THEN /\ leaving' = TRUE
         /\ plan' = StopPeriodic
         /\ pc' = "command"
         /\ failed' = err
         /\ UNCHANGED port
    ELSE Return(err) /\ UNCHANGED failed

CommandFails ==
    CASE leaving -> outcome' = "unsilenced" /\ Return(failed) /\ UNCHANGED failed
      [] ~leaving /\ Configuring ->
            /\ pc' = "closed" /\ port' = FALSE /\ plan' = <<>>
            /\ UNCHANGED <<leaving, failed, outcome>>
      [] ~leaving /\ Head(plan).name = "Monitor" -> MonitorReturns(TRUE) /\ UNCHANGED outcome
      [] OTHER -> Return(TRUE) /\ UNCHANGED <<failed, outcome>>

(* pollOnce looks at stop before every request. *)
CommandWorks ==
    /\ UNCHANGED failed
    /\ IF Len(plan) > 1
       THEN IF Head(plan).name = "Request" /\ stop
            THEN pc' = "tick" /\ plan' = <<>> /\ UNCHANGED <<port, leaving, outcome>>
            ELSE pc' = "command" /\ plan' = Tail(plan) /\ UNCHANGED <<port, leaving, outcome>>
       ELSE IF leaving THEN outcome' = "silenced" /\ Return(failed)
            ELSE pc' = "tick" /\ plan' = <<>> /\ UNCHANGED <<port, leaving, outcome>>

(* writeLine; Monitor goes on to its loop, with what is pending fed to it. *)
Write ==
    /\ pc = "command"
    /\ port
    /\ toAdapter' = Append(toAdapter, Head(plan))
    /\ acc' = {}
    /\ IF Head(plan).name = "Monitor" THEN pc' = "stream" /\ pending' = <<>>
       ELSE pc' = "answer" /\ UNCHANGED pending
    /\ UNCHANGED <<driver, plan, stop, port, leaving, failed, outcome, toHost, adapter,
                   sessions, timeouts>>

(* The write fails: the link is lost, or Close was faster. *)
TransportFails ==
    /\ pc = "command"
    /\ CommandFails
    /\ UNCHANGED <<driver, acc, pending, stop, line, adapter, sessions, timeouts>>

(* What the next read may return: what is pending, or some of the line. *)
Chunks == IF pending # <<>> THEN {pending}
          ELSE {SubSeq(toHost, 1, n) : n \in IF port THEN 1..Len(toHost) ELSE {}}

Consume(chunk) ==
    toHost' = IF pending # <<>> THEN toHost ELSE SubSeq(toHost, Len(chunk) + 1, Len(toHost))

Before(chunk, n) == SubSeq(chunk, 1, n - 1)
After(chunk, n) == SubSeq(chunk, n + 1, Len(chunk))

(* strings.IndexByte: where the first prompt of what was read is. *)
Prompted(chunk) ==
    {n \in DOMAIN chunk : chunk[n] = Prompt /\ ~Contains(Before(chunk, n), Prompt)}

(* readUntilPrompt: no prompt yet. *)
Collect ==
    /\ pc \in {"answer", "drain"}
    /\ \E chunk \in Chunks :
        /\ ~Contains(chunk, Prompt)
        /\ Consume(chunk)
        /\ acc' = acc \cup Range(chunk)
    /\ pending' = <<>>
    /\ UNCHANGED <<driver, pc, plan, stop, port, leaving, failed, outcome, toAdapter,
                   adapter, sessions, timeouts>>

Answered ==
    /\ pc = "answer"
    /\ \E chunk \in Chunks : \E n \in Prompted(chunk) :
        /\ Consume(chunk)
        /\ pending' = After(chunk, n)
        /\ acc' = {}
        /\ IF Accepts(Head(plan).name, acc \cup Range(Before(chunk, n)))
           THEN CommandWorks ELSE CommandFails
    /\ UNCHANGED <<driver, stop, toAdapter, adapter, sessions, timeouts>>

(* No answer in time, or the read fails; after a stop no session follows. *)
TimeOut ==
    /\ pc = "answer"
    /\ pending = <<>>
    /\ stop \/ timeouts < MaxTimeouts
    /\ timeouts' = IF stop THEN timeouts ELSE timeouts + 1
    /\ CommandFails
    /\ UNCHANGED <<driver, acc, pending, stop, line, adapter, sessions>>

(* Monitor's loop; a prompt in the stream ends a line and nothing else. *)
Stream ==
    /\ pc = "stream"
    /\ \E chunk \in Chunks : Consume(chunk)
    /\ UNCHANGED <<driver, host, stop, port, toAdapter, adapter, sessions, timeouts>>

StreamFails ==
    /\ pc = "stream"
    /\ MonitorReturns(TRUE)
    /\ UNCHANGED <<driver, acc, pending, stop, outcome, line, adapter, sessions, timeouts>>

(* stopMonitor sends one carriage return and drains to the prompt. *)
StopMonitor ==
    /\ pc = "stream"
    /\ stop
    /\ port
    /\ toAdapter' = Append(toAdapter, Cmd("CR", {}))
    /\ pc' = "drain"
    /\ acc' = {}
    /\ UNCHANGED <<driver, plan, pending, stop, port, leaving, failed, outcome, toHost,
                   adapter, sessions, timeouts>>

Drained ==
    /\ pc = "drain"
    /\ \E chunk \in Chunks : \E n \in Prompted(chunk) :
        /\ Consume(chunk)
        /\ pending' = After(chunk, n)
    /\ outcome' = "drained"
    /\ MonitorReturns(FALSE)
    /\ UNCHANGED <<driver, acc, stop, toAdapter, adapter, sessions, timeouts>>

(* A time-out, or an error, while draining is ignored. *)
Undrained ==
    /\ pc = "drain"
    /\ pending = <<>>
    /\ outcome' = "undrained"
    /\ MonitorReturns(FALSE)
    /\ UNCHANGED <<driver, acc, pending, stop, line, adapter, sessions, timeouts>>

(* runPoll's select. *)
Tick ==
    /\ pc = "tick"
    /\ ~stop
    /\ plan' = Requests("Request")
    /\ pc' = IF PIDs = {} THEN "tick" ELSE "command"
    /\ UNCHANGED <<driver, acc, pending, stop, port, leaving, failed, outcome, line,
                   adapter, sessions, timeouts>>

EndPoll ==
    /\ pc = "tick"
    /\ stop
    /\ Return(FALSE)
    /\ UNCHANGED <<driver, acc, pending, stop, failed, outcome, line, adapter, sessions,
                   timeouts>>

-----------------------------------------------------------------------------
(* The world: Discontinue and Close, and the line between two sessions.    *)
Stop ==
    /\ ~stop
    /\ stop' = TRUE
    /\ UNCHANGED <<driver, host, port, line, adapter, sessions, timeouts>>

(* Base.Close closes the driver that is installed, the loop still running. *)
CloseDriver ==
    /\ stop
    /\ port
    /\ ~Configuring
    /\ port' = FALSE
    /\ UNCHANGED <<driver, host, stop, line, adapter, sessions, timeouts>>

Lose ==
    /\ pc = "closed"
    /\ line # <<<<>>, <<>>>>
    /\ toHost' = <<>>
    /\ toAdapter' \in {toAdapter, <<>>}
    /\ UNCHANGED <<driver, host, stop, port, adapter, sessions, timeouts>>

-----------------------------------------------------------------------------
(* The adapter. *)
Effect(a, c) ==
    CASE c.name = "ATZ" -> PowerOn
      [] c.name \in Range(Settings) -> [a EXCEPT !.set = @ \cup {c.name}]
      [] c.name = "ATCF" -> [a EXCEPT !.code = c.arg]
      [] c.name = "ATCM" -> [a EXCEPT !.mask = c.arg]
      [] c.name = "STFPC" -> [a EXCEPT !.pass = {}]
      [] c.name = "STFPA" -> [a EXCEPT !.pass = @ \cup {c.arg}]
      [] c.name = "STCMM1" -> [a EXCEPT !.normal = TRUE]
      [] c.name = "STCMM0" -> [a EXCEPT !.normal = FALSE]
      [] c.name = "STPPMA" -> [a EXCEPT !.periodic = @ \cup c.arg]
      [] c.name = "STPPMC" -> [a EXCEPT !.periodic = {}]
      [] c.name = "Request" -> a

AnswerTexts(c) ==
    CASE c.name = "ATZ" -> {"banner"}
      [] c.name = "STPPMA" -> {"value"}
      [] c.name = "Request" -> {"frame", "nodata"}
      [] OTHER -> {"ok"}

(* A lone carriage return at the prompt may bring another prompt. *)
Take ==
    /\ adapter.at = "prompt"
    /\ toAdapter # <<>>
    /\ toAdapter' = Tail(toAdapter)
    /\ IF Head(toAdapter).name = "CR"
       THEN toHost' \in {toHost, Append(toHost, Prompt)} /\ UNCHANGED adapter
       ELSE adapter' = [adapter EXCEPT !.at = "busy", !.cmd = Head(toAdapter)]
            /\ UNCHANGED toHost
    /\ UNCHANGED <<driver, host, stop, port, sessions, timeouts>>

Answer ==
    /\ adapter.at = "busy"
    /\ IF adapter.cmd.name = "Monitor"
       THEN adapter' = [adapter EXCEPT !.at = "monitor"] /\ UNCHANGED toHost
       ELSE /\ adapter' = [Effect(adapter, adapter.cmd) EXCEPT !.at = "prompt",
                                                               !.cmd = Cmd("", {})]
            /\ \E text \in AnswerTexts(adapter.cmd) : toHost' = toHost \o <<text, Prompt>>
    /\ UNCHANGED <<driver, host, stop, port, toAdapter, sessions, timeouts>>

Refuse ==
    /\ adapter.at = "busy"
    /\ adapter' = [adapter EXCEPT !.at = "prompt", !.cmd = Cmd("", {})]
    /\ toHost' = toHost \o <<"error", Prompt>>
    /\ UNCHANGED <<driver, host, stop, port, toAdapter, sessions, timeouts>>

(* Any byte ends monitor mode; what follows it in a command may be taken   *)
(* for a command nobody knows.                                             *)
Interrupt ==
    /\ adapter.at = "monitor"
    /\ toAdapter # <<>>
    /\ toAdapter' = Tail(toAdapter)
    /\ adapter' = [adapter EXCEPT !.at = "prompt", !.cmd = Cmd("", {})]
    /\ \E rest \in {<<>>} \cup IF Head(toAdapter).name = "CR" THEN {}
                              ELSE {<<"error", Prompt>>} :
        toHost' = toHost \o <<"stopped", Prompt>> \o rest
    /\ UNCHANGED <<driver, host, stop, port, sessions, timeouts>>

Emit ==
    /\ adapter.at = "monitor"
    /\ Len(toHost) < MaxWire
    /\ toHost' = Append(toHost, "frame")
    /\ UNCHANGED <<driver, host, stop, port, toAdapter, adapter, sessions, timeouts>>

(* The adapter leaves monitor mode by itself: BUFFER FULL. *)
Abort ==
    /\ adapter.at = "monitor"
    /\ adapter' = [adapter EXCEPT !.at = "prompt", !.cmd = Cmd("", {})]
    /\ toHost' = toHost \o <<"error", Prompt>>
    /\ UNCHANGED <<driver, host, stop, port, toAdapter, sessions, timeouts>>

-----------------------------------------------------------------------------
Ask == Open \/ GiveUp \/ Write \/ Tick \/ EndPoll

Read == Collect \/ Answered \/ TimeOut \/ TransportFails

Watch == Stream \/ StreamFails \/ StopMonitor \/ Drained \/ Undrained

World == Stop \/ CloseDriver \/ Lose

Adapter == Take \/ Answer \/ Refuse \/ Interrupt \/ Emit \/ Abort

Next == Ask \/ Read \/ Watch \/ World \/ Adapter

Spec == Init /\ [][Next]_vars

-----------------------------------------------------------------------------
(* When connect has returned without an error nothing is under way: every  *)
(* later answer is the answer to its command, however many commands of     *)
(* earlier sessions were given up before the adapter answered them.        *)
AnswersMatch ==
    pc = "command" /\ ~leaving /\ ~Configuring =>
        /\ adapter.at = "prompt"
        /\ toAdapter = <<>>
        /\ toHost \o pending = <<>>

(* The adapter lets an identifier through its filters. *)
LetsThrough(a, id) == Matches(id, a.code, a.mask) /\ (a.pass = {} \/ id \in a.pass)

Wanted ==
    IF driver.filters = {} THEN SUBSET Bits
    ELSE driver.filters \cup IF driver.mode = "monitor" THEN {} ELSE ResponseIds

(* Whoever streams or polls does so with an adapter on which every setting *)
(* took effect, whose filters pass what was asked for and the answers to   *)
(* its own requests, and which in hybrid mode polls every PID.             *)
StreamsConfigured ==
    Running /\ ~leaving =>
        /\ adapter.set = Range(Settings)
        /\ \A id \in Wanted : LetsThrough(adapter, id)
        /\ driver.mode = "hybrid" => adapter.periodic = PIDs /\ adapter.normal

(* A prompt that ends the drain means that the adapter is out of monitor   *)
(* mode, and a StopPeriodic that reports success that it polls no more.    *)
StopLeavesQuiet ==
    /\ outcome = "drained" => adapter.at # "monitor"
    /\ outcome = "silenced" =>
        adapter.at # "monitor" /\ adapter.periodic = {} /\ ~adapter.normal
=============================================================================
