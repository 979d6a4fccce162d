# CANtou in TLA+

CANtou reads CAN frames from several kinds of interface, fans them out to outputs, decodes
signals on the way and logs both. This directory models its concurrent core in TLA+, checks it
with TLC on small instances and proves its main safety properties with TLAPS for every value of
the constants. Paths below are relative to `src/internal/` unless they start with another
directory of `src/`.

Run a check with `tlc -config <cfg> <MC module>`, a proof with `tlapm <module>_proofs.tla`.

## 1. The system

```
interfaces --> incoming channel --> MessageDispatcher --+--> CAN channel of each output --> its handler
(socketcan,     (one, bounded)      (non-blocking        |
 slcan, sim,                         fan-out)            +--> SignalDispatcher per interface --> signal
 playback,                                                    (DBC, filter, fan-out)   channel of each output
 elm327, stn)
```

Everything runs in goroutines of one `errgroup`; its context is the only shutdown signal. The
connections share one channel with the dispatcher, the dispatcher has one channel per listener,
and no channel is ever closed by the application.

| Component | State | Operations | What is hard | What makes it correct |
|---|---|---|---|---|
| Message dispatcher `client/message-dispatch` | listeners under an RWMutex, drop counters, message counter | Add, Remove, Broadcast, DroppedCount | registration during a fan-out, full channels, cancel | each listener gets a subsequence of what was taken, once, in order; every loss is counted; a hanging listener holds nobody up; cancel ends both goroutines |
| Dedupe filter `client/dedupe` | map from content hash to time, mutex | Filter | several callers, a clock that runs on inside a call, sweep | one pass per window; only duplicates dropped; the map forgets |
| OBD connection `connection/obdconn` | driver under a mutex; streaming, quit, opened outside it | Open, Receive, Discontinue, Close; loop: monitor, poll, hybrid, reconnect | Close against reconnect, lost links, blocked sends, back-off | one port open at a time; the loop ends when asked and only then; a lost link comes back; Close leaves nothing open |
| OBD device `obd/device.go`, `elm327.go`, `stn.go` | bytes read past the last prompt | command, Monitor, Request, Init, SetFilters, StartPeriodic, StopPeriodic | time-outs that leave an answer under way, leaving monitor mode | an answer belongs to its command; whoever streams does so with a configured adapter; a stop that reports success has stopped it |
| InfluxDB output `output/influxdb` | block, queue of blocks, workers (for messages and for signals) | two channel handlers, Run, worker | worker pool at capacity, ticker, start/stop race | no message lost uncounted or written twice; batches in order; shutdown drains |
| Application `app`, `cmd/server` | lists of dispatchers and listeners, errgroup | AddSignalDispatcher, AddOutput, Run | start order, first error, exit | wiring before traffic; an error stops the inputs; exit when nothing runs |
| Connection manager `connection/connection_manager.go` | map of connections, next id, WaitGroup | Add, Connect, DeleteConnection, OpenAll, CloseAll, ReceiveAll, lookups | deletions between additions, one failure of several, a copy that grows stale | an id names one connection for good; no error means that all were opened, closed, or have ended |
| Signal dispatcher `client/signal-dispatch`, `client/signal-filter`, `parser/obd2` | listeners, drop counters, filter rules | AddListener, Dispatch, DroppedCount; Allow; ExpandPIDsSupported | bursts of signals per message | per-listener order and accounting, rejected signals never sent |
| Receivers `connection/{socketcan,slcan,simulate,playback}` | streaming, quit, opened; adapter or socket | Open, Receive, Discontinue, Close; the loops | blocking sends, unsynchronised flags, sockets that fail | each ends when told to, or is where no select gets it out |
| MF4 files `parser/mf4`, `output/mf4` | file, offset into the variable-length stream | AppendCAN, AppendSignal, Close, CloseUnfinalized; reader | crash or error between two writes, finalizing in three writes | a reader finds a prefix of what was appended |
| CSV, CRTD outputs `output/csv`, `output/crtd`, `parser/csv`, `parser/crtd` | buffered writer, ticker | handlers, AddFilter, Flush, Close | writes that fail, a crash between flushes, restart on the same file | the file keeps what it was given, in order and without a gap; nothing waits for more traffic |
| MQTT output `output/mqtt` | client, goroutines that wait for an acknowledgement | handlers, publish | a broker that goes and comes | every message comes to an end, nothing waits for the broker |
| Prometheus output `output/prometheus` | counters, server | handlers, Run | server failure | an error of the server stops the process |
| DBC parser `parser/dbc` | compiled messages | ParseSignals, MultiParser | multiplexor order | exactly the active signals |
| Message filters `client/filter`, `client/common` | - | FilterSet, filters | operator and empty groups | as their reference definitions |
| Configuration, logging | - | once at start | - | - |

## 2. Modules

| Module | Models | Extends / instantiates |
|---|---|---|
| `LossyFanout` | what a broadcaster promises (abstract) | |
| `MessageDispatch` | the message dispatcher with its listeners and feeding connections | refines `LossyFanout` |
| `Dedupe` | the dedupe filter | |
| `ObdConn` | one OBD connection: caller, receive loop, link, context | |
| `ObdDevice` | what a session of that connection says to its adapter, and the adapter | |
| `Receivers` | the receive loops of simulator, playback, SLCAN and SocketCAN and their operations | |
| `ConnectionManager` | the registry of connections over those loops | extends `Receivers` |
| `OutputFile` | what the handlers of CSV, CRTD and MQTT keep, and what must hold of the file | |
| `OutputHandlers` | their steps, the file over several starts of the process, the broker | extends `OutputFile` |
| `Dbc` | which signals of a multiplexed message a frame holds, several parsers in a row (operators) | |
| `SignalDispatch` | signal dispatchers over the outputs' shared channels: expansion of PID listings, filter, fan-out | refines `LossyFanout`; its MC module takes the parsers from `Dbc` |
| `Mf4Writer` | one MF4 file, write by write, with failures and crashes, and the playback reader over it | |
| `InfluxBlocks` | where one side (messages or signals) of the InfluxDB output keeps its messages, and what must hold of them | |
| `InfluxBatch` | its steps | extends `InfluxBlocks` |
| `AppWiring` | who is registered with whom and which goroutines there are, and what must hold of that | |
| `App` | the steps of the process: wiring, start, error, exit | extends `AppWiring` |
| `MC*` | values of the constants for TLC | the module they name |
| `LossyFanout_proofs`, `MessageDispatch_proofs`, `Dedupe_proofs`, `ObdConn_proofs`, `ObdDevice_proofs`, `SignalDispatch_proofs` | theorems | the module they name, and TLAPS |
| `Lifecycle_proofs` | theorems about `ConnectionManager` and `App` | extends the one and `AppWiring`, instantiates `App` |
| `Outputs_proofs` | theorems about `Mf4Writer`, `InfluxBatch` and `OutputHandlers` | extends the first, `InfluxBlocks` and `OutputFile`, instantiates the other two |

`AppWiring`, `InfluxBlocks` and `OutputFile` hold the state a component keeps and the properties of it
apart from the steps, so that one proof module can speak of several components: it extends the state
of each, under its own name, and instantiates the steps.

An operator whose comment begins "Mutant:" stands before the action it distorts. It is not part of
any specification; it shows that some property would notice that mistake in the code.

### MessageDispatch

`Add` and `Remove` are one step each, as their write lock makes them. The broadcast loop is cut
at every point where another goroutine can interfere: `Receive` (the select took a message),
`Snapshot` (the copy under the read lock), and per listener `Skip`, `Deliver` or `Drop`; `Stop`
and `StopReporter` are the `ctx.Done()` cases. A registration is an object with its own drop
counter, as `registeredListener` is, so remove-and-add-again gives two. `testFilterGroup` is
`Passes`; a filter is the set of interfaces it accepts, which is all `CanInterfaceFilter` tests,
the only message filter the application installs. The length of `log` stands for `msgCount`.
`Send` is the blocking send of a connection, `Handle` a handler's receive.

History variables: `log` (messages taken) and `span` (per registration, the part of the log it is
answerable for and how much of it went into the channel).

- `ImplementsLossyFanout`: the refinement; `DeliveredInOrder` is its consequence, proved and not run. The abstract
  listener either gets the latest message once or never; that a listener removed and added
  during the fan-out is offered the message once only rests on the copy.
- `Accounting`: delivered + dropped + still to be offered = matching messages whose snapshot was
  taken between Add and Remove. A loss that is not counted, a double delivery, a skipped
  listener each break it.
- `SlowListenersHoldNobodyUp`, `CancelEndsBroadcast`: with no fairness for handlers.

### Dedupe

One step per reading of the clock: `Insert`, every turn of the sweep (`Sweep`, in any order, as Go
maps iterate), the comparison (`FindExpired`, `FindDuplicate`) and the later `Renew`. `Tick` comes
between any two. The hash is an arbitrary function of the content, collisions included; `passes`
records the times written per hash, so "a pass" is the moment the code stores.

### ObdConn

Two processes: the caller (`Open`, `Receive`, then `Close` in three steps: `Discontinue`,
`TakeDriver`, `CloseDriver`) and the receive loop. `connect` is shared and cut into
`OpenTransport`, `Configure` (Init, then SetFilters) and `Install`, because it holds no lock
until its end. The loop's steps follow `run`, `runOnce`, `runPoll`, `runHybrid`, `reconnect` and
`Device.Monitor`; `mode` is the mode `New` settled on and is chosen at the start. A transport is
`open`, `closed`, or `dead` when its link went down; a lost link shows at the next read or write.
Commands work or fail (`CommandWorks`, `CommandFails`): always fail on a transport that is not
open, sometimes on one that is. A failed read carries no data. The driver is identified with its
transport, since each owns exactly one.

### ObdDevice

The other half of `ObdConn`: there a command works or fails, here it is a text on a line, answered,
refused, or answered too late. `Session` is the commands `connect` sends and what the mode sends
after them (`plan`, its head being the current one). `Write` is `writeLine`; `Collect`, `Answered`
and `TimeOut` (the deadline, or a read that fails) are the turns of `readUntilPrompt`, over what an
earlier read left in `pending` first; a read returns any part of what is on the line, and ends at
its first prompt (`Prompted`). `TransportFails` is a write that fails. `Accepts` is `expectOK`, and the two commands whose
answer is no OK. `Stream`, `StopMonitor`, `Drained` and `Undrained` are Monitor's loop and its end,
after which `MonitorReturns` has hybrid mode clear the periodic messages. `CommandFails` goes back
to `closed`, from where `Open` begins a new session over the same line: an answer that was given
up may arrive there. `stop` is the closed `quit` channel; that a cancelled context counts in
`stopping()` and not in Monitor is in `ObdConn`.

The adapter is external: it answers commands in order, may refuse any, keeps filters and periodic
messages until told otherwise or reset, is taken out of monitor mode by any byte, or leaves it
by itself. An answer is one text and the prompt. An identifier is the set of its bits, so that
`Code` and `Mask` are the intersection and the bits all agree on, for any width; a list of
identifiers is the set of them, since no property tells their order apart.

- `AnswersMatch`: when `connect` succeeds nothing is under way in either direction, although earlier
  sessions left answers behind. It rests on the banner being no OK, and on `expectOK`: one
  stale answer shifts the whole conversation, and the shift ends at a command that gets the banner.
- `StreamsConfigured`: who monitors or polls does so with all settings made, with filters that let
  every wanted identifier through, and with the periodic messages installed.
- `StopLeavesQuiet`: a drain that saw its prompt, and a StopPeriodic that reported success, mean that
  the adapter is quiet.

### Receivers and ConnectionManager

A loop is cut where another goroutine can come between: the look at `streaming` (`Parse`,
`NextEntry`, `CheckStreaming`), the wait (`Timer`), the read (`Frame`, `NoFrame`, `ChannelCloses`),
the send into the shared channel (`Send`), and the select cases (`SeeContext`, `SeeQuit`).
`WatchesContext` says which of these are selects with a `ctx.Done()` case: the send of SLCAN and the
read of SocketCAN are not. `End` gives back the share in the WaitGroup. The owner of the manager
does one operation at a time; OpenAll and CloseAll are one step per connection of their copy, in
any order, and stop at the first error; Discontinue of SocketCAN is two steps. ReceiveAll blocks a
goroutine of its own. The guards that keep the model out of panics are those of a caller that opens
before it receives or closes, and discontinues a connection once.

- `IdsStayApart`: an id names one connection for good, also when others were deleted in between.
- `AllMeansAll` (action property): a return without an error from OpenAll, CloseAll or ReceiveAll.
- `CancelEndsLoops`: every loop ends or is `Stuck`: in an SLCAN send that does not fit into the channel
  any more, or in a SocketCAN read without frames. Nothing else holds a shutdown up.
- `DiscontinueEndsLoops`: wherever the loop was, and for playback and SocketCAN although the flag it
  looks at is a plain variable. The simulator never looks.

### OutputFile and OutputHandlers

`Take`, `FlushAtTick`, `EndOfInput` and `Close` are the handler's select and what follows it, for the
files with a ticker and for MQTT without. A line is cut into pieces, the buffer counts pieces and
goes out in the middle of a line; `WriteOut` is one write call that may be cut short, after which
bufio refuses everything (`failed`). `Stop` is a crash or an exit, `Start` the next process on the
same file, with the header each sink writes. MQTT drops a message when it has no connection and
waits for acknowledgements in goroutines (`waiting`), each with a time-out (`GiveUp`). Handlers of
signals are handlers of messages without filters.

- `FileReadsBack`: of each session the file holds a prefix of what the writer was given, sessions do
  not mix, and while no write has failed what is missing is what the buffer holds.
- `EveryMessageSettles`: no message waits for more traffic or for the broker.

### SignalDispatch and Dbc

`Receive` takes a message and decodes it; `Snapshot` begins a decoded signal: it is expanded and
the list of listeners is copied, as the code does once per decoded signal and not per message.
Each signal of the expansion is then rejected or forwarded (`Reject`, `Forward`) and offered to
each listener of the copy (`Deliver`, `Drop`). The list only grows, so a copy is its length. Every
dispatcher offers into the same channels, one per output, and an output may register while they
run; `AddOutput` finishes one output before it begins the next. A name of a signal is its text
and, for those that `ExpandPIDsSupported` makes, the PID that ends it; a rule matches a set of
names, or all others. `Parse` is a constant here; the MC module fills it with `Dbc!ParseAll`,
which is `MultiParser` over `ParseSignals` with a nested multiplexor. A raw value is the set of
its one bits, so that a listing of PIDs and the number of a branch can share the representation.

- `ImplementsLossyFanout`: each dispatcher alone is a lossy fan-out, whatever the others put into
  the same channels. A listener that registers in the middle of a message is in no copy yet and
  gets what the next copy offers.
- `Accounting`: per registration, delivered + dropped = forwarded since a copy first held it.
- `ForwardsWhatItDecodes`: between two messages the signals offered are exactly the allowed ones
  of the messages taken, none twice, none out of order, and no listing left unexpanded.
- `CloseDrains`: Dispatch returns after the last message of a closed channel, with no handler's
  help.

### Mf4Writer

A step is one `write` call: the eleven metadata blocks, the record of a frame (`WriteRecord`), its
payload (`WritePayload`, after which alone `vlsdOffset` moves), and `finalize`'s three. `Fail` is a
write that puts down a part of its bytes and returns an error, which `HandleCanMessage` logs and
goes on from, `newWriter` and `finalize` give up on; `Crash` is the same with nothing after it. The
file after its metadata is a sequence of cells, a cell for each field or data byte, so the reader
walks what is really there, record IDs it mistakes included. `Pass` is one turn of its loop, `Ends`
the conditions to leave it, `Walk` what it has after each turn, and `Read` makes entries of what it has
at the end. The code walks twice, for the payloads (`collectVLSD`) and for the records (`parseDG`),
with the same conditions and steps, so one walk of the model collects both, and `Lookup` comes after it.
`DTData` is the choice between the length in the block and the end of the file.

- `Recoverable`: whatever happened, every frame appended before the first failed write is read with
  its data; without a failure at most one more entry is there, its data complete or absent.
- `ReadsStay`: an entry once read is read the same after any later step.
- `FinalizedIsComplete`: the order of `finalize`'s writes.

### InfluxBlocks and InfluxBatch

`stage` is where the handler is: its select (`Stop`, `Take`, `Tick`), `flush` (`Flush`), and the closing sequence
(`Flush` at "last", `Close`, `Wait`); `Run` as `Launch` per worker, concurrent with the handler
because `AddOutput` starts both with `wgClients.Go`; workers `TakeChunk`, `Write`, `EndWorker`.
`wg` is the number of launched workers that have not ended. The tests also close the input
channel (`CloseInput`), which the application never does. A write fails if the context is
cancelled, and up to `MaxFailedWrites` times otherwise. A message is in a box: the block, a queued
batch, a worker's hands, or one of the histories `written`, `unwritten` and `dropped`.

- `Conserved`: each message taken that no filter rejects is in one box, once.
- `BatchesInOrder`: the boxes that wait for a worker are in the order the messages came.
- `WaitDrains`: a handler that returns, with workers launched, has had every batch taken.

### AppWiring and App

`main` and `AppData` in program order: dispatchers, outputs, `Run`. Goroutines are records of who
runs what; a member that fails cancels the context (errgroup). An output is one of three kinds:
with a server (Prometheus: `Run` serves until it fails, and as the only member that fails by itself it never sees the cancellation), with a pool (InfluxDB: `Run`
returns at once, the handlers watch the context), or plain (CSV, CRTD, MF4, MQTT: the handlers
range over a channel nobody closes and so have no step that ends them, like `Dispatch`). An
interface in `Endless` streams until the context ends (simulator, looping playback, SocketCAN
while frames arrive); the others end on their own. `config`, the two options that decide what
is wired, is chosen at the start.

- `WiredBeforeStart`: no registration with a dispatcher that runs.
- `ListenersAreServed`: whoever is registered when traffic starts has its goroutine, and no
  goroutine runs for a channel that nobody fills.

## 3. Runs

| Run | Configuration | Shows |
|---|---|---|
| `dispatch` | 2 connections x 1 message, 3 listeners (one filtered, one with an "or" group), channels of 1, 3 registrations, reporter on | types, accounting, refinement under Add/Remove at any point; progress and cancel |
| `dedupe_window` | 2 callers, 3 contents (one untracked), window of 2, 4 calls, clock to 5 | types, spacing, no unjustified drop, the sweep |
| `obd_loop` | all three modes, 2 transports, 2 link drops, 1 fault, 2 frames per read, channel of 1 | ports, ending, late opens, back-off; Close, cancel and link loss as liveness |
| `obd_leak` (violation) | same | Close during a reconnect leaves a port open |
| `obd_prompt` | both adapters, all modes; filters of none, one or two identifiers of 3 bits; 3 sessions, 2 time-outs, 1 PID | answers match, adapters are configured, a stop is quiet |
| `influx_batches` | 2 workers, blocks of 2, channel of 2, 5 messages of which one is filtered, 1 fault | conservation, order, draining, no message left behind |
| `app_lifecycle` | one output of each kind, 3 interfaces, 2 with parsers, every choice of options | wiring, service, error |
| `app_finalize` (violation) | MF4 and Prometheus | the handler of MF4 never ends |
| `signals` | 2 dispatchers, 1 message each: a listing of two PIDs under two parsers, a nested branch; 2 outputs, channels of 1 | accounting, what is forwarded, refinement per dispatcher, draining |
| `mf4_crash` | 3 frames of 0 to 2 bytes, one too long, 2 failed writes, a crash | what the reader finds |
| `receivers` | an SLCAN, a SocketCAN and a third connection that simulates or plays back in a loop; channel of 1, 1 deletion, close or discontinuation | ids, all means all, endings |
| `outputs` | five kinds of sink, 3 messages of 2 pieces, a buffer of 3 pieces, 2 starts | the file over crashes and failed writes; no message left behind |

### Bounds

`MaxSent`, `MaxFed`, `MaxRegistered`, `MaxTime`, `MaxCalls`, `MaxDrops`, `MaxFaults`, `MaxFailedWrites`, `MaxChunk`,
`MaxMessages`, `MaxSessions`, `MaxTimeouts`, `MaxWire` and `MaxEndings` bound what the world feeds in; capacities are the program's own parameters, made
small. With channels of one message the second message already meets a full channel, and the
third registration is a listener added again while its old registration may still be in a copy.
Five steps of clock with a window of two let an entry be written, expire, be swept or renewed and
expire again. Two link drops let the link fail during a reconnect; two transports are one more
than may be open. Five messages fill two blocks and leave a partial one, with two workers and a
queue of two to fill. One message per signal dispatcher is three to five signals, enough to fill a
channel several times over and to register an output in the middle. Three frames are one before
a failed write, the one it cuts short, and one whose record follows; two failures let both halves
of it, or a half and a write of `finalize`, fail. Three sessions are two that leave an
answer behind and one that meets both. `MaxTimeouts` stays below the number of settings in Init by
assumption: so many answers that come late could shift the banner past the last of them, with an
adapter that answers each a whole time-out late. Three connections are one of
each way to be stuck and one that cannot be; one ending suffices for a deleted id to be wanted again
and for each kind to be discontinued. A buffer of three pieces cuts the second line of two. The proofs have none of these bounds: they hold for all values of the
constants, including the bounds.

### Fairness

The Go scheduler runs every runnable goroutine: weak fairness for the steps of the loops. A
`select` picks at random among ready cases, so a case that is ready again and again is taken:
strong fairness for the `ctx.Done()` and ticker cases. No fairness for the world: connections,
callers, link, cancel, and, in `MessageDispatch` and `SignalDispatch`, the handlers of listeners. In `InfluxBatch` a
write is assumed to return (the client has time-outs). In `App` every goroutine that may end is
assumed to end, which for SocketCAN includes that frames keep arriving: its loop looks at the
context only after the next frame. `ConnectionManager` makes no such assumption: there no frame need
come, adapters and sockets may fail, and the dispatcher takes messages until the context is done and
not longer. In `OutputHandlers` the broker owes nothing. `ObdDevice` states no fairness.

### Findings

1. `obd_leak`: `connection.go:285`. Close takes the driver while `connect` is between opening the
   transport and storing the driver; the new transport stays open, against "Close stops streaming
   and closes the device" (`connection.go:292`).
2. `app_finalize`: `output/mf4/client.go:101`. MF4 files are not "finalized on graceful shutdown"
   (`README.md:78`): nothing closes the channel the handler ranges over, and the process does
   not exit either.
More that follow from the models, or from reading for them, and are not kept as runs:

- `obd/device.go:174`: Monitor looks at `stop` only; a cancelled context does not end monitor or
  hybrid mode, although `stopping()` counts the context as a request to shut down. Hence
  `ContextEndsPolling` and not `ContextEndsReceive`.
- `obd/device.go:200`: an adapter that leaves monitor mode by itself (`BUFFER FULL`, `Abort` in
  `ObdDevice`) prints a prompt, which `feedMonitor` takes for the end of a line; the loop then reads
  nothing for ever, no error starts a reconnect.
- `parser/mf4/writer.go:292`: after a write that failed half way the writer goes on at the same
  offset: the next record, or payload, is read as the data of the frame before, against "MF4 output is
  round-trippable through the built-in playback parser" (`README.md:81`). `Recoverable` speaks of
  the frames before the first failure for that reason.
- `connection/slcan/hardware_linux.go:54` and `connection/socketcan/receiver.go:19` are the two places
  where a cancel does not reach a loop (`Stuck`). After an error of its socket the SocketCAN loop tries
  its old receiver every 100 ms: the "reconnect attempt" of `receiver.go:40` dials nothing.
- `connection/simulate/connection.go:152`: Discontinue clears a flag the loop never reads; `Close` of
  simulator and playback ends no loop either.
- `connection/connection_manager.go:182`: the first error of CloseAll leaves the others open.
- `parser/csv/writer.go:47`, `parser/crtd/writer.go:92`: one write that fails silences a file output
  for the rest of the process; after a crash in the middle of a line the next session goes on behind
  the half line.
- `connection.go:347`: the application never calls `Open` or `OpenAll`, so the OBD loop finds a nil
  driver and ends at once; `EndsOnlyWhenAsked` fails with `OpensFirst = FALSE`. SLCAN
  (`hardware_linux.go:45`) and SocketCAN rely on `Open` in the same way.
- `output/influxdb/client.go:223`: `wg.Add` in `Run` is not ordered before `wg.Wait` in the handler,
  which after an early cancel returns before its workers (`ReturnsAfterWorkers` fails).

## 4. Proofs

All theorems hold for any values of the constants that satisfy the module's assumption
(`DispatchAssumption`, `DedupeAssumption`, `ObdAssumption`, `Mf4Assumption`, `ReceiversAssumption`,
`ManagerAssumption`, `SignalAssumption`, `AppAssumption`, `InfluxAssumption`, `OutputAssumption`): channel
sizes and bounds are natural numbers, the configuration lists each connection once, a parser gives
finitely many signals, the null values are distinct from the real ones, a buffer has room for one
line, and an output and an interface have different names (`app.go` gives listeners of both kinds a
prefix of their own).

| Theorem | Property | Argument |
|---|---|---|
| `FanoutInOrder` | `InOrder` | each listener has a witness embedding of what it got into the log, which a delivery extends at the end; the last message of the log is in no witness while its listener is pending |
| `DispatchTypes` | `TypeOK` | inductive with its parts: the loop, the registry and the channels |
| `DispatchNames` | distinct names | the registry holds each name once, and so does the copy, which only loses its head; needed because the registration is found by name |
| `DispatchRefines` | `ImplementsLossyFanout` | step by step: `Receive` is Publish to every listener, `Snapshot` and `Skip`, `Drop` are PassOver, `Deliver` is Deliver (distinct names make the listener leave `Pending`), the rest stutters; `Handle` moves a message from one half of `Got` to the other |
| `DispatchInOrder` | `DeliveredInOrder` | `DispatchRefines` and `FanoutInOrder` |
| `DispatchAccounting` | `Accounting` | strengthened with: the copy's registrations are distinct and their spans reach the horizon, the log's older part never changes; each action changes both sides of the sum alike |
| `DedupeTypes` | `TypeOK` | with the mutex invariant: whoever is past `Lock` holds the mutex |
| `DedupeSpacing` | `OnePassPerWindow` | strengthened with: the last pass of a hash is what storage holds for it, or it is at least a window ago (the entry was swept) |
| `DedupeSweep` | `SweepLeavesTheFresh` | with the window invariant (no pass lies in the future) and `SweeperPassed`: whoever sweeps has written its own hash before; the mutex keeps the others from writing meanwhile |
| `DedupeJustified` | `DropsOnlyDuplicates` | every entry of storage is a pass |
| `ObdTypes` | `TypeOK` | with `Supply`: there is a frame left to emit, a PID left to ask |
| `ObdPort` | `OneOpenTransport` | `Owned`: a transport that is not closed is the driver, taken by Close, or being built by exactly one side; `BuildingWhile`, `Exclusive`: which of these can be at which step |
| `ObdEnding` | `EndsOnlyWhenAsked` (assuming `OpensFirst`) | `Ending`: a loop without error, or without driver, is one that was asked to stop |
| `ObdLateOpens` | `StopBoundsReconnects` | `OneLate`: the late open has happened, or the loop is still before its next `stopping()` |
| `DeviceTypes` | types | part of `DeviceInv`, see below |
| `LaterAnswersMatch` | `AnswersMatch` | `DeviceInv`: past `connect` no answer is left for it to read, so none is stray |
| `RunsAsConfigured` | `StreamsConfigured` | `DeviceInv`: every command done so far was accepted for its own answer and nothing later undid it (`Established`); the lists of commands then give settings, filters and PIDs one by one, with `FilterPasses` for an ELM327 |
| `StopsQuietly` | `StopLeavesQuiet` | `DeviceInv`: what may be on the line while StopPeriodic runs after a monitor that was not drained (`LeavingInv`), and that the OK it waits for can only be its own |
| `FilterPasses`, `FilterTightest` | | set algebra on `Code` and `Mask`, for identifiers of any width: every wanted one passes, and no code and mask that pass them all look at more bits |
| `ManagerIds` | `IdsStayApart` | `IdsOnce`: the id of a connection says when it was added, ids in use are below the next one, and the configuration names no connection twice (a surjection between finite sets of one size) |
| `ManagerAll` | `AllMeansAll` | `BehindIt`: what the operation has behind it is opened, or closed, and nobody else opens or closes meanwhile; `WgCounts` for ReceiveAll |
| `ManagerCounts` | | `WgCounts`: a loop that goes on is counted before and after, `End` and `Receive` move the set and the count alike |
| `AppTypes` | types | part of `WiringInv`, see below |
| `AppServed` | `ListenersAreServed` | `WiringInv`, once main has added every output |
| `AppWired` | `WiredBeforeStart` | `WiringInv`: a registration belongs to a phase in which no dispatcher runs yet |
| `AppExitsOnlyIdle` | | `RunsForGood`: the goroutines that range over a channel nobody closes never leave "running", and `Exit` waits for all; this is the proved side of finding 2 |
| `SignalTypes` | types | the loops, the registry and the channels apart; a dispatcher holds and forwards signals of its own interface only |
| `SignalAccounting` | `Accounting` | each listener's sum by itself (`Even`): a copy starts its count, `Forward` adds one that is owed, `Deliver` or `Drop` settles it, and nobody else touches it |
| `SignalDecodes` | `ForwardsWhatItDecodes` | `DecodeInv`, see below |
| `SignalFanout` | `ImplementsLossyFanout` | `Forward` is Publish, `Deliver` is Deliver, `Drop` is PassOver of one listener, the rest stutters, the deliveries of the other dispatchers included (`OfAdded`); an output is registered once (`NamesApart`) and what is offered passed the filter (`LogAllowed`) |
| `SignalsInOrder` | | `FanoutInOrder` of the abstract specification carried over by the same mapping, for any one dispatcher (the constant `AnyDispatcher`): what an output gets of its signals is a subsequence of what it forwarded, past its filter |
| `Mf4Types` | types | an append under way has its frame in `frames` but not yet in `intact` |
| `Mf4Finalized` | `FinalizedIsComplete` | `Finalizing`: how far `finalize` has come, and that no append follows |
| `Mf4AppendsOnly` | | a write, whole or cut short, is a concatenation at the end |
| `Mf4ReadsStay` | `ReadsStay` | the walk of a longer file comes by where that of the file ended, with what that one had (`Extends`): see below; `LengthInv`: finalize's length is how much data there is |
| `Mf4Recovers` | `Recoverable` | `Found`, see below |
| `InfluxTypes` | types | part of `InfluxInv`, see below; a batch is never empty, so `wait` ends only with an empty queue |
| `InfluxConserved` | `Conserved` | `InfluxInv`: every step pours one box into another, gives the boxes other places, or puts the next message into one |
| `InfluxInOrder` | `BatchesInOrder` | `InfluxInv`: the boxes that wait ascend (`Ordered`), the channel holds the messages that follow (`Channel`) |
| `InfluxDrains` | `WaitDrains` | `Closing`: a worker is done only after the queue was closed and empty, and a closed queue gets no more |
| `OutputTypes` | types | part of `OutputInv`, see below |
| `OutputsReadBack` | `FileReadsBack` | `OutputInv`: the file is cut at `Before(s)`, and what is written is the head of the buffer |

### The invariant of `ObdDevice`

None of the three properties of the conversation is inductive: after a time-out the answer that was
given up is still under way, `connect` of the next session takes it for the answer to its first
command, and from then on every answer it reads is the one to the command before. `DeviceInv`
says why this never gets past `connect`:

- `CountInv`: the answers under way (commands on the line, the one the adapter works on, prompts not
  read yet) are at most one more than the time-outs so far, and one for the command that waits. With
  fewer time-outs than settings the answer of ATZ is then among those `connect` reads.
- `SessionInv`: at each step of a session either nothing is amiss - the command and its answer are
  all there is under way (`Aligned`, `Quiet`), and everything up to here has been accepted for its own
  answer (`Established`) - or an answer that is no OK is among the ones `connect` has still to read
  (`Stray(Left)`). Each answer read takes one from `Left`; a stray answer that is read fails its
  command, unless it is that of a reset, which accepts any. Past `connect` nothing is left, so the
  first case holds.
- `OkInv`, `QueueInv`: an OK is followed by its prompt; a carriage return is only on the line after a
  stop, and at most one monitor command is.
- `PlanInv`, `KindInv`: where in its session the host is; no adapter gets commands of the other kind.
- `LeavingInv`, `OutcomeInv`: after a monitor that may not have been drained an OK can only come from
  the STPPMC, since what else is under way (the monitor command, the carriage return) has none.

`MaxTimeouts` below the number of settings is the one assumption on the world; section 3 says why.
TLC checked `DeviceInv` on the instance of `obd_prompt` before it was proved.

### The invariant of `SignalDispatch`

`ForwardsWhatItDecodes` speaks of the moments between two messages. `DecodeInv` carries it through a
message: what is left (the rest of the expansion and of the decoded signals) and what was forwarded is
of the messages taken so far, and each of their signals that the filter allows is left or forwarded
(`NothingLost`); what is left is of the current message, its parts ascend, and the signals of one
expansion differ in their PID (`LeftSorted`); the log is sorted and all of it comes before all that is
left (`LogSorted`). What `Receive` decodes is the message that follows the last one only because the
channel holds what was sent and not yet taken (`QueueFollows`). That a listing expands to distinct PIDs
and to no further listing are lemmas about `Expanded` (`ExpandedAre`, `ExpandedApart`).

The refinement sees of an output's channel and handler the signals of one dispatcher, `Of`. It is
defined by counting places and not by a fold, so that `OfAdded`, what one more signal does to it, can
be proved. TLC checked `DecodeInv` and `MapInv`, on the instance of `signals` and on smaller ones with
two messages, before they were proved.

### The invariant of `App`

`ListenersAreServed` speaks of the time when traffic starts, and is about what main did before, in
phases and in any order of outputs. `WiringInv` says of every moment which registrations and which
goroutines there are, as a function of the options, of the interfaces main has made a dispatcher for
and of the outputs it has added (`Wiring`), and what main has behind it in each phase (`Progress`).

### The reader of `Mf4Writer`

What the reader finds is a recursive function of the file, and the file is only known to grow. The
lemmas about it are inductions over the number of turns, each over the set of the numbers its fact
holds of (`SetInduction`, from the well-foundedness of the natural numbers): every turn goes on by at
least a cell, so a walk has ended after as many turns as there are cells (`WalkSound`, `WalkedEnds`);
what a later turn has extends what an earlier one had (`WalkKeeps`); and a walk of a longer file goes the
same way up to where the file ended, or has ended and found all of that (`LongerWalk`). `ReadStays` follows
for any two files of which one begins with the other, whatever the cells, and with `Mf4AppendsOnly` the
action property.

`Recoverable` does not survive a step by itself: that the entries are right says nothing of the place
where the next frame's will be sought. `Found` names that place, a cursor the reader comes by. `Behind`
it are the intact frames. `Ahead` of it, while no write has failed, is what was written of the frame under
way, cell by cell (`Cell`, `Holds`), and the offset the writer puts in a record is that of the cursor.
`FullEntry` says that a whole frame there moves the cursor behind it, with one entry more, the
payload found under its offset, and `CutEntry` that a part of one gives an entry without data or none. After the
first failed write only `Behind` is kept, which is why the frames written later are not promised.
That holds of any data: a frame's bytes may look like records.

### The invariant of `InfluxBatch`

`Conserved` counts the places a message is in. `Held` says it without counting (`OneHome`): what the
boxes hold was taken and passed, every such message is in a box, and two places that hold the same
message are one place. Three lemmas carry that over whatever a step does to the boxes: `Poured` (a
box is appended to another and left empty: a batch to a worker, a chunk to the database, a block
among the dropped), renaming (the queue moves up by one: the batch that was second is then first),
and putting in (`Take`). A step is then only shown to do one of these. `Ordered` is `BatchesInOrder`
without the channel; that the messages of the channel follow is `Channel`.

### The invariant of `OutputHandlers`

`Of(s)` cuts the file where sessions begin, by counting the pieces of earlier sessions. `Cuts` says that
this number is a place: the pieces before it are exactly those of the earlier sessions. That holds
when a piece is put at the end by the session that runs, and gives the next session its cut at the end
of the file, whatever the last one left half written. `Kept` is what each session was given, with the buffer
while no write has failed; `Memory` says whose pieces the buffer holds, that it is empty when the
handler has flushed or is down, and that it never outgrows its capacity, which is what lets a line
be cut into what still fits and the rest (`Pieces <= Capacity`: a header or a line is at most a buffer).

TLC checked `WiringInv`, `InfluxInv`, `OutputInv`, `LengthInv` and `Found` on the instances of `app_lifecycle`,
`influx_batches`, `outputs` and `mf4_crash` before they were proved.

### What stays with TLC

Every safety invariant of the passing runs is stated by a theorem. Only model-checked: all liveness (under
fairness, out of TLAPS' reach), and with it whatever needs `ENABLED`; the operators of `Dbc`, which `signals` runs with the dispatchers. The theorems about `SignalDispatch`
hold for any parser.

The type invariants of `App`, `InfluxBatch`, `SignalDispatch`, `ObdDevice`, `ConnectionManager`, `Mf4Writer`
and `OutputHandlers` are stated in the modules and not run; theorems cover all of them but that of
`ConnectionManager`.

## 5. Not modelled, and the plan

Left out for good: parsing of options and URIs, log formats and messages, TLS and HTTP clients,
the Bluetooth socket set-up, conversion of a message to a database row or an MQTT payload: data
that no property of the control depends on.

`connection.go:121` of SLCAN: a second Discontinue closes a closed channel and panics; the
application calls it never, so the model's owner discontinues a connection once. The sort of the
signals in `parser/dbc/dbc.go:284` compares by a relation that is no strict weak order: what the Go library
makes of it depends on its algorithm, and is left out of `Dbc`, which takes the signals in order.
The merging of flags, environment and files in `config` is sequential, and done before anything starts.

Next, should the project go on:

1. Pure algorithms, against reference definitions: the remaining message filters, `PadOrTrim`.
