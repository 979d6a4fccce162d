---------------------------- MODULE InfluxBatch ----------------------------
(***************************************************************************)
(* internal/output/influxdb: HandleCanMessageChannel collects messages in  *)
(* messageBlock and hands full or timed-out blocks to a pool of workers    *)
(* through internalChannel; Run starts the workers.  HandleSignalChannel   *)
(* and the signal workers do the same with their own fields (no filter).   *)
(*                                                                         *)
(* Run and the handler are started side by side by AddOutput, and nothing  *)
(* orders Run's wg.Add before the handler's wg.Wait.                       *)
(***************************************************************************)
EXTENDS InfluxBlocks

vars == <<fed, canChannel, inputClosed, stage, messageBlock, internalChannel,
          internalClosed, launched, worker, chunk, cancelled, failedWrites,
          dropped, written, unwritten>>

input   == <<fed, canChannel, inputClosed>>
handler == <<stage, messageBlock>>
pool    == <<launched, worker, chunk>>
result  == <<written, unwritten, failedWrites>>

TypeOK ==
    /\ fed \in 0..MaxFed
    /\ canChannel \in Seq(Msg) /\ Len(canChannel) <= MessageBufferSize
    /\ inputClosed \in BOOLEAN
    /\ stage \in {"select", "flush", "last", "close", "wait", "returned"}
    /\ messageBlock \in Seq(Msg) /\ Len(messageBlock) <= MaxWriteLines
    /\ stage = "select" => Len(messageBlock) < MaxWriteLines
    /\ internalChannel \in Seq(Seq(Msg)) /\ Len(internalChannel) <= MaxConnections
    /\ \A i \in 1..Len(internalChannel) : Len(internalChannel[i]) \in 1..MaxWriteLines
    /\ internalClosed \in BOOLEAN
    /\ launched \in 0..MaxConnections
    /\ worker \in [Worker -> {"absent", "idle", "writing", "done"}]
    /\ \A w \in Worker : worker[w] = "absent" <=> w > launched
    /\ chunk \in [Worker -> Seq(Msg)]
    /\ \A w \in Worker : chunk[w] # << >> <=> worker[w] = "writing"
    /\ cancelled \in BOOLEAN
    /\ failedWrites \in 0..MaxFailedWrites
    /\ dropped \in Seq(Msg) /\ written \in Seq(Msg) /\ unwritten \in Seq(Msg)

-----------------------------------------------------------------------------
Init ==
    /\ fed = 0
    /\ canChannel = << >>
    /\ inputClosed = FALSE
    /\ stage = "select"
    /\ messageBlock = << >>
    /\ internalChannel = << >>
    /\ internalClosed = FALSE
    /\ launched = 0
    /\ worker = [w \in Worker |-> "absent"]
    /\ chunk = [w \in Worker |-> << >>]
    /\ cancelled = FALSE
    /\ failedWrites = 0
    /\ dropped = << >>
    /\ written = << >>
    /\ unwritten = << >>

(* The dispatcher puts the next message into the channel, if there is room. *)
Feed ==
    /\ fed < MaxFed
    /\ ~ inputClosed
    /\ Len(canChannel) < MessageBufferSize
    /\ fed' = fed + 1
    /\ canChannel' = Append(canChannel, fed + 1)
    /\ UNCHANGED <<inputClosed, handler, internalChannel, internalClosed, pool,
                   cancelled, dropped, result>>

(* The owner of canChannel closes it, as the tests do. *)
CloseInput ==
    /\ ~ inputClosed
    /\ inputClosed' = TRUE
    /\ UNCHANGED <<fed, canChannel, handler, internalChannel, internalClosed,
                   pool, cancelled, dropped, result>>

Cancel ==
    /\ ~ cancelled
    /\ cancelled' = TRUE
    /\ UNCHANGED <<input, handler, internalChannel, internalClosed, pool,
                   dropped, result>>

-----------------------------------------------------------------------------
(* The handler's select. *)

Stop ==
    /\ stage = "select"
    /\ cancelled \/ (inputClosed /\ canChannel = << >>)
    /\ stage' = "last"
    /\ UNCHANGED <<input, messageBlock, internalChannel, internalClosed, pool,
                   cancelled, dropped, result>>

Take ==
    /\ stage = "select"
    /\ canChannel # << >>
    /\ canChannel' = Tail(canChannel)
    /\ IF Head(canChannel) \in Filtered
       THEN UNCHANGED handler
       ELSE /\ messageBlock' = Append(messageBlock, Head(canChannel))
            /\ stage' = IF Len(messageBlock') >= MaxWriteLines THEN "flush" ELSE "select"
    /\ UNCHANGED <<fed, inputClosed, internalChannel, internalClosed, pool,
                   cancelled, dropped, result>>

(* Mutant: no ticker. *)
NoTick == FALSE

(* The ticker; flush does nothing to an empty block. *)
Tick ==
    /\ stage = "select"
    /\ messageBlock # << >>
    /\ stage' = "flush"
    /\ UNCHANGED <<input, messageBlock, internalChannel, internalClosed, pool,
                   cancelled, dropped, result>>

AfterFlush == stage' = IF stage = "last" THEN "close" ELSE "select"

(* Mutant: the block is handed over and not replaced by a new one. *)
FlushAndKeep ==
    /\ stage \in {"flush", "last"}
    /\ IF messageBlock # << >> /\ Len(internalChannel) < MaxConnections
       THEN internalChannel' = Append(internalChannel, messageBlock) /\ UNCHANGED dropped
       ELSE dropped' = dropped \o messageBlock /\ UNCHANGED internalChannel
    /\ UNCHANGED messageBlock
    /\ AfterFlush
    /\ UNCHANGED <<input, internalClosed, pool, cancelled, result>>

(* Mutant: the block jumps the queue. *)
FlushInFront ==
    /\ stage \in {"flush", "last"}
    /\ IF messageBlock # << >> /\ Len(internalChannel) < MaxConnections
       THEN internalChannel' = <<messageBlock>> \o internalChannel /\ UNCHANGED dropped
       ELSE dropped' = dropped \o messageBlock /\ UNCHANGED internalChannel
    /\ messageBlock' = << >>
    /\ AfterFlush
    /\ UNCHANGED <<input, internalClosed, pool, cancelled, result>>

(* flush: the block goes to the workers or, when they have no room, is     *)
(* dropped; a new one begins.                                              *)
Flush ==
    /\ stage \in {"flush", "last"}
    /\ IF messageBlock # << >> /\ Len(internalChannel) < MaxConnections
       THEN internalChannel' = Append(internalChannel, messageBlock) /\ UNCHANGED dropped
       ELSE dropped' = dropped \o messageBlock /\ UNCHANGED internalChannel
    /\ messageBlock' = << >>
    /\ AfterFlush
    /\ UNCHANGED <<input, internalClosed, pool, cancelled, result>>

(* Mutant: the workers' channel is left open. *)
CloseNothing ==
    /\ stage = "close"
    /\ stage' = "wait"
    /\ UNCHANGED <<input, messageBlock, internalChannel, internalClosed, pool, cancelled,
                   dropped, result>>

Close ==
    /\ stage = "close"
    /\ internalClosed' = TRUE
    /\ stage' = "wait"
    /\ UNCHANGED <<input, messageBlock, internalChannel, pool, cancelled,
                   dropped, result>>

(* wg counts the workers that were launched and have not ended. *)
Running(w) == worker[w] \in {"idle", "writing"}

Wait ==
    /\ stage = "wait"
    /\ \A w \in Worker : ~ Running(w)
    /\ stage' = "returned"
    /\ UNCHANGED <<input, messageBlock, internalChannel, internalClosed, pool,
                   cancelled, dropped, result>>

-----------------------------------------------------------------------------
(* Run launches a worker after the other. *)
Launch ==
    /\ launched < MaxConnections
    /\ launched' = launched + 1
    /\ worker' = [worker EXCEPT ![launched + 1] = "idle"]
    /\ UNCHANGED <<input, handler, internalChannel, internalClosed, chunk,
                   cancelled, dropped, result>>

(* A worker ranges over internalChannel ... *)
TakeChunk(w) ==
    /\ worker[w] = "idle"
    /\ internalChannel # << >>
    /\ internalChannel' = Tail(internalChannel)
    /\ chunk' = [chunk EXCEPT ![w] = Head(internalChannel)]
    /\ worker' = [worker EXCEPT ![w] = "writing"]
    /\ UNCHANGED <<input, handler, internalClosed, launched, cancelled, dropped, result>>

(* ... writes each chunk; under a cancelled context every write fails. *)
Write(w) ==
    /\ worker[w] = "writing"
    /\ \/ /\ ~ cancelled
          /\ written' = written \o chunk[w]
          /\ UNCHANGED <<unwritten, failedWrites>>
       \/ /\ cancelled /\ UNCHANGED failedWrites
          /\ unwritten' = unwritten \o chunk[w]
          /\ UNCHANGED written
       \/ /\ ~ cancelled /\ failedWrites < MaxFailedWrites /\ failedWrites' = failedWrites + 1
          /\ unwritten' = unwritten \o chunk[w]
          /\ UNCHANGED written
    /\ chunk' = [chunk EXCEPT ![w] = << >>]
    /\ worker' = [worker EXCEPT ![w] = "idle"]
    /\ UNCHANGED <<input, handler, internalChannel, internalClosed, launched,
                   cancelled, dropped>>

(* Mutant: a worker ends as soon as the channel is closed. *)
EndWorkerAtOnce(w) ==
    /\ worker[w] = "idle"
    /\ internalClosed
    /\ worker' = [worker EXCEPT ![w] = "done"]
    /\ UNCHANGED <<input, handler, internalChannel, internalClosed, launched,
                   chunk, cancelled, dropped, result>>

(* ... and ends when it is closed and empty. *)
EndWorker(w) ==
    /\ worker[w] = "idle"
    /\ internalClosed
    /\ internalChannel = << >>
    /\ worker' = [worker EXCEPT ![w] = "done"]
    /\ UNCHANGED <<input, handler, internalChannel, internalClosed, launched,
                   chunk, cancelled, dropped, result>>

Handler == Stop \/ Take \/ Tick \/ Flush \/ Close \/ Wait

Work(w) == TakeChunk(w) \/ Write(w) \/ EndWorker(w)

Next ==
    \/ Feed \/ CloseInput \/ Cancel
    \/ Handler
    \/ Launch
    \/ \E w \in Worker : Work(w)

Spec == Init /\ [][Next]_vars

(***************************************************************************)
(* The handler, Run and the workers run, and a write returns.  The select  *)
(* takes each case that is ready time and again: strong fairness for Stop  *)
(* and Tick.                                                               *)
(***************************************************************************)
Fairness ==
    /\ WF_vars(Handler)
    /\ SF_vars(Stop)
    /\ SF_vars(Tick)
    /\ WF_vars(Launch)
    /\ \A w \in Worker : WF_vars(Work(w))

FairSpec == Spec /\ Fairness

-----------------------------------------------------------------------------
(***************************************************************************)
(* "HandleCanMessageChannel should return only after all workers have      *)
(* finished processing" (client_test.go): no batch is queued or being      *)
(* written when it has returned.                                           *)
(***************************************************************************)
ReturnsAfterWorkers ==
    stage = "returned" => internalChannel = << >> /\ \A w \in Worker : worker[w] # "writing"

(* A message whose fate is known. *)
Settled(m) ==
    LET settled == written \o unwritten \o dropped
    IN  m \in Filtered \/ \E i \in 1..Len(settled) : settled[i] = m

(***************************************************************************)
(* Unless the context is cancelled, no message stays in a block that never *)
(* fills up, or behind a closed input channel.                             *)
(***************************************************************************)
EveryMessageSettles ==
    \A m \in Msg : fed >= m ~> cancelled \/ Settled(m)

(***************************************************************************)
(* After a cancel the handler returns, full channels and running writes or *)
(* not, and every worker ends.                                             *)
(***************************************************************************)
ShutdownCompletes ==
    cancelled ~> stage = "returned" /\ \A w \in Worker : worker[w] = "done"
=============================================================================
