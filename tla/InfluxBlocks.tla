---------------------------- MODULE InfluxBlocks ----------------------------
(***************************************************************************)
(* What internal/output/influxdb keeps of the messages it takes: a block   *)
(* that fills, batches that wait for a worker, what the workers have in    *)
(* hand, and what became of the rest; and what must hold of that.          *)
(* InfluxBatch has the steps.                                              *)
(***************************************************************************)
EXTENDS Naturals, Sequences, FiniteSets

CONSTANTS MaxConnections,    (* workers, and capacity of internalChannel     *)
          MaxWriteLines,     (* length of a block                            *)
          MessageBufferSize, (* capacity of canChannel                       *)
          Filtered,          (* messages ShouldFilter answers true for       *)
          MaxFed,            (* bound: messages fed                          *)
          MaxFailedWrites    (* bound: writes that fail before a cancel      *)

ASSUME InfluxAssumption ==
    /\ MaxConnections \in Nat
    /\ MaxWriteLines \in Nat \ {0}
    /\ MessageBufferSize \in Nat
    /\ MaxFed \in Nat
    /\ MaxFailedWrites \in Nat
    /\ Filtered \subseteq 1..MaxFed

Worker == 1..MaxConnections

Msg == 1..MaxFed

VARIABLES
    fed,              \* messages the dispatcher has put into canChannel
    canChannel,
    inputClosed,      \* canChannel is closed
    stage,            \* the handler: select, flush, last, close, wait, returned
    messageBlock,
    internalChannel,
    internalClosed,
    launched,         \* workers Run has started
    worker,           \* absent, idle, writing, done
    chunk,            \* what each worker writes
    cancelled,
    failedWrites,     \* how many
    dropped,          \* history: the messages of blocks no worker had room for
    written,          \* history: the messages in the database
    unwritten         \* history: the messages of writes that failed

-----------------------------------------------------------------------------
Taken == fed - Len(canChannel)

(* Where a message can be. *)
Boxes ==
    ({"block", "written", "unwritten", "dropped"} \X {0}) \cup ({"queue", "worker"} \X Worker)

In(box) ==
    CASE box[1] = "block"     -> messageBlock
      [] box[1] = "queue"     -> IF box[2] <= Len(internalChannel)
                                 THEN internalChannel[box[2]] ELSE << >>
      [] box[1] = "worker"    -> chunk[box[2]]
      [] box[1] = "written"   -> written
      [] box[1] = "unwritten" -> unwritten
      [] box[1] = "dropped"   -> dropped

Contents == [box \in Boxes |-> In(box)]

Places(m) ==
    UNION {{box} \X {i \in 1..Len(Contents[box]) : Contents[box][i] = m} : box \in Boxes}

(***************************************************************************)
(* A message taken from canChannel that no filter rejects is in one place  *)
(* only: the block, a queued batch, a worker's hands, the database, or     *)
(* among the messages that were dropped or whose write failed.  None       *)
(* vanishes, and none is written twice.                                    *)
(***************************************************************************)
Conserved ==
    \A m \in Msg :
        Cardinality(Places(m)) = IF m <= Taken /\ m \notin Filtered THEN 1 ELSE 0

(***************************************************************************)
(* The batches wait for the workers in the order their messages came, and  *)
(* no batch overtakes an earlier one on its way to a worker.               *)
(***************************************************************************)
BatchesInOrder ==
    LET waiting == internalChannel \o <<messageBlock, canChannel>>
    IN  \A a, b \in 1..Len(waiting) :
            \A i \in 1..Len(waiting[a]), j \in 1..Len(waiting[b]) :
                a < b \/ (a = b /\ i < j) => waiting[a][i] < waiting[b][j]

(***************************************************************************)
(* When the handler returns, the workers launched by then have ended, and  *)
(* they have left no batch behind.                                         *)
(***************************************************************************)
WaitDrains ==
    [][stage # "returned" /\ stage' = "returned" /\ launched > 0 =>
           /\ internalChannel = << >>
           /\ \A w \in 1..launched : worker[w] = "done"]_stage
=============================================================================
