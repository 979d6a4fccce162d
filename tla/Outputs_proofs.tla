--------------------------- MODULE Outputs_proofs ---------------------------
(***************************************************************************)
(* Theorems about the outputs.  Of Mf4Writer: its types, that the data of  *)
(* the file is only ever appended to, the order of finalize's writes, and  *)
(* what the reader makes of the file: it keeps what it once read of it,    *)
(* and it recovers the frames appended, wherever the process is killed.    *)
(* Of InfluxBatch: that no message is lost or sent twice, that the batches *)
(* are in order, and that shutdown waits for the queues to drain.  Of      *)
(* OutputHandlers: that the file reads back what was accepted.             *)
(***************************************************************************)
EXTENDS Mf4Writer, InfluxBlocks, OutputFile, SequenceTheorems, FiniteSetTheorems,
        WellFoundedInduction, TLAPS

(* What a sequence holds after a concatenation. *)
LEMMA Concatenation ==
    ASSUME NEW S, NEW a \in Seq(S), NEW b \in Seq(S)
    PROVE  /\ a \o b \in Seq(S)
           /\ Len(a \o b) = Len(a) + Len(b)
           /\ \A i \in 1..Len(a) : (a \o b)[i] = a[i]
           /\ \A i \in 1..Len(b) : (a \o b)[Len(a) + i] = b[i]
           /\ \A i \in (Len(a) + 1)..(Len(a) + Len(b)) : (a \o b)[i] = b[i - Len(a)]
OBVIOUS

(* And a part of one. *)
LEMMA Slice ==
    ASSUME NEW S, NEW a \in Seq(S), NEW m \in 1..(Len(a) + 1), NEW n \in (m - 1)..Len(a)
    PROVE  /\ SubSeq(a, m, n) \in Seq(S)
           /\ Len(SubSeq(a, m, n)) = n - m + 1
           /\ \A i \in 1..(n - m + 1) : SubSeq(a, m, n)[i] = a[m + i - 1]
OBVIOUS

-----------------------------------------------------------------------------
(* Mf4Writer. *)

(* The part of the assumption that is about numbers. *)
LEMMA Bounds == MaxCANDataLen \in Nat /\ MaxFrames \in Nat /\ MaxFaults \in Nat
BY Mf4Assumption DEF Mf4Assumption, Base

(* A frame is no null value. *)
LEMMA FrameIsNotNil == \A f \in Frame : f # << >>
<1>1. ASSUME NEW f \in Frame, f = << >> PROVE FALSE
  <2>1. DOMAIN f = {"ID", "Data"}
    BY DEF Frame
  <2>2. DOMAIN << >> = {}
    OBVIOUS
  <2>3. QED  BY <1>1, <2>1, <2>2
<1>2. QED  BY <1>1

(* Bytes are cells, and so are the data of a frame. *)
LEMMA BytesAreCells == \A s \in Seq(0..(Base - 1)) : s \in Seq(Nat)
<1>1. 0..(Base - 1) \subseteq Nat
  BY DEF Base
<1>2. QED  BY <1>1, SeqMonotonic

LEMMA DataAreCells == \A f \in Frame : f.Data \in Seq(Nat) /\ f.ID \in Nat
<1>1. \A f \in Frame : f.Data \in Data /\ f.ID \in Nat
  BY Bounds DEF Frame
<1>2. \A d \in Data : d \in Seq(Nat)
  BY Mf4Assumption, BytesAreCells DEF Mf4Assumption
<1>3. QED  BY <1>1, <1>2

-----------------------------------------------------------------------------
(* The inductive invariant, in parts: the file, the handler, and finalize.  *)
FileTypes ==
    /\ blocks \in 0..Blocks
    /\ magic \in {"UnFinMF", "MDF"}
    /\ unfinalized \in BOOLEAN /\ finalize \in BOOLEAN
    /\ length \in Nat /\ dt \in Seq(Nat) /\ vlsdOffset \in Nat

Appending == pc \in {"record", "payload"}

HandlerTypes ==
    /\ canMsgCount \in 0..MaxFrames
    /\ frames \in Seq(Frame)
    /\ frame \in Frame \cup {<< >>}
    /\ frame = << >> <=> ~ Appending
    /\ pc \in {"metadata", "idle", "record", "payload", "length", "magic",
               "flag", "closed", "crashed"}
    /\ pc = "metadata" => blocks < Blocks
    /\ faults \in 0..MaxFaults
    /\ intact \in Nat
    /\ intact + (IF Appending THEN 1 ELSE 0) <= Len(frames)

(* How far finalize has come, and that it stays there. *)
Finalizing ==
    /\ pc = "flag" => magic = "MDF"
    /\ magic = "MDF" => pc \in {"flag", "closed", "crashed"}
    /\ pc = "magic" \/ magic = "MDF" => length = HeaderSize + Len(dt)
    /\ ~ unfinalized => magic = "MDF"

IInv == FileTypes /\ HandlerTypes /\ Finalizing

LEMMA InitIInv == Init => IInv
BY Bounds DEF Init, IInv, FileTypes, HandlerTypes, Appending, Finalizing, Blocks,
              HeaderSize

LEMMA IInvImplies == IInv => TypeOK /\ FinalizedIsComplete
<1>1. IInv => TypeOK
  BY DEF IInv, FileTypes, HandlerTypes, Appending, TypeOK
<1>2. QED  BY <1>1 DEF IInv, Finalizing, FinalizedIsComplete

(* What the next write puts down is cells. *)
LEMMA PendingAreCells ==
    ASSUME IInv PROVE Pending \in Seq(Nat) /\ (~ Appending => Pending = << >>)
<1>1. ASSUME Appending PROVE Record \in Seq(Nat) /\ Payload \in Seq(Nat)
  <2>1. frame \in Frame
    BY <1>1 DEF IInv, HandlerTypes
  <2>2. frame.Data \in Seq(Nat) /\ frame.ID \in Nat /\ Len(frame.Data) \in Nat
    BY <2>1, DataAreCells
  <2>3. Len(frame.Data) % Base \in Nat /\ Len(frame.Data) \div Base \in Nat
    <3>1. \A n \in Nat : n % Base \in Nat /\ n \div Base \in Nat
      BY DEF Base
    <3>2. QED  BY <3>1, <2>2
  <2>4. Record \in Seq(Nat)
    BY <2>2 DEF Record, RecordIDPrimary, IInv, FileTypes
  <2>5. Payload \in Seq(Nat)
    BY <2>2, <2>3 DEF Payload, RecordIDVLSD
  <2>6. QED  BY <2>4, <2>5
<1>2. CASE pc = "record"
  BY <1>1, <1>2 DEF Pending, Appending
<1>3. CASE pc = "payload"
  BY <1>1, <1>3 DEF Pending, Appending
<1>4. CASE ~ Appending
  BY <1>4 DEF Pending, Appending
<1>5. QED  BY <1>2, <1>3, <1>4 DEF Appending

(* A write that is cut short appends, and outside an append nothing. *)
LEMMA CutShortAppends ==
    ASSUME IInv, CutShort
    PROVE  /\ dt' \in Seq(Nat)
           /\ Len(dt) <= Len(dt') /\ \A p \in 1..Len(dt) : dt'[p] = dt[p]
           /\ ~ Appending => dt' = dt
<1>1. PICK n \in 0..Len(Pending) : dt' = dt \o SubSeq(Pending, 1, n)
  BY DEF CutShort
<1>2. Pending \in Seq(Nat) /\ (~ Appending => Pending = << >>)
  BY PendingAreCells
<1>3. SubSeq(Pending, 1, n) \in Seq(Nat)
  BY <1>2
<1>4. dt \in Seq(Nat)
  BY DEF IInv, FileTypes
<1>5. dt' \in Seq(Nat) /\ Len(dt) <= Len(dt') /\ \A p \in 1..Len(dt) : dt'[p] = dt[p]
  BY <1>1, <1>3, <1>4
<1>6. ASSUME ~ Appending PROVE dt' = dt
  <2>1. SubSeq(Pending, 1, n) = << >>
    BY <1>2, <1>6
  <2>2. dt \o << >> = dt
    BY <1>4
  <2>3. QED  BY <1>1, <2>1, <2>2
<1>7. QED  BY <1>5, <1>6

(* Every step keeps the invariant and the data that are there. *)
Appends == Len(dt) <= Len(dt') /\ \A p \in 1..Len(dt) : dt'[p] = dt[p]

LEMMA StepIInv == IInv /\ [Next]_vars => IInv' /\ Appends
<1> SUFFICES ASSUME IInv, [Next]_vars PROVE IInv' /\ Appends
  OBVIOUS
<1> USE DEF IInv
<1>0. dt \in Seq(Nat) /\ Len(dt) \in Nat /\ vlsdOffset \in Nat
  BY DEF FileTypes
<1>d. ASSUME UNCHANGED dt PROVE Appends
  BY <1>d, <1>0 DEF Appends
<1>1. CASE WriteMetadata
  <2>1. FileTypes'
    BY <1>1 DEF WriteMetadata, FileTypes, HandlerTypes, Blocks, stream
  <2>2. HandlerTypes'
    BY <1>1 DEF WriteMetadata, FileTypes, HandlerTypes, Appending, Blocks, call
  <2>3. Finalizing' /\ Appends
    BY <1>1, <1>d DEF WriteMetadata, Finalizing, stream, HeaderSize
  <2>4. QED  BY <2>1, <2>2, <2>3
<1>2. CASE Take
  <2>1. PICK d \in Data :
          /\ pc = "idle" /\ canMsgCount < MaxFrames
          /\ canMsgCount' = canMsgCount + 1
          /\ \/ UNCHANGED <<frame, frames, pc>>
             \/ /\ Len(d) <= MaxCANDataLen
                /\ frame' = [ID |-> canMsgCount', Data |-> d]
                /\ frames' = Append(frames, frame')
                /\ pc' = "record"
          /\ UNCHANGED <<head, stream, finalize, faults, intact>>
    <3>1. \A d \in Data : Len(d) \in Nat
      BY Mf4Assumption DEF Mf4Assumption
    <3>2. QED  BY <1>2, <3>1, Bounds DEF Take
  <2>2. FileTypes' /\ Finalizing' /\ Appends
    BY <2>1, <1>d DEF FileTypes, Finalizing, head, stream
  <2>3. CASE UNCHANGED <<frame, frames, pc>>
    <3>1. HandlerTypes'
      BY <2>1, <2>3, Bounds DEF HandlerTypes, Appending, head
    <3>2. QED  BY <2>2, <3>1
  <2>4. CASE /\ Len(d) <= MaxCANDataLen
             /\ frame' = [ID |-> canMsgCount', Data |-> d]
             /\ frames' = Append(frames, frame')
             /\ pc' = "record"
    <3>1. canMsgCount' \in 0..MaxFrames /\ canMsgCount' \in 1..MaxFrames
      BY <2>1, Bounds DEF HandlerTypes
    <3>2. frame' \in Frame
      BY <2>4, <3>1 DEF Frame
    <3>3. frame' # << >>
      BY <3>2, FrameIsNotNil
    <3>4. frames' \in Seq(Frame) /\ Len(frames') = Len(frames) + 1
      BY <2>4, <3>2 DEF HandlerTypes
    <3>5. intact' \in Nat /\ intact' + 1 <= Len(frames')
      <4>1. Len(frames) \in Nat
        BY DEF HandlerTypes
      <4>2. QED  BY <2>1, <3>4, <4>1 DEF HandlerTypes, Appending
    <3>6. HandlerTypes'
      BY <2>1, <2>4, <3>1, <3>2, <3>3, <3>4, <3>5 DEF HandlerTypes, Appending
    <3>7. QED  BY <2>2, <3>6
  <2>5. QED  BY <2>1, <2>3, <2>4
<1>3. CASE WriteRecord
  <2>1. pc = "record" /\ Record \in Seq(Nat) /\ dt' = dt \o Record
    BY <1>3, PendingAreCells DEF WriteRecord, Pending
  <2>2. dt' \in Seq(Nat) /\ Appends
    BY <2>1, <1>0 DEF Appends
  <2>3. FileTypes'
    BY <1>3, <2>2 DEF WriteRecord, FileTypes, head
  <2>4. HandlerTypes'
    BY <1>3 DEF WriteRecord, HandlerTypes, Appending, call, head
  <2>5. Finalizing'
    BY <1>3 DEF WriteRecord, Finalizing, head
  <2>6. QED  BY <2>2, <2>3, <2>4, <2>5
<1>4. CASE WritePayload
  <2>1. pc = "payload" /\ Payload \in Seq(Nat) /\ dt' = dt \o Payload
    BY <1>4, PendingAreCells DEF WritePayload, Pending
  <2>2. dt' \in Seq(Nat) /\ Appends
    BY <2>1, <1>0 DEF Appends
  <2>3. vlsdOffset' \in Nat
    <3>1. frame \in Frame
      BY <2>1 DEF HandlerTypes, Appending
    <3>2. Len(frame.Data) \in Nat
      BY <3>1, DataAreCells
    <3>3. vlsdOffset' = vlsdOffset + 2 + Len(frame.Data)
      BY <1>4 DEF WritePayload, PrefixSize
    <3>4. \A x, y \in Nat : x + 2 + y \in Nat
      OBVIOUS
    <3>5. QED  BY <1>0, <3>2, <3>3, <3>4
  <2>4. FileTypes'
    BY <1>4, <2>2, <2>3 DEF WritePayload, FileTypes, head
  <2>5. intact' \in Nat /\ intact' <= Len(frames)
    <3>1. Len(frames) \in Nat
      BY DEF HandlerTypes
    <3>2. QED  BY <1>4, <2>1, <3>1 DEF WritePayload, HandlerTypes, Appending
  <2>6. HandlerTypes'
    BY <1>4, <2>5 DEF WritePayload, HandlerTypes, Appending, head
  <2>7. Finalizing'
    BY <1>4, <2>1 DEF WritePayload, Finalizing, head
  <2>8. QED  BY <2>2, <2>4, <2>6, <2>7
<1>5. CASE Close \/ WriteLength \/ WriteMagic \/ ClearFlag
  <2>1. UNCHANGED <<dt, vlsdOffset, blocks, finalize, canMsgCount, frame, frames,
                    faults, intact>>
    BY <1>5 DEF Close, WriteLength, WriteMagic, ClearFlag, stream, head, call
  <2>2. FileTypes'
    <3>1. magic' \in {"UnFinMF", "MDF"}
      BY <1>5 DEF Close, WriteLength, WriteMagic, ClearFlag, FileTypes, head
    <3>2. unfinalized' \in BOOLEAN
      BY <1>5 DEF Close, WriteLength, WriteMagic, ClearFlag, FileTypes, head
    <3>3. length' = length \/ length' = 24 + Len(dt)
      BY <1>5 DEF Close, WriteLength, WriteMagic, ClearFlag, head, HeaderSize
    <3>4. length' \in Nat
      BY <1>0, <3>3 DEF FileTypes
    <3>5. QED  BY <2>1, <3>1, <3>2, <3>4 DEF FileTypes
  <2>3. HandlerTypes'
    <3>1. /\ pc' \in {"length", "magic", "flag", "closed"}
          /\ ~ Appending
          /\ ~ Appending'
      BY <1>5 DEF Close, WriteLength, WriteMagic, ClearFlag, Appending
    <3>2. intact' \in Nat /\ intact' <= Len(frames')
      BY <2>1, <3>1 DEF HandlerTypes
    <3>3. QED  BY <2>1, <3>1, <3>2 DEF HandlerTypes
  <2>4. Finalizing'
    <3>1. CASE Close
      BY <3>1, <2>1 DEF Close, Finalizing, head
    <3>2. CASE WriteLength
      BY <3>2, <2>1 DEF WriteLength, Finalizing
    <3>3. CASE WriteMagic
      <4>1. pc = "magic" /\ pc' = "flag" /\ magic' = "MDF" /\ length' = length
        BY <3>3 DEF WriteMagic
      <4>2. length' = HeaderSize + Len(dt')
        BY <2>1, <4>1 DEF Finalizing
      <4>3. QED  BY <4>1, <4>2 DEF Finalizing
    <3>4. CASE ClearFlag
      <4>1. pc = "flag" /\ pc' = "closed" /\ magic' = magic /\ length' = length
        BY <3>4 DEF ClearFlag
      <4>2. magic = "MDF" /\ length' = HeaderSize + Len(dt')
        BY <2>1, <4>1 DEF Finalizing
      <4>3. QED  BY <4>1, <4>2 DEF Finalizing
    <3>5. QED  BY <1>5, <3>1, <3>2, <3>3, <3>4
  <2>5. QED  BY <1>d, <2>1, <2>2, <2>3, <2>4
<1>6. CASE Fail \/ Crash
  <2>1. CutShort
    BY <1>6 DEF Fail, Crash
  <2>2. dt' \in Seq(Nat) /\ Appends /\ (~ Appending => dt' = dt)
    BY <2>1, CutShortAppends DEF Appends
  <2>3. frame' = << >> /\ UNCHANGED <<head, vlsdOffset, finalize, canMsgCount,
                                      frames, intact>>
    BY <2>1 DEF CutShort
  <2>4. FileTypes'
    BY <2>2, <2>3 DEF FileTypes, head
  <2>5. faults' \in 0..MaxFaults /\ pc' \in {"idle", "closed", "crashed"}
    BY <1>6, Bounds DEF Fail, Crash, HandlerTypes
  <2>6. intact' \in Nat /\ intact' <= Len(frames')
    <3>1. Len(frames) \in Nat
      BY DEF HandlerTypes
    <3>2. QED  BY <2>3, <3>1 DEF HandlerTypes
  <2>7. HandlerTypes'
    BY <2>3, <2>5, <2>6 DEF HandlerTypes, Appending, head
  <2>8. Finalizing'
    BY <1>6, <2>2, <2>3 DEF Fail, Crash, Finalizing, Appending, head
  <2>9. QED  BY <2>2, <2>4, <2>7, <2>8
<1>7. CASE UNCHANGED vars
  BY <1>7, <1>d
  DEF vars, FileTypes, HandlerTypes, Appending, Finalizing, stream, head, call
<1>8. QED
  BY <1>1, <1>2, <1>3, <1>4, <1>5, <1>6, <1>7 DEF Next

-----------------------------------------------------------------------------
LEMMA SpecIInv == Spec => []IInv
<1>1. IInv /\ [Next]_vars => IInv'
  BY StepIInv
<1>2. QED  BY InitIInv, <1>1, PTL DEF Spec

(***************************************************************************)
(* The types, for any data, number of frames and of failed writes.         *)
(***************************************************************************)
THEOREM Mf4Types == Spec => []TypeOK
BY SpecIInv, IInvImplies, PTL

(***************************************************************************)
(* finalize turns the magic only after the length is right, and clears the *)
(* flag after that, wherever it stops.                                     *)
(***************************************************************************)
THEOREM Mf4Finalized == Spec => []FinalizedIsComplete
BY SpecIInv, IInvImplies, PTL

(***************************************************************************)
(* No step, a write cut short included, touches a cell that is already in  *)
(* the file: AppendCAN and appendVLSD only write at its end, and finalize  *)
(* only in its head.                                                       *)
(***************************************************************************)
THEOREM Mf4AppendsOnly == Spec => [][Appends]_vars
<1>1. IInv /\ [Next]_vars => [Appends]_vars
  BY StepIInv
<1>2. QED  BY SpecIInv, <1>1, PTL DEF Spec

-----------------------------------------------------------------------------
(* The reader.  An induction is over the set of the numbers it holds of.     *)
LEMMA LeastExists ==
    ASSUME NEW S \in SUBSET Nat, S # {}
    PROVE  \E n \in S : \A m \in S : n <= m
<1>1. IsWellFoundedOn(OpToRel(<, Nat), Nat)
  BY NatLessThanWellFounded
<1>2. PICK x \in S : \A y \in S : <<y, x>> \notin OpToRel(<, Nat)
  BY <1>1, WFMin
<1>3. \A y \in S : y \in Nat /\ x \in Nat /\ ~ (y < x)
  BY <1>2 DEF OpToRel
<1>4. \A y \in S : x <= y
  BY <1>3, SMT
<1>5. QED  BY <1>4

LEMMA SetInduction ==
    ASSUME NEW S, 0 \in S, \A n \in Nat : n \in S => n + 1 \in S
    PROVE  Nat \subseteq S
<1> SUFFICES ASSUME Nat \ S # {} PROVE FALSE
  OBVIOUS
<1>1. PICK n \in Nat \ S : \A m \in Nat \ S : n <= m
  BY LeastExists
<1>2. n - 1 \in Nat /\ n - 1 \notin Nat \ S
  BY <1>1
<1>3. QED  BY <1>1, <1>2

-----------------------------------------------------------------------------
(* The walk is what its definition says.  Its first n steps ...             *)
Step(d, c) == IF Ends(d, c.at) THEN c ELSE Pass(d, c)

FirstSteps(d, n, h) ==
    h = [k \in 0..n |-> IF k = 0 THEN Outset ELSE Step(d, h[k - 1])]

LEMMA FirstStepsAt ==
    ASSUME NEW d, NEW n \in Nat, NEW h, FirstSteps(d, n, h)
    PROVE  h[0] = Outset /\ \A k \in 1..n : h[k] = Step(d, h[k - 1])
<1> DEFINE R(k) == IF k = 0 THEN Outset ELSE Step(d, h[k - 1])
<1>1. h = [k \in 0..n |-> R(k)]
  BY DEF FirstSteps
<1> HIDE DEF R
<1>2. \A k \in 0..n : h[k] = R(k)
  BY <1>1
<1>3. h[0] = R(0) /\ \A k \in 1..n : h[k] = R(k)
  BY <1>2
<1>4. R(0) = Outset /\ \A k \in 1..n : R(k) = Step(d, h[k - 1])
  BY DEF R
<1>5. QED  BY <1>3, <1>4

(* ... are there ... *)
LEMMA FirstStepsExist ==
    ASSUME NEW d
    PROVE  \A n \in Nat : \E h : FirstSteps(d, n, h)
<1> DEFINE S == {n \in Nat : \E h : FirstSteps(d, n, h)}
<1>1. 0 \in S
  <2> DEFINE h == [k \in 0..0 |-> Outset]
  <2>1. \A k \in 0..0 : k = 0
    OBVIOUS
  <2>2. FirstSteps(d, 0, h)
    BY <2>1 DEF FirstSteps
  <2>3. QED  BY <2>2
<1>2. ASSUME NEW n \in Nat, n \in S PROVE n + 1 \in S
  <2>1. PICK h : FirstSteps(d, n, h)
    BY <1>2
  <2>2. h[0] = Outset /\ \A k \in 1..n : h[k] = Step(d, h[k - 1])
    BY <2>1, FirstStepsAt
  <2> DEFINE g == [k \in 0..(n + 1) |-> IF k = n + 1 THEN Step(d, h[n]) ELSE h[k]]
  <2>3. \A k \in 0..n : g[k] = h[k]
    OBVIOUS
  <2>4. \A k \in 0..(n + 1) : g[k] = IF k = 0 THEN Outset ELSE Step(d, g[k - 1])
    <3>1. ASSUME NEW k \in 0..(n + 1) PROVE g[k] = IF k = 0 THEN Outset ELSE Step(d, g[k - 1])
      <4>1. CASE k = 0
        BY <4>1, <2>2
      <4>2. CASE k \in 1..n
        <5>1. g[k] = h[k] /\ g[k - 1] = h[k - 1]
          BY <4>2, <2>3
        <5>2. QED  BY <5>1, <4>2, <2>2
      <4>3. CASE k = n + 1
        <5>1. g[k - 1] = h[n] /\ g[k] = Step(d, h[n])
          BY <4>3, <2>3
        <5>2. QED  BY <5>1, <4>3
      <4>4. QED  BY <4>1, <4>2, <4>3
    <3>2. QED  BY <3>1
  <2>5. g = [k \in 0..(n + 1) |-> g[k]]
    OBVIOUS
  <2> HIDE DEF g
  <2>6. g = [k \in 0..(n + 1) |-> IF k = 0 THEN Outset ELSE Step(d, g[k - 1])]
    BY <2>4, <2>5, Zenon
  <2>7. QED  BY <2>6 DEF FirstSteps
<1>3. Nat \subseteq S
  <2> HIDE DEF S
  <2>1. QED  BY <1>1, <1>2, SetInduction
<1>4. QED  BY <1>3

(* ... and as many as one likes go the same way. *)
LEMMA FirstStepsAgree ==
    ASSUME NEW d
    PROVE  \A k \in Nat : \A n, m \in Nat : \A h, g :
              k <= n /\ k <= m /\ FirstSteps(d, n, h) /\ FirstSteps(d, m, g) => h[k] = g[k]
<1> DEFINE S == {k \in Nat : \A n, m \in Nat : \A h, g :
              k <= n /\ k <= m /\ FirstSteps(d, n, h) /\ FirstSteps(d, m, g) => h[k] = g[k]}
<1>1. 0 \in S
  BY FirstStepsAt
<1>2. ASSUME NEW k \in Nat, k \in S PROVE k + 1 \in S
  <2> SUFFICES ASSUME NEW n \in Nat, NEW m \in Nat, NEW h, NEW g,
                      k + 1 <= n, k + 1 <= m, FirstSteps(d, n, h), FirstSteps(d, m, g)
               PROVE  h[k + 1] = g[k + 1]
    OBVIOUS
  <2>1. h[k] = g[k]
    BY <1>2
  <2>2. k + 1 \in 1..n /\ k + 1 \in 1..m /\ (k + 1) - 1 = k
    OBVIOUS
  <2>3. h[k + 1] = Step(d, h[k]) /\ g[k + 1] = Step(d, g[k])
    <3>1. \A j \in 1..n : h[j] = Step(d, h[j - 1])
      BY FirstStepsAt
    <3>2. \A j \in 1..m : g[j] = Step(d, g[j - 1])
      BY FirstStepsAt
    <3>3. h[k + 1] = Step(d, h[(k + 1) - 1]) /\ g[k + 1] = Step(d, g[(k + 1) - 1])
      BY <3>1, <3>2, <2>2
    <3>4. QED  BY <3>3, <2>2
  <2>4. QED  BY <2>1, <2>3
<1>3. Nat \subseteq S
  <2> HIDE DEF S
  <2>1. QED  BY <1>1, <1>2, SetInduction
<1>4. QED  BY <1>3

LEMMA WalkIs ==
    ASSUME NEW d
    PROVE  /\ Walk(d)[0] = Outset
           /\ \A k \in Nat : Walk(d)[k + 1] = Step(d, Walk(d)[k])
<1> DEFINE Full(g) == g = [k \in Nat |-> IF k = 0 THEN Outset
                                         ELSE IF Ends(d, g[k - 1].at) THEN g[k - 1]
                                              ELSE Pass(d, g[k - 1])]
           h(n) == CHOOSE f : FirstSteps(d, n, f)
           w == [k \in Nat |-> h(k)[k]]
<1>1. Walk(d) = CHOOSE g : Full(g)
  BY DEF Walk
<1>2. \A n \in Nat : FirstSteps(d, n, h(n))
  BY FirstStepsExist
<1> HIDE DEF h
<1>3. \A k \in Nat : w[k] = h(k)[k]
  OBVIOUS
<1>4. w[0] = Outset
  BY <1>2, <1>3, FirstStepsAt
<1>5. ASSUME NEW k \in Nat PROVE w[k + 1] = Step(d, w[k])
  <2>1. w[k + 1] = h(k + 1)[k + 1]
    BY <1>3
  <2>2. FirstSteps(d, k + 1, h(k + 1)) /\ FirstSteps(d, k, h(k))
    BY <1>2
  <2>3. k + 1 \in 1..(k + 1) /\ (k + 1) - 1 = k
    OBVIOUS
  <2>4. h(k + 1)[k + 1] = Step(d, h(k + 1)[k])
    <3> DEFINE f == h(k + 1)
    <3>1. FirstSteps(d, k + 1, f) /\ k + 1 \in Nat
      BY <2>2
    <3> HIDE DEF f
    <3>2. \A j \in 1..(k + 1) : f[j] = Step(d, f[j - 1])
      BY <3>1, FirstStepsAt
    <3>3. f[k + 1] = Step(d, f[(k + 1) - 1])
      BY <3>2, <2>3
    <3>4. f[k + 1] = Step(d, f[k])
      BY <3>3, <2>3
    <3>5. QED  BY <3>4 DEF f
  <2>5. h(k + 1)[k] = h(k)[k]
    <3>1. k <= k + 1 /\ k <= k /\ k + 1 \in Nat
      OBVIOUS
    <3>2. QED  BY <2>2, <3>1, FirstStepsAgree
  <2>6. QED  BY <2>1, <2>4, <2>5, <1>3
<1>6. Full(w)
  <2>1. ASSUME NEW k \in Nat
        PROVE  w[k] = IF k = 0 THEN Outset
                      ELSE IF Ends(d, w[k - 1].at) THEN w[k - 1] ELSE Pass(d, w[k - 1])
    <3>1. CASE k = 0
      BY <3>1, <1>4
    <3>2. CASE k # 0
      <4>1. k - 1 \in Nat /\ (k - 1) + 1 = k
        BY <3>2
      <4>2. w[k] = Step(d, w[k - 1])
        BY <4>1, <1>5
      <4>3. QED  BY <4>2, <3>2 DEF Step
    <3>3. QED  BY <3>1, <3>2
  <2>2. w = [k \in Nat |-> w[k]]
    OBVIOUS
  <2> HIDE DEF w
  <2>3. QED  BY <2>1, <2>2, Zenon
<1>7. Full(Walk(d))
  <2> HIDE DEF Full
  <2>1. QED  BY <1>1, <1>6, Zenon
<1>8. \A k \in Nat : Walk(d)[k] = IF k = 0 THEN Outset
                                  ELSE IF Ends(d, Walk(d)[k - 1].at) THEN Walk(d)[k - 1]
                                       ELSE Pass(d, Walk(d)[k - 1])
  BY <1>7
<1>9. Walk(d)[0] = Outset
  BY <1>8
<1>10. ASSUME NEW k \in Nat PROVE Walk(d)[k + 1] = Step(d, Walk(d)[k])
  <2>1. k + 1 \in Nat /\ k + 1 # 0 /\ (k + 1) - 1 = k
    OBVIOUS
  <2>2. QED  BY <2>1, <1>8 DEF Step
<1>11. QED  BY <1>9, <1>10

-----------------------------------------------------------------------------
(* What the reader has.                                                     *)
Index == UNION {[K -> Nat] : K \in SUBSET Nat}

Cursor == [at : Nat, whole : Seq(Nat), raw : Nat, offsets : Index, buf : Seq(Nat)]

LEMMA CursorIs ==
    ASSUME NEW c \in Cursor
    PROVE  /\ c.at \in Nat /\ c.whole \in Seq(Nat) /\ c.raw \in Nat /\ c.buf \in Seq(Nat)
           /\ c.offsets \in Index /\ DOMAIN c.offsets \subseteq Nat
           /\ \A r \in DOMAIN c.offsets : c.offsets[r] \in Nat
<1>1. /\ c.at \in Nat /\ c.whole \in Seq(Nat) /\ c.raw \in Nat /\ c.buf \in Seq(Nat)
      /\ c.offsets \in Index
  BY DEF Cursor
<1>2. PICK K \in SUBSET Nat : c.offsets \in [K -> Nat]
  BY <1>1 DEF Index
<1>3. QED  BY <1>1, <1>2

(* The records it has are in d, and the offsets it knows are behind.        *)
Sound(d, c) ==
    /\ c \in Cursor
    /\ c.at >= 1
    /\ \A r \in DOMAIN c.offsets : r < c.raw /\ c.offsets[r] <= Len(c.buf)
    /\ \A i \in 1..Len(c.whole) : c.whole[i] >= 1 /\ c.whole[i] + CANRecordSize <= Len(d)

(* It has as much and perhaps more.                                         *)
Extends(b, c) ==
    /\ Len(c.whole) <= Len(b.whole)
    /\ \A i \in 1..Len(c.whole) : b.whole[i] = c.whole[i]
    /\ Len(c.buf) <= Len(b.buf)
    /\ \A i \in 1..Len(c.buf) : b.buf[i] = c.buf[i]
    /\ c.raw <= b.raw
    /\ DOMAIN c.offsets \subseteq DOMAIN b.offsets
    /\ \A r \in DOMAIN c.offsets : b.offsets[r] = c.offsets[r]

LEMMA ExtendsTransitive ==
    ASSUME NEW a \in Cursor, NEW b \in Cursor, NEW c \in Cursor, Extends(b, a), Extends(c, b)
    PROVE  Extends(c, a)
<1>1. /\ Len(a.whole) \in Nat /\ Len(b.whole) \in Nat /\ Len(c.whole) \in Nat
      /\ Len(a.buf) \in Nat /\ Len(b.buf) \in Nat /\ Len(c.buf) \in Nat
      /\ a.raw \in Nat /\ b.raw \in Nat /\ c.raw \in Nat
  BY CursorIs
<1>2. /\ Len(a.whole) <= Len(c.whole) /\ Len(a.buf) <= Len(c.buf) /\ a.raw <= c.raw
  BY <1>1 DEF Extends
<1>3. \A i \in 1..Len(a.whole) : i \in 1..Len(b.whole) /\ c.whole[i] = a.whole[i]
  BY <1>1 DEF Extends
<1>4. \A i \in 1..Len(a.buf) : i \in 1..Len(b.buf) /\ c.buf[i] = a.buf[i]
  BY <1>1 DEF Extends
<1>5. \A r \in DOMAIN a.offsets : r \in DOMAIN c.offsets /\ c.offsets[r] = a.offsets[r]
  BY DEF Extends
<1>6. QED  BY <1>2, <1>3, <1>4, <1>5 DEF Extends

LEMMA ExtendsItself ==
    ASSUME NEW c \in Cursor
    PROVE  Extends(c, c)
<1>1. Len(c.whole) \in Nat /\ Len(c.buf) \in Nat /\ c.raw \in Nat
  BY CursorIs
<1>2. QED  BY <1>1 DEF Extends

(* A step over a payload ... *)
LEMMA PassPayload ==
    ASSUME NEW d \in Seq(Nat), NEW c \in Cursor, c.at >= 1, ~ Ends(d, c.at), IsVLSD(d, c.at),
           NEW n, n = LengthAt(d, c.at + 1)
    PROVE  /\ n \in Nat /\ c.at + 2 <= Len(d)
           /\ Pass(d, c) \in Cursor
           /\ Pass(d, c).at = c.at + 3 + n
           /\ Pass(d, c).raw = c.raw + 2 + n
           /\ Pass(d, c).whole = c.whole
           /\ DOMAIN Pass(d, c).offsets = {c.raw} \cup DOMAIN c.offsets
           /\ Pass(d, c).offsets[c.raw] = Len(c.buf)
           /\ \A r \in DOMAIN c.offsets : r # c.raw => Pass(d, c).offsets[r] = c.offsets[r]
           /\ Pass(d, c).buf = IF c.at + 2 + n > Len(d) THEN c.buf
                               ELSE c.buf \o SubSeq(d, c.at + 3, c.at + 2 + n)
<1>1. /\ c.at \in Nat /\ c.whole \in Seq(Nat) /\ c.raw \in Nat /\ c.buf \in Seq(Nat)
      /\ c.offsets \in Index /\ DOMAIN c.offsets \subseteq Nat
      /\ \A r \in DOMAIN c.offsets : c.offsets[r] \in Nat
  BY CursorIs
<1>2. c.at + 2 <= Len(d) /\ Len(d) \in Nat
  BY <1>1 DEF Ends, PrefixSize
<1>3. n \in Nat
  <2>0. c.at + 1 \in 1..Len(d) /\ c.at + 1 + 1 \in 1..Len(d)
    BY <1>1, <1>2
  <2>1. d[c.at + 1] \in Nat /\ d[c.at + 1 + 1] \in Nat
    BY <2>0
  <2>2. QED  BY <2>1 DEF LengthAt, Base
<1> DEFINE o == [r \in {c.raw} \cup DOMAIN c.offsets |->
                    IF r = c.raw THEN Len(c.buf) ELSE c.offsets[r]]
           u == IF c.at + 2 + n > Len(d) THEN c.buf
                ELSE c.buf \o SubSeq(d, c.at + 3, c.at + 2 + n)
<1>4. Pass(d, c) = [c EXCEPT !.at = c.at + 3 + n, !.raw = c.raw + 2 + n,
                             !.offsets = o, !.buf = u]
  <2>1. c.at + 1 + 2 + n = c.at + 3 + n /\ c.at + 3 + n - 1 = c.at + 2 + n
        /\ c.at + 1 + 2 = c.at + 3
    BY <1>1, <1>3
  <2>2. QED  BY <2>1 DEF Pass, PrefixSize
<1>5. o \in Index
  <2>1. {c.raw} \cup DOMAIN c.offsets \in SUBSET Nat
    BY <1>1
  <2>2. o \in [{c.raw} \cup DOMAIN c.offsets -> Nat]
    BY <1>1
  <2>3. QED  BY <2>1, <2>2 DEF Index
<1>6. /\ DOMAIN o = {c.raw} \cup DOMAIN c.offsets
      /\ o[c.raw] = Len(c.buf)
      /\ \A r \in DOMAIN c.offsets : r # c.raw => o[r] = c.offsets[r]
  OBVIOUS
<1>7. u \in Seq(Nat)
  <2>1. CASE c.at + 2 + n > Len(d)
    BY <2>1, <1>1
  <2>2. CASE ~ (c.at + 2 + n > Len(d))
    <3>1. SubSeq(d, c.at + 3, c.at + 2 + n) \in Seq(Nat)
      <4>1. c.at + 3 \in 1..(Len(d) + 1) /\ c.at + 2 + n \in (c.at + 3 - 1)..Len(d)
        <5> DEFINE at == c.at
        <5>1. at \in Nat /\ n \in Nat /\ Len(d) \in Nat /\ at >= 1 /\ at + 2 <= Len(d)
              /\ ~ (at + 2 + n > Len(d))
          BY <1>1, <1>2, <1>3, <2>2
        <5> HIDE DEF at
        <5>2. at + 3 \in 1..(Len(d) + 1) /\ at + 2 + n \in (at + 3 - 1)..Len(d)
          BY <5>1
        <5>3. QED  BY <5>2 DEF at
      <4>2. QED  BY <4>1, Slice
    <3>2. QED  BY <2>2, <3>1, <1>1
  <2>3. QED  BY <2>1, <2>2
<1> HIDE DEF o, u
<1>8. Pass(d, c) \in Cursor
  <2>1. Pass(d, c) = [at |-> c.at + 3 + n, whole |-> c.whole, raw |-> c.raw + 2 + n,
                      offsets |-> o, buf |-> u]
    BY <1>4 DEF Cursor
  <2>2. c.at + 3 + n \in Nat /\ c.raw + 2 + n \in Nat
    BY <1>1, <1>3
  <2>3. QED  BY <2>1, <2>2, <1>1, <1>5, <1>7 DEF Cursor
<1>9. /\ Pass(d, c).at = c.at + 3 + n /\ Pass(d, c).raw = c.raw + 2 + n
      /\ Pass(d, c).whole = c.whole /\ Pass(d, c).offsets = o /\ Pass(d, c).buf = u
  BY <1>4 DEF Cursor
<1>10. QED  BY <1>2, <1>3, <1>6, <1>8, <1>9 DEF u

(* ... and one over a record. *)
LEMMA PassRecord ==
    ASSUME NEW d \in Seq(Nat), NEW c \in Cursor, c.at >= 1, ~ IsVLSD(d, c.at)
    PROVE  /\ Pass(d, c) \in Cursor
           /\ Pass(d, c).at = c.at + 4
           /\ Pass(d, c).raw = c.raw /\ Pass(d, c).offsets = c.offsets /\ Pass(d, c).buf = c.buf
           /\ Pass(d, c).whole = IF c.at + 3 > Len(d) THEN c.whole ELSE Append(c.whole, c.at)
<1>1. /\ c.at \in Nat /\ c.whole \in Seq(Nat) /\ c.raw \in Nat /\ c.buf \in Seq(Nat)
      /\ c.offsets \in Index
  BY CursorIs
<1> DEFINE w == IF c.at + 3 > Len(d) THEN c.whole ELSE Append(c.whole, c.at)
<1>2. Pass(d, c) = [c EXCEPT !.at = c.at + 4, !.whole = w]
  <2>1. c.at + 1 + 3 = c.at + 4
    BY <1>1
  <2>2. QED  BY <2>1 DEF Pass, CANRecordSize
<1>3. w \in Seq(Nat)
  BY <1>1
<1> HIDE DEF w
<1>4. Pass(d, c) \in Cursor
  <2>1. Pass(d, c) = [at |-> c.at + 4, whole |-> w, raw |-> c.raw,
                      offsets |-> c.offsets, buf |-> c.buf]
    BY <1>2 DEF Cursor
  <2>2. c.at + 4 \in Nat
    BY <1>1
  <2>3. QED  BY <2>1, <2>2, <1>1, <1>3 DEF Cursor
<1>5. /\ Pass(d, c).at = c.at + 4 /\ Pass(d, c).whole = w
      /\ Pass(d, c).raw = c.raw /\ Pass(d, c).offsets = c.offsets /\ Pass(d, c).buf = c.buf
  BY <1>2 DEF Cursor
<1>6. QED  BY <1>4, <1>5 DEF w

LEMMA StepSound ==
    ASSUME NEW d \in Seq(Nat), NEW c, Sound(d, c)
    PROVE  /\ Sound(d, Step(d, c))
           /\ Extends(Step(d, c), c)
           /\ ~ Ends(d, c.at) => Step(d, c).at > c.at
<1>1. /\ c \in Cursor /\ c.at >= 1
      /\ \A r \in DOMAIN c.offsets : r < c.raw /\ c.offsets[r] <= Len(c.buf)
      /\ \A i \in 1..Len(c.whole) : c.whole[i] >= 1 /\ c.whole[i] + 3 <= Len(d)
  BY DEF Sound, CANRecordSize
<1>2. /\ c.at \in Nat /\ c.whole \in Seq(Nat) /\ c.raw \in Nat /\ c.buf \in Seq(Nat)
      /\ DOMAIN c.offsets \subseteq Nat
      /\ \A r \in DOMAIN c.offsets : c.offsets[r] \in Nat
      /\ Len(c.whole) \in Nat /\ Len(c.buf) \in Nat /\ Len(d) \in Nat
  BY <1>1, CursorIs
<1>3. CASE Ends(d, c.at)
  <2>1. Step(d, c) = c
    BY <1>3 DEF Step
  <2>2. QED  BY <2>1, <1>1, <1>3, ExtendsItself
<1> DEFINE b == Pass(d, c)
<1>4. CASE ~ Ends(d, c.at) /\ IsVLSD(d, c.at)
  <2> DEFINE n == LengthAt(d, c.at + 1)
  <2>1. /\ n \in Nat /\ c.at + 2 <= Len(d)
        /\ b \in Cursor
        /\ b.at = c.at + 3 + n
        /\ b.raw = c.raw + 2 + n
        /\ b.whole = c.whole
        /\ DOMAIN b.offsets = {c.raw} \cup DOMAIN c.offsets
        /\ b.offsets[c.raw] = Len(c.buf)
        /\ \A r \in DOMAIN c.offsets : r # c.raw => b.offsets[r] = c.offsets[r]
        /\ b.buf = IF c.at + 2 + n > Len(d) THEN c.buf
                   ELSE c.buf \o SubSeq(d, c.at + 3, c.at + 2 + n)
    BY <1>1, <1>4, PassPayload
  <2>2. Step(d, c) = b
    BY <1>4 DEF Step
  <2> HIDE DEF b, n
  <2>3. Len(c.buf) <= Len(b.buf) /\ (\A i \in 1..Len(c.buf) : b.buf[i] = c.buf[i])
    <3>1. CASE c.at + 2 + n > Len(d)
      BY <3>1, <2>1, <1>2
    <3>2. CASE ~ (c.at + 2 + n > Len(d))
      <4> DEFINE s == SubSeq(d, c.at + 3, c.at + 2 + n)
      <4>1. c.at + 3 \in 1..(Len(d) + 1) /\ c.at + 2 + n \in (c.at + 3 - 1)..Len(d)
        <5> DEFINE at == c.at
        <5>1. at \in Nat /\ n \in Nat /\ Len(d) \in Nat /\ at >= 1 /\ at + 2 <= Len(d)
              /\ ~ (at + 2 + n > Len(d))
          BY <1>1, <1>2, <2>1, <3>2
        <5> HIDE DEF at
        <5>2. at + 3 \in 1..(Len(d) + 1) /\ at + 2 + n \in (at + 3 - 1)..Len(d)
          BY <5>1
        <5>3. QED  BY <5>2 DEF at
      <4>2. s \in Seq(Nat)
        BY <4>1, Slice
      <4>3. b.buf = c.buf \o s
        BY <3>2, <2>1
      <4> HIDE DEF s
      <4>4. /\ Len(b.buf) = Len(c.buf) + Len(s) /\ Len(s) \in Nat
            /\ \A i \in 1..Len(c.buf) : b.buf[i] = c.buf[i]
        BY <4>2, <4>3, <1>2, Concatenation
      <4>5. QED  BY <4>4, <1>2
    <3>3. QED  BY <3>1, <3>2
  <2>4. \A r \in DOMAIN b.offsets : r < b.raw /\ b.offsets[r] <= Len(b.buf)
    <3>0. b.buf \in Seq(Nat) /\ b.raw \in Nat
      BY <2>1, CursorIs
    <3>1. Len(b.buf) \in Nat
      BY <3>0
    <3>2. ASSUME NEW r \in DOMAIN b.offsets PROVE r < b.raw /\ b.offsets[r] <= Len(b.buf)
      <4>1. CASE r = c.raw
        <5>1. b.offsets[r] = Len(c.buf) /\ b.raw = c.raw + 2 + n /\ n \in Nat /\ c.raw \in Nat
          BY <4>1, <2>1, <1>2
        <5>2. r < b.raw
          BY <5>1, <4>1
        <5>3. QED  BY <5>1, <5>2, <2>3
      <4>2. CASE r # c.raw
        <5>1. r \in DOMAIN c.offsets
          BY <4>2, <2>1
        <5>2. /\ r < c.raw /\ c.offsets[r] <= Len(c.buf) /\ b.offsets[r] = c.offsets[r]
              /\ r \in Nat /\ c.offsets[r] \in Nat
          BY <5>1, <4>2, <2>1, <1>1, <1>2
        <5>3. b.raw = c.raw + 2 + n /\ n \in Nat /\ c.raw \in Nat
          BY <2>1, <1>2
        <5>4. r < b.raw
          BY <5>2, <5>3
        <5>5. b.offsets[r] <= Len(b.buf)
          BY <5>2, <3>1, <2>3, <1>2
        <5>6. QED  BY <5>4, <5>5
      <4>3. QED  BY <4>1, <4>2
    <3>3. QED  BY <3>2
  <2>5. Sound(d, b)
    <3>1. b.at >= 1
      BY <2>1, <1>2
    <3>2. QED  BY <3>1, <2>1, <2>4, <1>1 DEF Sound, CANRecordSize
  <2>6. Extends(b, c)
    <3>1. c.raw <= b.raw
      BY <2>1, <1>2
    <3>2. \A r \in DOMAIN c.offsets : r # c.raw
      BY <1>1, <1>2
    <3>3. \A r \in DOMAIN c.offsets : b.offsets[r] = c.offsets[r]
      BY <3>2, <2>1
    <3>4. DOMAIN c.offsets \subseteq DOMAIN b.offsets
      BY <2>1
    <3>5. Len(c.whole) <= Len(b.whole) /\ \A i \in 1..Len(c.whole) : b.whole[i] = c.whole[i]
      BY <2>1, <1>2
    <3>6. QED  BY <3>1, <3>3, <3>4, <3>5, <2>3 DEF Extends
  <2>7. b.at > c.at
    BY <2>1, <1>2
  <2>8. QED  BY <2>2, <2>5, <2>6, <2>7
<1>5. CASE ~ Ends(d, c.at) /\ ~ IsVLSD(d, c.at)
  <2>1. /\ b \in Cursor /\ b.at = c.at + 4
        /\ b.raw = c.raw /\ b.offsets = c.offsets /\ b.buf = c.buf
        /\ b.whole = IF c.at + 3 > Len(d) THEN c.whole ELSE Append(c.whole, c.at)
    BY <1>1, <1>5, PassRecord
  <2>2. Step(d, c) = b
    BY <1>5 DEF Step
  <2> HIDE DEF b
  <2>3. /\ Len(c.whole) <= Len(b.whole)
        /\ \A i \in 1..Len(c.whole) : b.whole[i] = c.whole[i]
        /\ \A i \in 1..Len(b.whole) : b.whole[i] >= 1 /\ b.whole[i] + 3 <= Len(d)
    <3>1. CASE c.at + 3 > Len(d)
      BY <3>1, <2>1, <1>1, <1>2
    <3>2. CASE ~ (c.at + 3 > Len(d))
      <4>1. b.whole = Append(c.whole, c.at)
        BY <3>2, <2>1
      <4>2. /\ Len(b.whole) = Len(c.whole) + 1
            /\ \A i \in 1..Len(c.whole) : b.whole[i] = c.whole[i]
            /\ b.whole[Len(c.whole) + 1] = c.at
        BY <4>1, <1>2
      <4>3. ASSUME NEW i \in 1..Len(b.whole) PROVE b.whole[i] >= 1 /\ b.whole[i] + 3 <= Len(d)
        <5>1. CASE i \in 1..Len(c.whole)
          BY <5>1, <4>2, <1>1
        <5>2. CASE i = Len(c.whole) + 1
          BY <5>2, <4>2, <3>2, <1>1, <1>2
        <5>3. i \in 1..Len(c.whole) \/ i = Len(c.whole) + 1
          BY <4>2, <1>2
        <5>4. QED  BY <5>1, <5>2, <5>3
      <4>4. QED  BY <4>2, <4>3, <1>2
    <3>3. QED  BY <3>1, <3>2
  <2>4. Sound(d, b)
    <3>1. b.at >= 1
      BY <2>1, <1>2
    <3>2. QED  BY <3>1, <2>1, <2>3, <1>1 DEF Sound, CANRecordSize
  <2>5. Extends(b, c)
    BY <2>1, <2>3, <1>2 DEF Extends
  <2>6. b.at > c.at
    BY <2>1, <1>2
  <2>7. QED  BY <2>2, <2>4, <2>5, <2>6
<1>6. QED  BY <1>3, <1>4, <1>5

(* What holds of every walk: it is sound, it goes on or has ended, and      *)
(* keeps what it has.                                                       *)
LEMMA WalkSound ==
    ASSUME NEW d \in Seq(Nat)
    PROVE  \A k \in Nat : Sound(d, Walk(d)[k]) /\ (Walk(d)[k].at > k \/ Ends(d, Walk(d)[k].at))
<1> DEFINE w(k) == Walk(d)[k]
           S == {k \in Nat : Sound(d, w(k)) /\ (w(k).at > k \/ Ends(d, w(k).at))}
<1>1. 0 \in S
  <2>1. w(0) = Outset
    BY WalkIs
  <2>2. Outset \in Cursor
    <3>1. << >> \in [{} -> Nat] /\ {} \in SUBSET Nat
      OBVIOUS
    <3>2. << >> \in Index
      BY <3>1 DEF Index
    <3>3. << >> \in Seq(Nat)
      OBVIOUS
    <3>4. QED  BY <3>2, <3>3 DEF Outset, Cursor
  <2>3. Outset.at = 1 /\ DOMAIN Outset.offsets = {} /\ Len(Outset.whole) = 0
    BY DEF Outset
  <2>4. Sound(d, Outset)
    BY <2>2, <2>3 DEF Sound
  <2>5. QED  BY <2>1, <2>3, <2>4
<1>2. ASSUME NEW k \in Nat, k \in S PROVE k + 1 \in S
  <2>1. w(k + 1) = Step(d, w(k))
    BY WalkIs
  <2>2. Sound(d, w(k)) /\ (w(k).at > k \/ Ends(d, w(k).at))
    BY <1>2
  <2> DEFINE c == w(k)
             b == Step(d, c)
  <2> HIDE DEF w
  <2>3. /\ Sound(d, b)
        /\ ~ Ends(d, c.at) => b.at > c.at
    BY <2>2, StepSound
  <2>8. w(k + 1) = b
    BY <2>1
  <2> HIDE DEF c, b
  <2>9. c \in Cursor /\ b \in Cursor
    BY <2>2, <2>3 DEF Sound, c
  <2>4. c.at \in Nat /\ b.at \in Nat
    BY <2>9, CursorIs
  <2>5. CASE Ends(d, c.at)
    BY <2>5, <2>1, <2>2 DEF Step, c
  <2>6. CASE ~ Ends(d, c.at)
    <3>1. b.at > k + 1
      <4>1. c.at > k
        BY <2>2, <2>6 DEF c
      <4>2. b.at > c.at
        BY <2>3, <2>6
      <4>3. QED  BY <4>1, <4>2, <2>4
    <3>2. QED  BY <3>1, <2>8, <2>3
  <2>7. QED  BY <2>5, <2>6
<1>3. Nat \subseteq S
  <2> HIDE DEF S
  <2>1. QED  BY <1>1, <1>2, SetInduction
<1>4. QED  BY <1>3

LEMMA WalkKeeps ==
    ASSUME NEW d \in Seq(Nat), NEW j \in Nat, NEW m \in Nat
    PROVE  /\ Extends(Walk(d)[j + m], Walk(d)[j])
           /\ Ends(d, Walk(d)[j].at) => Walk(d)[j + m] = Walk(d)[j]
<1> DEFINE w(k) == Walk(d)[k]
           S == {n \in Nat : /\ Extends(w(j + n), w(j))
                             /\ Ends(d, w(j).at) => w(j + n) = w(j)}
<1>0. \A k \in Nat : Sound(d, w(k)) /\ w(k) \in Cursor /\ w(k + 1) = Step(d, w(k))
  BY WalkSound, WalkIs DEF Sound
<1> HIDE DEF w
<1>1. 0 \in S
  <2>1. j + 0 = j /\ w(j) \in Cursor
    BY <1>0
  <2>2. QED  BY <2>1, ExtendsItself
<1>2. ASSUME NEW n \in Nat, n \in S PROVE n + 1 \in S
  <2>1. j + n \in Nat /\ (j + n) + 1 = j + (n + 1) /\ j + (n + 1) \in Nat
    OBVIOUS
  <2>2. w(j + (n + 1)) = Step(d, w(j + n))
    BY <2>1, <1>0
  <2>3. Extends(w(j + (n + 1)), w(j + n))
    BY <2>1, <2>2, <1>0, StepSound
  <2>4. Extends(w(j + (n + 1)), w(j))
    BY <1>2, <2>1, <2>3, <1>0, ExtendsTransitive
  <2>5. Ends(d, w(j).at) => w(j + (n + 1)) = w(j)
    BY <1>2, <2>2 DEF Step
  <2>6. QED  BY <2>4, <2>5
<1>3. Nat \subseteq S
  <2> HIDE DEF S
  <2>1. QED  BY <1>1, <1>2, SetInduction
<1>4. QED  BY <1>3 DEF w

(* Where the reader comes by. *)
Reaches(d, c) == \E k \in Nat : c = Walk(d)[k]

(* The reader ends with at least what it has on the way, and where a walk   *)
(* ends.                                                                    *)
LEMMA WalkedEnds ==
    ASSUME NEW d \in Seq(Nat)
    PROVE  Sound(d, Walked(d)) /\ Ends(d, Walked(d).at) /\ Reaches(d, Walked(d))
<1>1. Len(d) \in Nat
  OBVIOUS
<1>2. Sound(d, Walked(d)) /\ (Walked(d).at > Len(d) \/ Ends(d, Walked(d).at))
  BY <1>1, WalkSound DEF Walked
<1>3. QED  BY <1>1, <1>2 DEF Ends, Reaches, Walked

LEMMA ReachedKept ==
    ASSUME NEW d \in Seq(Nat), NEW c, Reaches(d, c)
    PROVE  /\ Sound(d, c)
           /\ Extends(Walked(d), c)
           /\ Ends(d, c.at) => Walked(d) = c
<1>1. PICK k \in Nat : c = Walk(d)[k]
  BY DEF Reaches
<1>2. Sound(d, c)
  BY <1>1, WalkSound
<1>3. CASE k <= Len(d)
  <2>1. Len(d) - k \in Nat /\ k + (Len(d) - k) = Len(d)
    BY <1>3
  <2>2. QED  BY <1>1, <1>2, <2>1, WalkKeeps DEF Walked
<1>4. CASE ~ (k <= Len(d))
  <2>1. k - Len(d) \in Nat /\ Len(d) + (k - Len(d)) = k /\ Len(d) \in Nat
    BY <1>4
  <2>2. c = Walked(d)
    <3>1. Ends(d, Walk(d)[Len(d)].at)
      BY WalkedEnds DEF Walked
    <3>2. Walk(d)[Len(d) + (k - Len(d))] = Walk(d)[Len(d)]
      BY <2>1, <3>1, WalkKeeps
    <3>3. QED  BY <1>1, <2>1, <3>2 DEF Walked
  <2>3. QED  BY <1>2, <2>2, ExtendsItself DEF Sound
<1>5. QED  BY <1>3, <1>4

LEMMA ReachesStep ==
    ASSUME NEW d, NEW c, Reaches(d, c)
    PROVE  Reaches(d, Step(d, c))
<1>1. PICK k \in Nat : c = Walk(d)[k]
  BY DEF Reaches
<1>2. Step(d, c) = Walk(d)[k + 1] /\ k + 1 \in Nat
  BY <1>1, WalkIs
<1>3. QED  BY <1>2 DEF Reaches

-----------------------------------------------------------------------------
(* The same over a file that goes on where the other ends.                  *)
Longer(e, d) ==
    /\ Len(d) <= Len(e)
    /\ \A i \in 1..Len(d) : e[i] = d[i]

LEMMA PayloadIn ==
    ASSUME NEW d \in Seq(Nat), NEW p \in Nat, p >= 1, NEW n \in Nat, p + n <= Len(d) + 1,
           NEW last \in {p + n - 1}
    PROVE  /\ SubSeq(d, p, last) \in Seq(Nat)
           /\ Len(SubSeq(d, p, last)) = n
           /\ \A i \in 1..n : SubSeq(d, p, last)[i] = d[p + i - 1]
<1>1. p \in 1..(Len(d) + 1) /\ p + n - 1 \in (p - 1)..Len(d) /\ p + n - 1 - p + 1 = n
  OBVIOUS
<1> DEFINE k == p + n - 1
<1>2. k \in (p - 1)..Len(d) /\ k - p + 1 = n /\ last = k
  BY <1>1
<1> HIDE DEF k
<1>3. /\ SubSeq(d, p, k) \in Seq(Nat)
      /\ Len(SubSeq(d, p, k)) = k - p + 1
      /\ \A i \in 1..(k - p + 1) : SubSeq(d, p, k)[i] = d[p + i - 1]
  BY <1>1, <1>2, Slice
<1>4. QED  BY <1>2, <1>3

LEMMA PayloadKept ==
    ASSUME NEW d \in Seq(Nat), NEW e \in Seq(Nat), Longer(e, d),
           NEW p \in Nat, p >= 1, NEW n \in Nat, p + n <= Len(d) + 1,
           NEW last \in {p + n - 1}
    PROVE  SubSeq(e, p, last) = SubSeq(d, p, last)
<1> DEFINE s == SubSeq(d, p, last)
           t == SubSeq(e, p, last)
<1>1. Len(d) \in Nat /\ Len(e) \in Nat /\ Len(d) <= Len(e) /\ p + n <= Len(e) + 1
  BY DEF Longer
<1>2. s \in Seq(Nat) /\ Len(s) = n /\ \A i \in 1..n : s[i] = d[p + i - 1]
  BY PayloadIn
<1>3. t \in Seq(Nat) /\ Len(t) = n /\ \A i \in 1..n : t[i] = e[p + i - 1]
  BY <1>1, PayloadIn
<1>4. ASSUME NEW i \in 1..n PROVE t[i] = s[i]
  <2>1. p + i - 1 \in 1..Len(d)
    BY <1>1
  <2>2. e[p + i - 1] = d[p + i - 1]
    BY <2>1 DEF Longer
  <2>3. QED  BY <2>2, <1>2, <1>3
<1> HIDE DEF s, t
<1>5. t = s
  <2>1. \A i \in 1..Len(t) : t[i] = s[i]
    BY <1>3, <1>4
  <2>2. QED  BY <2>1, <1>2, <1>3, SeqEqual
<1>6. QED  BY <1>5 DEF s, t

LEMMA StepOver ==
    ASSUME NEW d \in Seq(Nat), NEW e \in Seq(Nat), Longer(e, d),
           NEW c, Sound(d, c), ~ Ends(d, c.at)
    PROVE  /\ ~ Ends(e, c.at)
           /\ Extends(Step(e, c), Step(d, c))
           /\ Step(e, c) = Step(d, c) \/ Step(d, c).at > Len(d) + 1
<1>1. /\ c \in Cursor /\ c.at \in Nat /\ c.at >= 1 /\ Len(d) \in Nat /\ Len(e) \in Nat
      /\ Len(d) <= Len(e) /\ c.buf \in Seq(Nat)
  BY CursorIs DEF Sound, Longer
<1>0. c.at <= Len(d) /\ (IsVLSD(d, c.at) => c.at + 2 <= Len(d))
  BY <1>1 DEF Ends, PrefixSize
<1>2. /\ c.at \in 1..Len(d) /\ e[c.at] = d[c.at]
      /\ IsVLSD(d, c.at) <=> IsVLSD(e, c.at)
  BY <1>1 DEF Ends, Longer, IsVLSD
<1>3. ~ Ends(e, c.at)
  BY <1>1, <1>2 DEF Ends, PrefixSize
<1>4. Step(d, c) = Pass(d, c) /\ Step(e, c) = Pass(e, c)
  BY <1>3 DEF Step
<1> DEFINE b == Pass(d, c)
           a == Pass(e, c)
<1>5. CASE IsVLSD(d, c.at)
  <2> DEFINE n == LengthAt(d, c.at + 1)
  <2>1. n = LengthAt(e, c.at + 1)
    <3>1. c.at + 1 \in 1..Len(d) /\ c.at + 1 + 1 \in 1..Len(d)
      <4> DEFINE at == c.at
      <4>1. at \in Nat /\ at >= 1 /\ at + 2 <= Len(d) /\ Len(d) \in Nat
        BY <1>0, <1>1, <1>5
      <4> HIDE DEF at
      <4>2. at + 1 \in 1..Len(d) /\ at + 1 + 1 \in 1..Len(d)
        BY <4>1
      <4>3. QED  BY <4>2 DEF at
    <3>2. e[c.at + 1] = d[c.at + 1] /\ e[c.at + 1 + 1] = d[c.at + 1 + 1]
      BY <3>1 DEF Longer
    <3>3. QED  BY <3>2 DEF LengthAt
  <2>2. /\ n \in Nat /\ c.at + 2 <= Len(d)
        /\ b \in Cursor
        /\ b.at = c.at + 3 + n
        /\ b.raw = c.raw + 2 + n
        /\ b.whole = c.whole
        /\ DOMAIN b.offsets = {c.raw} \cup DOMAIN c.offsets
        /\ b.offsets[c.raw] = Len(c.buf)
        /\ \A r \in DOMAIN c.offsets : r # c.raw => b.offsets[r] = c.offsets[r]
        /\ b.buf = IF c.at + 2 + n > Len(d) THEN c.buf
                   ELSE c.buf \o SubSeq(d, c.at + 3, c.at + 2 + n)
    <3>1. c \in Cursor /\ c.at >= 1
      BY <1>1
    <3>2. QED  BY <3>1, <1>5, PassPayload
  <2>3. /\ a \in Cursor
        /\ a.at = c.at + 3 + n
        /\ a.raw = c.raw + 2 + n
        /\ a.whole = c.whole
        /\ DOMAIN a.offsets = {c.raw} \cup DOMAIN c.offsets
        /\ a.offsets[c.raw] = Len(c.buf)
        /\ \A r \in DOMAIN c.offsets : r # c.raw => a.offsets[r] = c.offsets[r]
        /\ a.buf = IF c.at + 2 + n > Len(e) THEN c.buf
                   ELSE c.buf \o SubSeq(e, c.at + 3, c.at + 2 + n)
    <3>1. c \in Cursor /\ c.at >= 1 /\ IsVLSD(e, c.at)
      BY <1>1, <1>2, <1>5
    <3> DEFINE l == LengthAt(e, c.at + 1)
    <3>2. /\ l \in Nat
          /\ a \in Cursor
          /\ a.at = c.at + 3 + l
          /\ a.raw = c.raw + 2 + l
          /\ a.whole = c.whole
          /\ DOMAIN a.offsets = {c.raw} \cup DOMAIN c.offsets
          /\ a.offsets[c.raw] = Len(c.buf)
          /\ \A r \in DOMAIN c.offsets : r # c.raw => a.offsets[r] = c.offsets[r]
          /\ a.buf = IF c.at + 2 + l > Len(e) THEN c.buf
                     ELSE c.buf \o SubSeq(e, c.at + 3, c.at + 2 + l)
      BY <3>1, <1>3, PassPayload
    <3> HIDE DEF l, n, a
    <3>3. n = l
      BY <2>1 DEF l
    <3>4. QED  BY <3>2, <3>3
  <2>4. CASE ~ (c.at + 2 + n > Len(d))
    <3>1. SubSeq(e, c.at + 3, c.at + 2 + n) = SubSeq(d, c.at + 3, c.at + 2 + n)
      <4> DEFINE at == c.at
      <4>1. at \in Nat /\ n \in Nat /\ at >= 1 /\ ~ (at + 2 + n > Len(d)) /\ Len(d) \in Nat
        BY <1>1, <2>2, <2>4
      <4> HIDE DEF at, n
      <4>2. /\ at + 3 \in Nat /\ at + 3 >= 1 /\ at + 3 + n <= Len(d) + 1
            /\ at + 2 + n = at + 3 + n - 1
        BY <4>1
      <4>3. SubSeq(e, at + 3, at + 2 + n) = SubSeq(d, at + 3, at + 2 + n)
        <5>1. at + 2 + n \in {at + 3 + n - 1}
          BY <4>2
        <5>2. QED  BY <4>1, <4>2, <5>1, PayloadKept
      <4>4. QED  BY <4>3 DEF at
    <3>2. a = b
      <4>1. ~ (c.at + 2 + n > Len(e))
        BY <2>4, <2>2, <1>1
      <4>2. /\ Pass(d, c) = Pass(e, c)
        <5> DEFINE o == [r \in {c.raw} \cup DOMAIN c.offsets |->
                            IF r = c.raw THEN Len(c.buf) ELSE c.offsets[r]]
                   u(f) == c.buf \o SubSeq(f, c.at + 3, c.at + 2 + n)
        <5>1. c.at + 1 + 2 + n = c.at + 3 + n /\ c.at + 3 + n - 1 = c.at + 2 + n
              /\ c.at + 1 + 2 = c.at + 3
          <6>1. c.at \in Nat /\ n \in Nat
            BY <1>1, <2>2
          <6> HIDE DEF n
          <6>2. QED  BY <6>1
        <5>2. Pass(d, c) = [c EXCEPT !.at = c.at + 3 + n, !.raw = c.raw + 2 + n,
                                     !.offsets = o, !.buf = u(d)]
          BY <5>1, <1>5, <2>4 DEF Pass, PrefixSize
        <5>3. Pass(e, c) = [c EXCEPT !.at = c.at + 3 + n, !.raw = c.raw + 2 + n,
                                     !.offsets = o, !.buf = u(e)]
          BY <5>1, <1>2, <1>5, <2>1, <4>1 DEF Pass, PrefixSize
        <5>4. u(d) = u(e)
          BY <3>1
        <5> HIDE DEF o, u
        <5>5. QED  BY <5>2, <5>3, <5>4
      <4>3. QED  BY <4>2
    <3>3. QED  BY <3>2, <1>3, <1>4, <2>2, ExtendsItself
  <2>5. CASE c.at + 2 + n > Len(d)
    <3>1. b.at > Len(d) + 1
      BY <2>5, <2>2, <1>1
    <3>2. Extends(a, b)
      <4> HIDE DEF a, b
      <4>1. b.buf = c.buf
        BY <2>5, <2>2
      <4>2. Len(c.buf) <= Len(a.buf) /\ \A i \in 1..Len(c.buf) : a.buf[i] = c.buf[i]
        <5>1. CASE a.buf = c.buf
          BY <5>1, <1>1
        <5>2. CASE c.at + 2 + n <= Len(e) /\ a.buf = c.buf \o SubSeq(e, c.at + 3, c.at + 2 + n)
          <6> DEFINE at == c.at
          <6>1. at \in Nat /\ n \in Nat /\ Len(e) \in Nat /\ at >= 1 /\ at + 2 <= Len(e)
                /\ at + 2 + n <= Len(e)
            BY <1>1, <2>2, <5>2
          <6> HIDE DEF at, n
          <6>2. at + 3 \in 1..(Len(e) + 1) /\ at + 2 + n \in (at + 3 - 1)..Len(e)
            BY <6>1
          <6> DEFINE s == SubSeq(e, at + 3, at + 2 + n)
          <6>3. s \in Seq(Nat)
            BY <6>2, Slice
          <6>4. a.buf = c.buf \o s
            BY <5>2 DEF at
          <6> HIDE DEF s
          <6>5. /\ Len(a.buf) = Len(c.buf) + Len(s) /\ Len(s) \in Nat /\ Len(c.buf) \in Nat
                /\ \A i \in 1..Len(c.buf) : a.buf[i] = c.buf[i]
            BY <6>3, <6>4, <1>1, Concatenation
          <6>6. QED  BY <6>5
        <5>3. a.buf = c.buf \/ (c.at + 2 + n <= Len(e)
                                /\ a.buf = c.buf \o SubSeq(e, c.at + 3, c.at + 2 + n))
          <6> DEFINE x == c.at + 2 + n
          <6>0. x \in Nat /\ Len(e) \in Nat
            <7>1. c.at \in Nat /\ n \in Nat
              BY <1>1, <2>2
            <7> HIDE DEF n
            <7>2. QED  BY <7>1
          <6> HIDE DEF x
          <6>1. x > Len(e) \/ (x <= Len(e) /\ ~ (x > Len(e)))
            BY <6>0
          <6>2. QED  BY <6>1, <2>3 DEF x
        <5>4. QED  BY <5>1, <5>2, <5>3
      <4>3. \A r \in DOMAIN b.offsets : r \in DOMAIN a.offsets /\ a.offsets[r] = b.offsets[r]
        BY <2>2, <2>3
      <4>4. Len(b.whole) \in Nat /\ b.raw \in Nat /\ a.raw = b.raw /\ a.whole = b.whole
        BY <2>2, <2>3, CursorIs
      <4>5. b.raw <= a.raw
        BY <4>4
      <4>6. Len(b.whole) <= Len(a.whole) /\ \A i \in 1..Len(b.whole) : a.whole[i] = b.whole[i]
        BY <4>4
      <4>7. QED  BY <4>1, <4>2, <4>3, <4>5, <4>6 DEF Extends
    <3>3. QED  BY <3>1, <3>2, <1>3, <1>4
  <2>6. QED  BY <2>4, <2>5
<1>6. CASE ~ IsVLSD(d, c.at)
  <2>1. /\ b \in Cursor /\ b.at = c.at + 4
        /\ b.raw = c.raw /\ b.offsets = c.offsets /\ b.buf = c.buf
        /\ b.whole = IF c.at + 3 > Len(d) THEN c.whole ELSE Append(c.whole, c.at)
    BY <1>1, <1>6, PassRecord
  <2>2. /\ a \in Cursor /\ a.at = c.at + 4
        /\ a.raw = c.raw /\ a.offsets = c.offsets /\ a.buf = c.buf
        /\ a.whole = IF c.at + 3 > Len(e) THEN c.whole ELSE Append(c.whole, c.at)
    BY <1>1, <1>2, <1>6, PassRecord
  <2>3. CASE ~ (c.at + 3 > Len(d))
    <3>1. ~ (c.at + 3 > Len(e))
      BY <2>3, <1>1
    <3>2. Pass(e, c) = Pass(d, c)
      BY <1>2, <1>6, <2>3, <3>1 DEF Pass, CANRecordSize
    <3>3. QED  BY <3>2, <1>3, <1>4, <2>1, ExtendsItself
  <2>4. CASE c.at + 3 > Len(d)
    <3>1. b.at > Len(d) + 1
      <4>1. b.at = c.at + 4
        BY <2>1
      <4>2. QED  BY <4>1, <2>4, <1>1
    <3>2. Extends(a, b)
      <4> HIDE DEF a, b
      <4>1. b.whole = c.whole /\ c.whole \in Seq(Nat) /\ Len(c.whole) \in Nat
            /\ b.buf \in Seq(Nat) /\ Len(b.buf) \in Nat /\ b.raw \in Nat
        BY <2>4, <2>1, <1>1, CursorIs
      <4>2. Len(b.whole) <= Len(a.whole) /\ \A i \in 1..Len(b.whole) : a.whole[i] = b.whole[i]
        <5>1. CASE a.whole = c.whole
          BY <5>1, <4>1
        <5>2. CASE a.whole = Append(c.whole, c.at)
          BY <5>2, <4>1, <1>1
        <5>3. QED  BY <5>1, <5>2, <2>2
      <4>3. a.raw = b.raw /\ a.offsets = b.offsets /\ a.buf = b.buf
        BY <2>1, <2>2
      <4>4. QED  BY <4>1, <4>2, <4>3 DEF Extends
    <3>3. QED  BY <3>1, <3>2, <1>3, <1>4
  <2>5. QED  BY <2>3, <2>4
<1>7. QED  BY <1>5, <1>6

-----------------------------------------------------------------------------
(* What the walk of a longer file has in common with that of the file.      *)
LEMMA LongerWalk ==
    ASSUME NEW d \in Seq(Nat), NEW e \in Seq(Nat), Longer(e, d)
    PROVE  \A k \in Nat : \E j \in Nat :
              \/ Walk(e)[j] = Walk(d)[k]
              \/ Ends(d, Walk(d)[k].at) /\ Extends(Walk(e)[j], Walk(d)[k])
<1> DEFINE v(k) == Walk(d)[k]
           w(k) == Walk(e)[k]
           Meet(j, k) == w(j) = v(k) \/ (Ends(d, v(k).at) /\ Extends(w(j), v(k)))
           S == {k \in Nat : \E j \in Nat : Meet(j, k)}
<1>0. /\ \A k \in Nat : v(k + 1) = Step(d, v(k)) /\ Sound(d, v(k))
      /\ \A k \in Nat : w(k + 1) = Step(e, w(k))
      /\ v(0) = Outset /\ w(0) = Outset
  BY WalkIs, WalkSound
<1> HIDE DEF v, w
<1>1. 0 \in S
  <2>1. Meet(0, 0)
    BY <1>0
  <2>2. QED  BY <2>1
<1>2. ASSUME NEW k \in Nat, k \in S PROVE k + 1 \in S
  <2>1. PICK j \in Nat : Meet(j, k)
    BY <1>2
  <2>2. CASE Ends(d, v(k).at)
    <3>1. v(k + 1) = v(k)
      BY <2>2, <1>0 DEF Step
    <3>2. Meet(j, k + 1)
      BY <2>1, <3>1
    <3>3. QED  BY <3>2
  <2>3. CASE ~ Ends(d, v(k).at)
    <3>1. w(j) = v(k)
      BY <2>1, <2>3
    <3> DEFINE c == v(k)
    <3>2. w(j + 1) = Step(e, c) /\ v(k + 1) = Step(d, c) /\ Sound(d, c)
      BY <3>1, <1>0
    <3> HIDE DEF c
    <3>3. /\ Extends(Step(e, c), Step(d, c))
          /\ Step(e, c) = Step(d, c) \/ Step(d, c).at > Len(d) + 1
      BY <3>2, <2>3, StepOver DEF c
    <3>4. Sound(d, Step(d, c))
      BY <3>2, StepSound
    <3>5. Step(d, c).at > Len(d) + 1 => Ends(d, Step(d, c).at)
      <4>1. Step(d, c).at \in Nat /\ Len(d) \in Nat
        BY <3>4, CursorIs DEF Sound
      <4>2. QED  BY <4>1 DEF Ends
    <3>6. Meet(j + 1, k + 1)
      BY <3>2, <3>3, <3>5
    <3>7. QED  BY <3>6
  <2>4. QED  BY <2>2, <2>3
<1>3. Nat \subseteq S
  <2> HIDE DEF S
  <2>1. QED  BY <1>1, <1>2, SetInduction
<1>4. \A k \in Nat : \E j \in Nat : Meet(j, k)
  BY <1>3
<1>5. QED  BY <1>4 DEF v, w

(* Where the reader comes by in the shorter file, and not past its end, it  *)
(* comes by in the longer one.                                              *)
LEMMA ReachesOn ==
    ASSUME NEW d \in Seq(Nat), NEW e \in Seq(Nat), Longer(e, d),
           NEW c, Reaches(d, c), c.at <= Len(d) + 1
    PROVE  Reaches(e, c)
<1> DEFINE v(k) == Walk(d)[k]
           w(k) == Walk(e)[k]
           S == {k \in Nat : v(k).at <= Len(d) + 1 => \E j \in Nat : w(j) = v(k)}
<1>0. /\ \A k \in Nat : v(k + 1) = Step(d, v(k)) /\ Sound(d, v(k))
      /\ \A k \in Nat : w(k + 1) = Step(e, w(k))
      /\ v(0) = Outset /\ w(0) = Outset
  BY WalkIs, WalkSound
<1> HIDE DEF v, w
<1>1. 0 \in S
  <2>1. w(0) = v(0) /\ 0 \in Nat
    BY <1>0
  <2>2. \E j \in Nat : w(j) = v(0)
    BY <2>1
  <2>3. QED  BY <2>2
<1>2. ASSUME NEW k \in Nat, k \in S PROVE k + 1 \in S
  <2> DEFINE b == v(k)
  <2>1. Sound(d, b) /\ v(k + 1) = Step(d, b) /\ Sound(d, Step(d, b))
    <3>1. Sound(d, b) /\ v(k + 1) = Step(d, b)
      BY <1>0
    <3>2. k + 1 \in Nat
      OBVIOUS
    <3>3. Sound(d, v(k + 1))
      BY <3>2, <1>0
    <3>4. QED  BY <3>1, <3>3
  <2> HIDE DEF b
  <2>2. ~ Ends(d, b.at) => Step(d, b).at > b.at
    BY <2>1, StepSound
  <2>3. b.at \in Nat /\ Step(d, b).at \in Nat /\ Len(d) \in Nat
    BY <2>1, CursorIs DEF Sound
  <2>4. SUFFICES ASSUME v(k + 1).at <= Len(d) + 1
                 PROVE  \E j \in Nat : w(j) = v(k + 1)
    OBVIOUS
  <2>5. Step(d, b).at <= Len(d) + 1
    BY <2>1, <2>4
  <2>6. CASE Ends(d, b.at)
    <3>1. v(k + 1) = b
      BY <2>1, <2>6 DEF Step
    <3>2. \E j \in Nat : w(j) = b
      BY <3>1, <2>4, <1>2 DEF b
    <3>3. QED  BY <3>1, <3>2
  <2>7. CASE ~ Ends(d, b.at)
    <3>1. b.at <= Len(d) + 1
      BY <2>2, <2>3, <2>5, <2>7
    <3>2. PICK j \in Nat : w(j) = b
      BY <3>1, <1>2 DEF b
    <3>3. Step(e, b) = Step(d, b) \/ Step(d, b).at > Len(d) + 1
      BY <2>1, <2>7, StepOver
    <3>4. Step(e, b) = Step(d, b)
      BY <3>3, <2>3, <2>5
    <3>5. w(j + 1) = v(k + 1) /\ j + 1 \in Nat
      BY <3>2, <3>4, <2>1, <1>0
    <3>6. QED  BY <3>5
  <2>8. QED  BY <2>6, <2>7
<1>3. Nat \subseteq S
  <2> HIDE DEF S
  <2>1. QED  BY <1>1, <1>2, SetInduction
<1>4. PICK k \in Nat : c = v(k)
  BY DEF Reaches, v
<1>5. \E j \in Nat : w(j) = v(k)
  BY <1>3, <1>4
<1>6. QED  BY <1>4, <1>5 DEF Reaches, w

(* A longer file gives the reader at least what the shorter one gave.       *)
LEMMA LongerWalked ==
    ASSUME NEW d \in Seq(Nat), NEW e \in Seq(Nat), Longer(e, d)
    PROVE  Extends(Walked(e), Walked(d))
<1>1. PICK j \in Nat : \/ Walk(e)[j] = Walked(d)
                       \/ Extends(Walk(e)[j], Walked(d))
  <2>1. Len(d) \in Nat
    OBVIOUS
  <2>2. QED  BY <2>1, LongerWalk DEF Walked
<1> DEFINE c == Walk(e)[j]
<1>2. Reaches(e, c)
  BY DEF Reaches
<1>3. Sound(e, c) /\ Extends(Walked(e), c)
  BY <1>2, ReachedKept
<1>4. Sound(d, Walked(d)) /\ Sound(e, Walked(e))
  BY WalkedEnds
<1>5. CASE c = Walked(d)
  BY <1>3, <1>5
<1>6. CASE Extends(c, Walked(d))
  <2> HIDE DEF c
  <2>1. c \in Cursor /\ Walked(d) \in Cursor /\ Walked(e) \in Cursor
    BY <1>3, <1>4 DEF Sound
  <2>2. QED  BY <2>1, <1>3, <1>6, ExtendsTransitive
<1>7. QED  BY <1>1, <1>5, <1>6

-----------------------------------------------------------------------------
(* A lookup that finds something finds it again later; one for no data has  *)
(* none.                                                                    *)
LEMMA LookupStays ==
    ASSUME NEW c \in Cursor, NEW b \in Cursor, Extends(b, c), NEW r, NEW n \in Nat,
           Lookup(c, r, n) # << >>
    PROVE  Lookup(b, r, n) = Lookup(c, r, n)
<1>1. /\ r \in DOMAIN c.offsets /\ c.offsets[r] + n <= Len(c.buf)
      /\ Lookup(c, r, n) = SubSeq(c.buf, c.offsets[r] + 1, c.offsets[r] + n)
  BY DEF Lookup
<1>2. /\ c.offsets[r] \in Nat /\ c.buf \in Seq(Nat) /\ b.buf \in Seq(Nat)
      /\ r \in DOMAIN b.offsets /\ b.offsets[r] = c.offsets[r]
  BY <1>1, CursorIs DEF Extends
<1> DEFINE o == c.offsets[r]
           x == c.buf
           y == b.buf
<1>3. /\ o \in Nat /\ x \in Seq(Nat) /\ y \in Seq(Nat) /\ o + n <= Len(x) /\ Longer(y, x)
  BY <1>1, <1>2 DEF Extends, Longer
<1>4. Lookup(c, r, n) = SubSeq(x, o + 1, o + n)
  BY <1>1
<1>5. b.offsets[r] + n <= Len(b.buf) => Lookup(b, r, n) = SubSeq(y, o + 1, o + n)
  BY <1>2 DEF Lookup
<1>6. b.offsets[r] + n = o + n /\ Len(b.buf) = Len(y)
  BY <1>2
<1> HIDE DEF o, x, y
<1>7. Len(x) \in Nat /\ Len(y) \in Nat /\ Len(x) <= Len(y)
  BY <1>3 DEF Longer
<1>8. o + n <= Len(y) /\ o + 1 \in Nat /\ o + 1 >= 1 /\ (o + 1) + n <= Len(x) + 1
      /\ o + n \in {(o + 1) + n - 1}
  BY <1>3, <1>7
<1>9. SubSeq(y, o + 1, o + n) = SubSeq(x, o + 1, o + n)
  BY <1>3, <1>8, PayloadKept
<1>10. QED  BY <1>4, <1>5, <1>6, <1>8, <1>9

LEMMA LookupNothing ==
    ASSUME NEW c \in Cursor, NEW r
    PROVE  Lookup(c, r, 0) = << >>
<1>1. CASE r \in DOMAIN c.offsets
  <2>1. c.offsets[r] \in Nat
    BY <1>1, CursorIs
  <2> DEFINE o == c.offsets[r]
  <2>2. o \in Nat /\ c.buf \in Seq(Nat)
    BY <2>1, CursorIs
  <2> HIDE DEF o
  <2>3. SubSeq(c.buf, o + 1, o + 0) = << >>
    BY <2>2
  <2>4. QED  BY <2>3 DEF Lookup, o
<1>2. CASE r \notin DOMAIN c.offsets
  BY <1>2 DEF Lookup
<1>3. QED  BY <1>1, <1>2

LEMMA ReadIs ==
    ASSUME NEW d
    PROVE  /\ DOMAIN Read(d) = 1..Len(Walked(d).whole)
           /\ \A i \in 1..Len(Walked(d).whole) :
                 Read(d)[i] = [ID |-> d[Walked(d).whole[i] + 1],
                               Length |-> d[Walked(d).whole[i] + 2],
                               Data |-> Lookup(Walked(d), d[Walked(d).whole[i] + 3],
                                               d[Walked(d).whole[i] + 2])]
BY DEF Read

LEMMA ReadLen ==
    ASSUME NEW d \in Seq(Nat)
    PROVE  Len(Read(d)) = Len(Walked(d).whole)
<1>1. Len(Walked(d).whole) \in Nat
  BY WalkedEnds, CursorIs DEF Sound
<1>2. DOMAIN Read(d) = 1..Len(Walked(d).whole)
  BY ReadIs
<1>3. Read(d) = [i \in 1..Len(Walked(d).whole) |-> Read(d)[i]]
  BY DEF Read
<1>4. QED  BY <1>1, <1>2, <1>3

LEMMA ReadStays ==
    ASSUME NEW d \in Seq(Nat), NEW e \in Seq(Nat), Longer(e, d)
    PROVE  Stays(Read(d), Read(e))
<1> DEFINE c == Walked(d)
           b == Walked(e)
<1>1. Sound(d, c) /\ Sound(e, b) /\ Extends(b, c) /\ c \in Cursor /\ b \in Cursor
  BY WalkedEnds, LongerWalked DEF Sound
<1>2. /\ Len(Read(d)) = Len(c.whole) /\ DOMAIN Read(d) = 1..Len(c.whole)
      /\ Len(Read(e)) = Len(b.whole) /\ DOMAIN Read(e) = 1..Len(b.whole)
  BY ReadIs, ReadLen
<1>3. \A i \in 1..Len(c.whole) :
          Read(d)[i] = [ID |-> d[c.whole[i] + 1], Length |-> d[c.whole[i] + 2],
                        Data |-> Lookup(c, d[c.whole[i] + 3], d[c.whole[i] + 2])]
  BY ReadIs
<1>4. \A i \in 1..Len(b.whole) :
          Read(e)[i] = [ID |-> e[b.whole[i] + 1], Length |-> e[b.whole[i] + 2],
                        Data |-> Lookup(b, e[b.whole[i] + 3], e[b.whole[i] + 2])]
  BY ReadIs
<1> HIDE DEF c, b
<1>5. /\ Len(c.whole) \in Nat /\ Len(b.whole) \in Nat /\ Len(c.whole) <= Len(b.whole)
      /\ c.whole \in Seq(Nat)
  BY <1>1, CursorIs DEF Extends
<1>6. ASSUME NEW i \in 1..Len(c.whole)
      PROVE  IF Read(d)[i].Data = << >>
             THEN Read(e)[i].ID = Read(d)[i].ID /\ Read(e)[i].Length = Read(d)[i].Length
             ELSE Read(e)[i] = Read(d)[i]
  <2> DEFINE p == c.whole[i]
             n == d[p + 2]
             r == d[p + 3]
  <2>1. b.whole[i] = p /\ i \in 1..Len(b.whole)
    BY <1>1, <1>5 DEF Extends
  <2>2. p \in Nat /\ p >= 1 /\ p + 3 <= Len(d) /\ Len(d) \in Nat
    BY <1>1, <1>5 DEF Sound, CANRecordSize
  <2>3. Read(d)[i] = [ID |-> d[p + 1], Length |-> n, Data |-> Lookup(c, r, n)]
    BY <1>3
  <2>4. Read(e)[i] = [ID |-> e[p + 1], Length |-> e[p + 2], Data |-> Lookup(b, e[p + 3], e[p + 2])]
    BY <1>4, <2>1
  <2> HIDE DEF p
  <2>5. p + 1 \in 1..Len(d) /\ p + 2 \in 1..Len(d) /\ p + 3 \in 1..Len(d)
    BY <2>2
  <2>6. e[p + 1] = d[p + 1] /\ e[p + 2] = n /\ e[p + 3] = r /\ n \in Nat
    <3>1. e[p + 1] = d[p + 1] /\ e[p + 2] = d[p + 2] /\ e[p + 3] = d[p + 3]
      BY <2>5 DEF Longer
    <3>2. d[p + 2] \in Nat
      BY <2>5
    <3>3. QED  BY <3>1, <3>2
  <2> HIDE DEF n, r
  <2>7. Read(e)[i] = [ID |-> d[p + 1], Length |-> n, Data |-> Lookup(b, r, n)]
    BY <2>4, <2>6
  <2>8. Lookup(c, r, n) # << >> => Lookup(b, r, n) = Lookup(c, r, n)
    BY <2>6, <1>1, LookupStays
  <2>9. QED  BY <2>3, <2>7, <2>8
<1>7. QED  BY <1>2, <1>5, <1>6 DEF Stays

-----------------------------------------------------------------------------
(* What AppendCAN writes of a frame, cell by cell.                          *)
Cell(f, off, i) ==
    IF i <= 4 THEN <<1, f.ID, Len(f.Data), off>>[i]
    ELSE IF i <= 7 THEN <<2, Len(f.Data) % 256, Len(f.Data) \div 256>>[i - 4]
    ELSE f.Data[i - 7]

Holds(d, p, f, off, n) == \A i \in 1..n : d[p + i - 1] = Cell(f, off, i)

LEMMA CellsAre ==
    ASSUME NEW f, NEW off
    PROVE  /\ Cell(f, off, 1) = 1 /\ Cell(f, off, 2) = f.ID
           /\ Cell(f, off, 3) = Len(f.Data) /\ Cell(f, off, 4) = off
           /\ Cell(f, off, 5) = 2 /\ Cell(f, off, 6) = Len(f.Data) % 256
           /\ Cell(f, off, 7) = Len(f.Data) \div 256
<1>1. /\ Cell(f, off, 1) = 1 /\ Cell(f, off, 2) = f.ID
      /\ Cell(f, off, 3) = Len(f.Data) /\ Cell(f, off, 4) = off
  BY DEF Cell
<1>2. Cell(f, off, 5) = 2 /\ Cell(f, off, 6) = Len(f.Data) % 256
      /\ Cell(f, off, 7) = Len(f.Data) \div 256
  BY DEF Cell
<1>3. QED  BY <1>1, <1>2

LEMMA DataCellsAre ==
    ASSUME NEW f, NEW off, NEW i \in Nat, i >= 1
    PROVE  Cell(f, off, 7 + i) = f.Data[i]
<1>1. ~ (7 + i <= 4) /\ ~ (7 + i <= 7) /\ 7 + i - 7 = i
  OBVIOUS
<1>2. QED  BY <1>1 DEF Cell

(* The reader at a record ... *)
LEMMA AtRecord ==
    ASSUME NEW d \in Seq(Nat), NEW c, Reaches(d, c), c.at <= Len(d), d[c.at] = 1
    PROVE  /\ Reaches(d, Step(d, c)) /\ Sound(d, Step(d, c))
           /\ Step(d, c).at = c.at + 4
           /\ Step(d, c).raw = c.raw /\ Step(d, c).offsets = c.offsets
           /\ Step(d, c).buf = c.buf
           /\ Step(d, c).whole = IF c.at + 3 > Len(d) THEN c.whole ELSE Append(c.whole, c.at)
<1>1. Sound(d, c) /\ c \in Cursor /\ c.at \in Nat /\ c.at >= 1
  BY ReachedKept, CursorIs DEF Sound
<1>2. ~ Ends(d, c.at) /\ ~ IsVLSD(d, c.at)
  BY <1>1 DEF Ends, IsVLSD, RecordIDPrimary, RecordIDVLSD
<1>3. Step(d, c) = Pass(d, c)
  BY <1>2 DEF Step
<1>4. Reaches(d, Step(d, c)) /\ Sound(d, Step(d, c))
  BY <1>1, ReachesStep, StepSound
<1>5. QED  BY <1>1, <1>2, <1>3, <1>4, PassRecord

(* ... and at a payload. *)
LEMMA AtPayload ==
    ASSUME NEW d \in Seq(Nat), NEW c, Reaches(d, c), c.at + 2 <= Len(d), d[c.at] = 2,
           NEW n \in {LengthAt(d, c.at + 1)}
    PROVE  /\ Reaches(d, Step(d, c)) /\ Sound(d, Step(d, c))
           /\ Step(d, c).at = c.at + 3 + n
           /\ Step(d, c).raw = c.raw + 2 + n
           /\ Step(d, c).whole = c.whole
           /\ DOMAIN Step(d, c).offsets = {c.raw} \cup DOMAIN c.offsets
           /\ Step(d, c).offsets[c.raw] = Len(c.buf)
           /\ Step(d, c).buf = IF c.at + 2 + n > Len(d) THEN c.buf
                               ELSE c.buf \o SubSeq(d, c.at + 3, c.at + 2 + n)
<1>1. Sound(d, c) /\ c \in Cursor /\ c.at \in Nat /\ c.at >= 1
  BY ReachedKept, CursorIs DEF Sound
<1>2. ~ Ends(d, c.at) /\ IsVLSD(d, c.at)
  BY <1>1 DEF Ends, IsVLSD, RecordIDPrimary, RecordIDVLSD, PrefixSize
<1>3. Step(d, c) = Pass(d, c)
  BY <1>2 DEF Step
<1>4. Reaches(d, Step(d, c)) /\ Sound(d, Step(d, c))
  BY <1>1, ReachesStep, StepSound
<1> DEFINE l == LengthAt(d, c.at + 1)
<1>5. /\ l \in Nat /\ c.at + 2 <= Len(d)
      /\ Pass(d, c) \in Cursor
      /\ Pass(d, c).at = c.at + 3 + l
      /\ Pass(d, c).raw = c.raw + 2 + l
      /\ Pass(d, c).whole = c.whole
      /\ DOMAIN Pass(d, c).offsets = {c.raw} \cup DOMAIN c.offsets
      /\ Pass(d, c).offsets[c.raw] = Len(c.buf)
      /\ \A r \in DOMAIN c.offsets : r # c.raw => Pass(d, c).offsets[r] = c.offsets[r]
      /\ Pass(d, c).buf = IF c.at + 2 + l > Len(d) THEN c.buf
                          ELSE c.buf \o SubSeq(d, c.at + 3, c.at + 2 + l)
  <2>1. c \in Cursor /\ c.at >= 1
    BY <1>1
  <2>2. QED  BY <2>1, <1>2, PassPayload
<1>6. n = l
  OBVIOUS
<1> HIDE DEF l
<1>7. QED  BY <1>3, <1>4, <1>5, <1>6

-----------------------------------------------------------------------------
(* A length fits into its two cells. *)
LEMMA LengthInCells == \A l \in Nat : (l % 256) + 256 * (l \div 256) = l
OBVIOUS

(* A frame cut short gives no entry, or one without data.                   *)
LEMMA CutEntry ==
    ASSUME NEW d \in Seq(Nat), NEW c, Reaches(d, c), NEW f, NEW off, f.Data \in Seq(Nat),
           NEW n \in Nat, n > 0, n < 7 + Len(f.Data), c.at + n = Len(d) + 1,
           c.raw = off, Holds(d, c.at, f, off, n)
    PROVE  \/ Walked(d).whole = c.whole
           \/ /\ Walked(d).whole = Append(c.whole, c.at)
              /\ n >= 4
              /\ Lookup(Walked(d), off, Len(f.Data)) = << >>
<1> DEFINE p == c.at
           L == Len(f.Data)
           b == Step(d, c)
<1>1. /\ Sound(d, c) /\ c \in Cursor /\ p \in Nat /\ p >= 1
      /\ L \in Nat /\ Len(d) \in Nat /\ off \in Nat
  BY ReachedKept, CursorIs DEF Sound
<1>2. p + n = Len(d) + 1 /\ n < 7 + L
  OBVIOUS
<1> HIDE DEF L
<1>3. ASSUME NEW i \in 1..n PROVE d[p + i - 1] = Cell(f, off, i)
  BY <1>3 DEF Holds
<1> HIDE DEF p
<1>4. d[p] = 1 /\ p <= Len(d)
  <2>1. 1 \in 1..n /\ p + 1 - 1 = p /\ p <= Len(d)
    BY <1>1, <1>2
  <2>2. d[p + 1 - 1] = Cell(f, off, 1)
    BY <2>1, <1>3
  <2>3. QED  BY <2>1, <2>2, CellsAre
<1>5. /\ Reaches(d, b) /\ Sound(d, b)
      /\ b.at = p + 4
      /\ b.raw = c.raw /\ b.offsets = c.offsets
      /\ b.buf = c.buf
      /\ b.whole = IF p + 3 > Len(d) THEN c.whole ELSE Append(c.whole, p)
  BY <1>4, AtRecord DEF p
<1> HIDE DEF b
<1>6. off \notin DOMAIN c.offsets
  <2>1. \A r \in DOMAIN c.offsets : r < off /\ r \in Nat
    BY <1>1, CursorIs DEF Sound
  <2>2. QED  BY <2>1, <1>1
<1>7. CASE n < 4
  <2>1. p + 3 > Len(d) /\ p + 4 > Len(d)
    BY <1>1, <1>2, <1>7
  <2>2. Ends(d, b.at)
    BY <2>1, <1>5 DEF Ends
  <2>3. Walked(d) = b
    BY <2>2, <1>5, ReachedKept
  <2>4. QED  BY <2>1, <2>3, <1>5
<1>8. CASE n >= 4 /\ n < 7
  <2>1. ~ (p + 3 > Len(d)) /\ p + 4 + 2 > Len(d) /\ (n = 4 => p + 4 > Len(d))
    BY <1>1, <1>2, <1>8
  <2>2. n # 4 => d[p + 4] = 2
    <3>1. n # 4 => 5 \in 1..n
      BY <1>8
    <3>2. p + 5 - 1 = p + 4
      BY <1>1
    <3>3. n # 4 => d[p + 5 - 1] = Cell(f, off, 5)
      BY <3>1, <1>3
    <3>4. QED  BY <3>2, <3>3, CellsAre
  <2>3. Ends(d, b.at)
    BY <2>1, <2>2, <1>5 DEF Ends, IsVLSD, RecordIDVLSD, PrefixSize
  <2>4. Walked(d) = b
    BY <2>3, <1>5, ReachedKept
  <2>5. Lookup(b, off, L) = << >>
    BY <1>5, <1>6 DEF Lookup
  <2>6. QED  BY <2>1, <2>4, <2>5, <1>5, <1>8 DEF p, L
<1>9. CASE n >= 7
  <2>1. ~ (p + 3 > Len(d)) /\ p + 4 + 2 <= Len(d) /\ p + 4 + 2 + L > Len(d)
        /\ p + 4 + 3 + L > Len(d) /\ L >= 1
    BY <1>1, <1>2, <1>9
  <2>2. d[p + 4] = 2 /\ LengthAt(d, p + 4 + 1) = L
    <3>1. 5 \in 1..n /\ 6 \in 1..n /\ 7 \in 1..n
      BY <1>9
    <3>2. p + 5 - 1 = p + 4 /\ p + 6 - 1 = p + 4 + 1 /\ p + 7 - 1 = p + 4 + 1 + 1
      BY <1>1
    <3>3. /\ d[p + 5 - 1] = Cell(f, off, 5) /\ d[p + 6 - 1] = Cell(f, off, 6)
          /\ d[p + 7 - 1] = Cell(f, off, 7)
      BY <3>1, <1>3
    <3>4. d[p + 4] = 2 /\ d[p + 4 + 1] = L % 256 /\ d[p + 4 + 1 + 1] = L \div 256
      BY <3>2, <3>3, CellsAre DEF L
    <3>5. (L % 256) + 256 * (L \div 256) = L
      BY <1>1, LengthInCells
    <3>6. QED  BY <3>4, <3>5 DEF LengthAt, Base
  <2> DEFINE a == Step(d, b)
  <2>3. /\ Reaches(d, a)
        /\ a.at = p + 4 + 3 + L
        /\ a.whole = b.whole
        /\ DOMAIN a.offsets = {b.raw} \cup DOMAIN b.offsets
        /\ a.offsets[b.raw] = Len(b.buf)
        /\ a.buf = IF p + 4 + 2 + L > Len(d) THEN b.buf
                   ELSE b.buf \o SubSeq(d, p + 4 + 3, p + 4 + 2 + L)
    <3>1. L \in {LengthAt(d, b.at + 1)} /\ b.at + 2 <= Len(d) /\ d[b.at] = 2
      BY <1>5, <2>1, <2>2
    <3>2. /\ Reaches(d, a)
          /\ a.at = b.at + 3 + L
          /\ a.whole = b.whole
          /\ DOMAIN a.offsets = {b.raw} \cup DOMAIN b.offsets
          /\ a.offsets[b.raw] = Len(b.buf)
          /\ a.buf = IF b.at + 2 + L > Len(d) THEN b.buf
                     ELSE b.buf \o SubSeq(d, b.at + 3, b.at + 2 + L)
      BY <1>5, <3>1, AtPayload
    <3> HIDE DEF a
    <3>3. QED  BY <3>2, <1>5
  <2> HIDE DEF a
  <2>4. Ends(d, a.at)
    BY <2>1, <2>3 DEF Ends
  <2>5. Walked(d) = a
    BY <2>3, <2>4, ReachedKept
  <2>6. Lookup(a, off, L) = << >>
    <3>1. a.offsets[off] = Len(c.buf) /\ a.buf = c.buf /\ Len(c.buf) \in Nat
      <4>1. off = b.raw /\ b.buf = c.buf
        BY <1>1, <1>5
      <4>2. a.offsets[b.raw] = Len(b.buf)
        BY <2>3
      <4>3. a.buf = b.buf
        BY <2>1, <2>3
      <4>4. c.buf \in Seq(Nat)
        BY <1>1, CursorIs
      <4>5. QED  BY <4>1, <4>2, <4>3, <4>4
    <3> DEFINE m == Len(c.buf)
    <3>2. ~ (m + L <= m)
      <4>1. m \in Nat
        BY <3>1
      <4> HIDE DEF m
      <4>2. QED  BY <4>1, <2>1, <1>1
    <3>3. ~ (a.offsets[off] + L <= Len(a.buf))
      BY <3>1, <3>2
    <3>4. QED  BY <3>3 DEF Lookup
  <2>7. Walked(d).whole = Append(c.whole, p)
    BY <2>1, <2>3, <2>5, <1>5
  <2>8. n >= 4
    BY <1>9
  <2>9. QED  BY <2>5, <2>6, <2>7, <2>8 DEF p, L
<1>10. n < 4 \/ (n >= 4 /\ n < 7) \/ n >= 7
  OBVIOUS
<1>11. QED  BY <1>7, <1>8, <1>9, <1>10

(* A frame that is all there gives its entry.                               *)
LEMMA FullEntry ==
    ASSUME NEW d \in Seq(Nat), NEW c, Reaches(d, c), NEW f, NEW off, f.Data \in Seq(Nat),
           c.at + 7 + Len(f.Data) = Len(d) + 1,
           c.raw = off, Holds(d, c.at, f, off, 7 + Len(f.Data))
    PROVE  \E a : /\ Reaches(d, a)
                  /\ a.at = Len(d) + 1
                  /\ a.raw = off + 2 + Len(f.Data)
                  /\ a.whole = Append(c.whole, c.at)
                  /\ Lookup(a, off, Len(f.Data)) = f.Data
                  /\ Extends(a, c)
<1> DEFINE p == c.at
           L == Len(f.Data)
           b == Step(d, c)
<1>1. /\ Sound(d, c) /\ c \in Cursor /\ p \in Nat /\ p >= 1
      /\ L \in Nat /\ Len(d) \in Nat /\ off \in Nat
  BY ReachedKept, CursorIs DEF Sound
<1>2. p + 7 + L = Len(d) + 1
  OBVIOUS
<1>3. \A i \in 1..(7 + L) : d[p + i - 1] = Cell(f, off, i)
  BY DEF Holds
<1> HIDE DEF L
<1> HIDE DEF p
<1>4. d[p] = 1 /\ p <= Len(d) /\ ~ (p + 3 > Len(d))
  <2>1. 1 \in 1..(7 + L) /\ p + 1 - 1 = p /\ p <= Len(d) /\ ~ (p + 3 > Len(d))
    BY <1>1, <1>2
  <2>2. d[p + 1 - 1] = Cell(f, off, 1)
    BY <2>1, <1>3
  <2>3. QED  BY <2>1, <2>2, CellsAre
<1>5. /\ Reaches(d, b) /\ Sound(d, b)
      /\ b.at = p + 4
      /\ b.raw = c.raw /\ b.offsets = c.offsets
      /\ b.buf = c.buf
      /\ b.whole = Append(c.whole, p)
  <2>1. /\ Reaches(d, b) /\ Sound(d, b)
        /\ b.at = p + 4
        /\ b.raw = c.raw /\ b.offsets = c.offsets
        /\ b.buf = c.buf
        /\ b.whole = IF p + 3 > Len(d) THEN c.whole ELSE Append(c.whole, p)
    BY <1>4, AtRecord DEF p
  <2>2. QED  BY <2>1, <1>4
<1>6. Extends(b, c)
  BY <1>1, StepSound
<1> HIDE DEF b
<1> DEFINE a == Step(d, b)
<1>7. d[p + 4] = 2 /\ LengthAt(d, p + 4 + 1) = L
  <2>1. 5 \in 1..(7 + L) /\ 6 \in 1..(7 + L) /\ 7 \in 1..(7 + L)
    BY <1>1
  <2>2. p + 5 - 1 = p + 4 /\ p + 6 - 1 = p + 4 + 1 /\ p + 7 - 1 = p + 4 + 1 + 1
    BY <1>1
  <2>3. /\ d[p + 5 - 1] = Cell(f, off, 5) /\ d[p + 6 - 1] = Cell(f, off, 6)
        /\ d[p + 7 - 1] = Cell(f, off, 7)
    BY <2>1, <1>3
  <2>4. d[p + 4] = 2 /\ d[p + 4 + 1] = L % 256 /\ d[p + 4 + 1 + 1] = L \div 256
    BY <2>2, <2>3, CellsAre DEF L
  <2>5. (L % 256) + 256 * (L \div 256) = L
    BY <1>1, LengthInCells
  <2>6. QED  BY <2>4, <2>5 DEF LengthAt, Base
<1>8. p + 4 + 2 <= Len(d) /\ ~ (p + 4 + 2 + L > Len(d))
  BY <1>1, <1>2
<1>9. /\ Reaches(d, a) /\ Extends(a, b) /\ Sound(d, a)
      /\ a.at = b.at + 3 + L
      /\ a.raw = b.raw + 2 + L
      /\ a.whole = b.whole
      /\ DOMAIN a.offsets = {b.raw} \cup DOMAIN b.offsets
      /\ a.offsets[b.raw] = Len(b.buf)
      /\ a.buf = IF b.at + 2 + L > Len(d) THEN b.buf
                 ELSE b.buf \o SubSeq(d, b.at + 3, b.at + 2 + L)
  <2>1. L \in {LengthAt(d, b.at + 1)} /\ b.at + 2 <= Len(d) /\ d[b.at] = 2
    BY <1>5, <1>7, <1>8
  <2>2. Extends(a, b)
    BY <1>5, StepSound
  <2>3. QED  BY <1>5, <2>1, <2>2, AtPayload
<1> HIDE DEF a
<1> DEFINE s == SubSeq(d, p + 7, p + 6 + L)
<1>10. s \in Seq(Nat) /\ Len(s) = L /\ \A i \in 1..L : s[i] = d[p + 7 + i - 1]
  <2>1. p + 7 \in Nat /\ p + 7 >= 1 /\ p + 7 + L <= Len(d) + 1
        /\ p + 6 + L \in {p + 7 + L - 1}
    BY <1>1, <1>2
  <2>2. QED  BY <1>1, <2>1, PayloadIn
<1>11. a.buf = c.buf \o s
  <2>1. b.at + 3 = p + 7 /\ b.at + 2 + L = p + 6 + L /\ ~ (b.at + 2 + L > Len(d))
    BY <1>1, <1>5, <1>8
  <2>2. QED  BY <2>1, <1>5, <1>9
<1> HIDE DEF s
<1>12. s = f.Data
  <2>1. ASSUME NEW i \in 1..L PROVE s[i] = f.Data[i]
    <3>1. 7 + i \in 1..(7 + L) /\ p + (7 + i) - 1 = p + 7 + i - 1 /\ i \in Nat /\ i >= 1
      BY <1>1
    <3>2. d[p + (7 + i) - 1] = Cell(f, off, 7 + i)
      BY <3>1, <1>3
    <3>3. Cell(f, off, 7 + i) = f.Data[i]
      BY <3>1, DataCellsAre
    <3>4. QED  BY <3>1, <3>2, <3>3, <1>10
  <2>2. Len(s) = Len(f.Data) /\ \A i \in 1..Len(s) : s[i] = f.Data[i]
    BY <2>1, <1>10 DEF L
  <2>3. QED  BY <2>2, <1>10, SeqEqual
<1>13. Lookup(a, off, L) = f.Data
  <2> DEFINE x == c.buf
             m == Len(x)
  <2>1. x \in Seq(Nat) /\ m \in Nat /\ a.buf = x \o s /\ a.offsets[off] = m
        /\ off \in DOMAIN a.offsets
    <3>1. x \in Seq(Nat)
      BY <1>1, CursorIs
    <3>2. b.raw = off /\ Len(b.buf) = m
      BY <1>5
    <3>3. a.offsets[off] = m /\ off \in DOMAIN a.offsets
      BY <3>2, <1>9
    <3>4. QED  BY <3>1, <3>3, <1>11
  <2>2. Len(a.buf) = m + L
    <3> HIDE DEF x
    <3>1. Len(x \o s) = Len(x) + Len(s)
      BY <2>1, <1>10, Concatenation
    <3>2. QED  BY <2>1, <3>1, <1>10
  <2>3. Lookup(a, off, L) = SubSeq(a.buf, m + 1, m + L)
    BY <2>1, <2>2, <1>1 DEF Lookup
  <2>4. SubSeq(x \o s, Len(x) + 1, Len(x) + Len(s)) = s
    <3>1. x \o s \in Seq(Nat) /\ Len(x \o s) = Len(x) + Len(s)
          /\ \A i \in 1..Len(s) : (x \o s)[Len(x) + i] = s[i]
      <4> HIDE DEF x
      <4>1. x \in Seq(Nat) /\ s \in Seq(Nat)
        BY <2>1, <1>10
      <4>2. QED  BY <4>1, Concatenation
    <3> DEFINE y == x \o s
               k == Len(x)
               l == Len(s)
               t == SubSeq(y, k + 1, k + l)
    <3>2. y \in Seq(Nat) /\ k \in Nat /\ l \in Nat /\ Len(y) = k + l
          /\ \A i \in 1..l : y[k + i] = s[i]
      BY <3>1, <2>1, <1>10
    <3> HIDE DEF x, y, k, l
    <3>3. k + 1 \in Nat /\ k + 1 >= 1 /\ (k + 1) + l <= Len(y) + 1
          /\ k + l \in {(k + 1) + l - 1}
      BY <3>2
    <3>4. t \in Seq(Nat) /\ Len(t) = l /\ \A i \in 1..l : t[i] = y[k + 1 + i - 1]
      BY <3>2, <3>3, PayloadIn
    <3> HIDE DEF t
    <3>5. ASSUME NEW i \in 1..l PROVE t[i] = s[i]
      <4>1. k + 1 + i - 1 = k + i
        BY <3>2
      <4>2. QED  BY <4>1, <3>2, <3>4
    <3>6. t = s
      <4>1. Len(t) = Len(s) /\ \A i \in 1..Len(t) : t[i] = s[i]
        BY <3>4, <3>5 DEF l
      <4>2. QED  BY <4>1, <3>4, <1>10, SeqEqual
    <3>7. QED  BY <3>6 DEF t, y, k, l
  <2>5. QED  BY <2>1, <2>3, <2>4, <1>10, <1>12
<1>14. Extends(a, c)
  <2>1. a \in Cursor /\ b \in Cursor /\ c \in Cursor
    BY <1>1, <1>5, <1>9 DEF Sound
  <2>2. QED  BY <2>1, <1>6, <1>9, ExtendsTransitive
<1>15. a.at = Len(d) + 1 /\ a.raw = off + 2 + L
  BY <1>1, <1>2, <1>5, <1>9
<1>16. QED  BY <1>5, <1>9, <1>13, <1>14, <1>15 DEF p, L

-----------------------------------------------------------------------------
(* The length in the head of DT says nothing, or how much data there is;    *)
(* and nothing is appended before the metadata is complete.                 *)
LengthInv ==
    /\ \/ length = HeaderSize
       \/ length = HeaderSize + Len(dt) /\ pc \in {"magic", "flag", "closed", "crashed"}
    /\ blocks < Blocks => intact = 0 /\ pc \in {"metadata", "closed", "crashed"}

LEMMA LengthInit == Init => LengthInv
BY DEF Init, LengthInv

LEMMA LengthStep ==
    ASSUME IInv, LengthInv, [Next]_vars
    PROVE  LengthInv' /\ blocks <= blocks'
<1>1. /\ dt \in Seq(Nat) /\ Len(dt) \in Nat /\ blocks \in Nat /\ blocks <= Blocks /\ Blocks \in Nat
      /\ pc \in {"metadata", "idle", "record", "payload", "length", "magic",
                 "flag", "closed", "crashed"}
  BY DEF IInv, FileTypes, HandlerTypes, Blocks
<1>2. CASE WriteMetadata
  <2>1. pc = "metadata" /\ blocks' = blocks + 1
        /\ pc' = (IF blocks' = Blocks THEN "idle" ELSE pc)
        /\ UNCHANGED <<length, dt, intact>>
    BY <1>2 DEF WriteMetadata, stream
  <2>2. blocks < Blocks
    BY <2>1 DEF IInv, HandlerTypes
  <2>3. blocks' <= Blocks /\ blocks <= blocks' /\ blocks' \in Nat
    BY <2>1, <2>2, <1>1
  <2>4. intact = 0 /\ length = HeaderSize
    BY <2>1, <2>2 DEF LengthInv
  <2>5. blocks' < Blocks => pc' = "metadata"
    BY <2>1, <2>3, <1>1
  <2>6. QED  BY <2>1, <2>3, <2>4, <2>5 DEF LengthInv
<1>3. CASE Take
  <2>1. pc = "idle" /\ pc' \in {"idle", "record"} /\ UNCHANGED <<blocks, length, dt, intact>>
    BY <1>3 DEF Take, head, stream
  <2>2. QED  BY <2>1, <1>1 DEF LengthInv
<1>4. CASE WriteRecord \/ WritePayload
  <2>1. pc \in {"record", "payload"} /\ UNCHANGED <<blocks, length>>
    BY <1>4 DEF WriteRecord, WritePayload, head
  <2>2. ~ (blocks < Blocks) /\ length = HeaderSize
    BY <2>1 DEF LengthInv
  <2>3. QED  BY <2>1, <2>2, <1>1 DEF LengthInv
<1>5. CASE Close \/ WriteMagic \/ ClearFlag
  <2>1. /\ UNCHANGED <<blocks, length, dt, intact>>
        /\ \/ pc = "idle" /\ pc' \in {"length", "closed"}
           \/ pc = "magic" /\ pc' = "flag"
           \/ pc = "flag" /\ pc' = "closed"
    BY <1>5 DEF Close, WriteMagic, ClearFlag, head, stream
  <2>2. ~ (blocks < Blocks)
    BY <2>1 DEF LengthInv
  <2>3. QED  BY <2>1, <2>2, <1>1 DEF LengthInv
<1>6. CASE WriteLength
  <2>1. /\ pc = "length" /\ pc' = "magic" /\ length' = HeaderSize + Len(dt)
        /\ UNCHANGED <<blocks, dt, intact>>
    BY <1>6 DEF WriteLength, stream
  <2>2. ~ (blocks < Blocks)
    BY <2>1 DEF LengthInv
  <2>3. QED  BY <2>1, <2>2, <1>1 DEF LengthInv
<1>7. CASE Fail \/ Crash
  <2>1. /\ CutShort /\ UNCHANGED <<blocks, length, intact>>
        /\ pc' \in {"idle", "closed", "crashed"}
        /\ pc' = "idle" => Appending
    BY <1>7 DEF Fail, Crash, CutShort, head, Appending
  <2>2. ~ Appending => dt' = dt
    BY <2>1, CutShortAppends
  <2>3. Appending => ~ (blocks < Blocks) /\ length = HeaderSize
    BY DEF LengthInv, Appending
  <2>4. blocks <= blocks'
    BY <2>1, <1>1
  <2>5. CASE Appending
    BY <2>1, <2>3, <2>4, <2>5 DEF LengthInv
  <2>6. CASE ~ Appending
    <3>1. pc' \in {"closed", "crashed"} /\ dt' = dt
      BY <2>1, <2>2, <2>6
    <3>2. QED  BY <2>1, <2>4, <3>1 DEF LengthInv
  <2>7. QED  BY <2>5, <2>6
<1>8. CASE UNCHANGED vars
  BY <1>1, <1>8 DEF vars, LengthInv, head, stream
<1>9. QED  BY <1>2, <1>3, <1>4, <1>5, <1>6, <1>7, <1>8 DEF Next

(* So the reader sees all the data, or none.                                *)
LEMMA DataSeen ==
    ASSUME dt \in Seq(Nat), LengthInv
    PROVE  DTData = IF blocks < Blocks THEN << >> ELSE dt
<1>1. Len(dt) \in Nat /\ length \in {24, 24 + Len(dt)}
  BY DEF LengthInv, HeaderSize
<1>2. length <= 24 + Len(dt) /\ ~ (length > 24 + Len(dt))
  BY <1>1
<1>3. CASE length = 24
  BY <1>2, <1>3 DEF DTData, HeaderSize
<1>4. CASE length # 24
  <2>1. length - 24 = Len(dt)
    BY <1>1, <1>4
  <2>2. SubSeq(dt, 1, Len(dt)) = dt
    BY SubSeqFull
  <2>3. QED  BY <1>2, <1>4, <2>1, <2>2 DEF DTData, HeaderSize
<1>5. QED  BY <1>3, <1>4

LEMMA SpecLength == Spec => [](IInv /\ LengthInv)
<1>1. Init => IInv /\ LengthInv
  BY InitIInv, LengthInit
<1>2. IInv /\ LengthInv /\ [Next]_vars => (IInv /\ LengthInv)'
  BY StepIInv, LengthStep
<1>3. QED  BY <1>1, <1>2, PTL DEF Spec

LEMMA StepStays ==
    ASSUME IInv, LengthInv, [Next]_vars
    PROVE  Stays(Read(DTData), Read(DTData'))
<1>1. dt \in Seq(Nat) /\ dt' \in Seq(Nat) /\ Longer(dt', dt)
  BY StepIInv DEF IInv, FileTypes, Appends, Longer
<1>2. DTData = IF blocks < Blocks THEN << >> ELSE dt
  BY <1>1, DataSeen
<1>3. DTData' = IF blocks' < Blocks THEN << >> ELSE dt'
  <2>1. LengthInv'
    BY LengthStep
  <2>2. (dt \in Seq(Nat) /\ LengthInv => (DTData = IF blocks < Blocks THEN << >> ELSE dt))'
    BY DataSeen, PTL
  <2>3. QED  BY <1>1, <2>1, <2>2
<1>4. blocks' < Blocks => blocks < Blocks
  <2>1. blocks <= blocks' /\ blocks \in Nat /\ blocks' \in Nat /\ Blocks \in Nat
    BY LengthStep, StepIInv DEF IInv, FileTypes, Blocks
  <2>2. QED  BY <2>1
<1>5. DTData \in Seq(Nat) /\ DTData' \in Seq(Nat) /\ Longer(DTData', DTData)
  <2>1. << >> \in Seq(Nat) /\ Len(<< >>) = 0
    OBVIOUS
  <2>2. \A s \in Seq(Nat) : Longer(s, << >>)
    BY <2>1 DEF Longer
  <2>3. QED  BY <1>1, <1>2, <1>3, <1>4, <2>1, <2>2
<1>6. QED  BY <1>5, ReadStays

(***************************************************************************)
(* What the reader found in a file it finds in every longer one: a walk    *)
(* over more cells goes the same way up to where the shorter one ended,    *)
(* so no later write, cut short or not, changes an entry.                  *)
(***************************************************************************)
THEOREM Mf4ReadsStay == Spec => ReadsStay
<1> DEFINE A == \A old \in {DTData}, new \in {DTData'} : Stays(Read(old), Read(new))
<1>1. IInv /\ LengthInv /\ [Next]_vars => [A]_vars
  BY StepStays
<1>2. QED  BY SpecLength, <1>1, PTL DEF Spec, ReadsStay

-----------------------------------------------------------------------------
(* What the reader makes of a record it has. *)
EntryAt(d, c, p) ==
    [ID |-> d[p + 1], Length |-> d[p + 2], Data |-> Lookup(c, d[p + 3], d[p + 2])]

(* The reader comes by where it has the first m of the frames fs. *)
Behind(d, c, m, fs) ==
    /\ Reaches(d, c) /\ c.at <= Len(d) + 1 /\ Len(c.whole) = m
    /\ \A i \in 1..m : EntryAt(d, c, c.whole[i]) = EntryOf(fs[i])

(* An entry with its data stays. *)
LEMMA EntryStays ==
    ASSUME NEW d \in Seq(Nat), NEW c \in Cursor, NEW b \in Cursor, Extends(b, c),
           NEW p, NEW f \in Frame, EntryAt(d, c, p) = EntryOf(f)
    PROVE  EntryAt(d, b, p) = EntryOf(f)
<1> DEFINE r == d[p + 3]
           n == d[p + 2]
<1>1. Lookup(c, r, n) = f.Data /\ d[p + 1] = f.ID /\ n = Len(f.Data)
  BY DEF EntryAt, EntryOf
<1>2. f.Data \in Seq(Nat) /\ n \in Nat
  <2>1. f.Data \in Seq(Nat)
    BY DataAreCells
  <2>2. QED  BY <1>1, <2>1
<1> HIDE DEF r, n
<1>3. Lookup(b, r, n) = f.Data
  <2>1. CASE Lookup(c, r, n) = << >>
    <3>1. n = 0
      BY <1>1, <1>2, <2>1
    <3>2. QED  BY <3>1, <2>1, <1>1, LookupNothing
  <2>2. CASE Lookup(c, r, n) # << >>
    BY <1>1, <1>2, <2>2, LookupStays
  <2>3. QED  BY <2>1, <2>2
<1>4. QED  BY <1>1, <1>3 DEF EntryAt, EntryOf, r, n

(* More cells, and frames that begin as the old ones do, change nothing.    *)
LEMMA BehindOn ==
    ASSUME NEW d \in Seq(Nat), NEW e \in Seq(Nat), Longer(e, d),
           NEW c, NEW m \in Nat, NEW fs, NEW gs, Behind(d, c, m, fs),
           \A i \in 1..m : gs[i] = fs[i]
    PROVE  Behind(e, c, m, gs)
<1>1. Reaches(d, c) /\ c.at <= Len(d) + 1 /\ Len(c.whole) = m /\ Sound(d, c)
  BY ReachedKept DEF Behind
<1>2. Reaches(e, c)
  BY <1>1, ReachesOn
<1>3. c.at <= Len(e) + 1
  <2>1. c.at \in Nat /\ Len(d) \in Nat /\ Len(e) \in Nat /\ Len(d) <= Len(e)
    BY <1>1, CursorIs DEF Sound, Longer
  <2>2. QED  BY <2>1, <1>1
<1>4. ASSUME NEW i \in 1..m PROVE EntryAt(e, c, c.whole[i]) = EntryOf(gs[i])
  <2> DEFINE p == c.whole[i]
  <2>1. p \in Nat /\ p >= 1 /\ p + 3 <= Len(d) /\ Len(d) \in Nat
    <3>1. c.whole \in Seq(Nat)
      BY <1>1, CursorIs DEF Sound
    <3>2. QED  BY <3>1, <1>1 DEF Sound, CANRecordSize
  <2>2. EntryAt(d, c, p) = EntryOf(gs[i])
    BY DEF Behind
  <2> HIDE DEF p
  <2>3. p + 1 \in 1..Len(d) /\ p + 2 \in 1..Len(d) /\ p + 3 \in 1..Len(d)
    BY <2>1
  <2>4. e[p + 1] = d[p + 1] /\ e[p + 2] = d[p + 2] /\ e[p + 3] = d[p + 3]
    BY <2>3 DEF Longer
  <2>5. EntryAt(e, c, p) = EntryAt(d, c, p)
    BY <2>4 DEF EntryAt
  <2>6. QED  BY <2>2, <2>5 DEF p
<1>5. QED  BY <1>1, <1>2, <1>3, <1>4 DEF Behind

(* One more frame that is all there is one more the reader has.             *)
LEMMA BehindMore ==
    ASSUME NEW d \in Seq(Nat), NEW c, NEW m \in Nat, NEW fs \in Seq(Frame), Behind(d, c, m, fs),
           m + 1 <= Len(fs), NEW off \in {c.raw},
           c.at + 7 + Len(fs[m + 1].Data) = Len(d) + 1,
           Holds(d, c.at, fs[m + 1], off, 7 + Len(fs[m + 1].Data))
    PROVE  \E a : /\ Behind(d, a, m + 1, fs)
                  /\ a.at = Len(d) + 1
                  /\ a.raw = off + 2 + Len(fs[m + 1].Data)
<1> DEFINE f == fs[m + 1]
<1>1. f \in Frame /\ Len(fs) \in Nat /\ \A i \in 1..m : fs[i] \in Frame
  OBVIOUS
<1>2. f.Data \in Seq(Nat)
  BY <1>1, DataAreCells
<1>3. Reaches(d, c) /\ Len(c.whole) = m /\ Sound(d, c) /\ c \in Cursor /\ c.whole \in Seq(Nat)
      /\ c.at \in Nat /\ c.at >= 1
  BY ReachedKept, CursorIs DEF Behind, Sound
<1>4. c.at + 7 + Len(f.Data) = Len(d) + 1 /\ Holds(d, c.at, f, off, 7 + Len(f.Data))
  OBVIOUS
<1>5. \A i \in 1..m : EntryAt(d, c, c.whole[i]) = EntryOf(fs[i])
  BY DEF Behind
<1> DEFINE L == Len(f.Data)
<1> HIDE DEF f
<1>6. PICK a : /\ Reaches(d, a)
               /\ a.at = Len(d) + 1
               /\ a.raw = off + 2 + Len(f.Data)
               /\ a.whole = Append(c.whole, c.at)
               /\ Lookup(a, off, Len(f.Data)) = f.Data
               /\ Extends(a, c)
  BY <1>2, <1>3, <1>4, FullEntry
<1>7. Len(a.whole) = m + 1 /\ a.whole[m + 1] = c.at /\ \A i \in 1..m : a.whole[i] = c.whole[i]
  BY <1>3, <1>6
<1>8. a \in Cursor
  BY <1>6, ReachedKept DEF Sound
<1>9. ASSUME NEW i \in 1..m PROVE EntryAt(d, a, a.whole[i]) = EntryOf(fs[i])
  <2>1. EntryAt(d, c, c.whole[i]) = EntryOf(fs[i]) /\ fs[i] \in Frame /\ a.whole[i] = c.whole[i]
    BY <1>1, <1>5, <1>7
  <2>2. EntryAt(d, a, c.whole[i]) = EntryOf(fs[i])
    BY <2>1, <1>3, <1>6, <1>8, EntryStays
  <2>3. QED  BY <2>1, <2>2
<1>10. EntryAt(d, a, c.at) = EntryOf(f)
  <2> DEFINE p == c.at
  <2>1. L \in Nat /\ 2 \in 1..(7 + L) /\ 3 \in 1..(7 + L) /\ 4 \in 1..(7 + L)
    BY <1>2
  <2>2. p + 2 - 1 = p + 1 /\ p + 3 - 1 = p + 2 /\ p + 4 - 1 = p + 3
    BY <1>3
  <2>3. /\ d[p + 2 - 1] = Cell(f, off, 2) /\ d[p + 3 - 1] = Cell(f, off, 3)
        /\ d[p + 4 - 1] = Cell(f, off, 4)
    BY <1>4, <2>1 DEF Holds
  <2>6. Cell(f, off, 2) = f.ID /\ Cell(f, off, 3) = Len(f.Data) /\ Cell(f, off, 4) = off
    BY CellsAre
  <2>4. d[p + 1] = f.ID /\ d[p + 2] = Len(f.Data) /\ d[p + 3] = off
    <3> HIDE DEF L, p
    <3>1. QED  BY <2>2, <2>3, <2>6
  <2>5. QED  BY <2>4, <1>6 DEF EntryAt, EntryOf
<1>11. \A i \in 1..(m + 1) : EntryAt(d, a, a.whole[i]) = EntryOf(fs[i])
  <2>1. ASSUME NEW i \in 1..(m + 1) PROVE EntryAt(d, a, a.whole[i]) = EntryOf(fs[i])
    <3>1. i \in 1..m \/ i = m + 1
      OBVIOUS
    <3>2. CASE i = m + 1
      BY <3>2, <1>7, <1>10 DEF f
    <3>3. QED  BY <3>1, <3>2, <1>9
  <2>2. QED  BY <2>1
<1>12. a.at <= Len(d) + 1
  BY <1>6
<1>13. Behind(d, a, m + 1, fs)
  BY <1>6, <1>7, <1>11, <1>12 DEF Behind
<1>14. QED  BY <1>6, <1>13 DEF f

(* The reader gives what it comes by.                                       *)
LEMMA ReadBehind ==
    ASSUME NEW d \in Seq(Nat), NEW c, NEW m \in Nat, NEW fs, Behind(d, c, m, fs),
           \A i \in 1..m : fs[i] \in Frame
    PROVE  /\ Len(Read(d)) >= m
           /\ \A i \in 1..m : Read(d)[i] = EntryOf(fs[i])
<1> DEFINE b == Walked(d)
<1>1. /\ Reaches(d, c) /\ Len(c.whole) = m /\ c \in Cursor /\ b \in Cursor
      /\ Extends(b, c)
  BY ReachedKept, WalkedEnds DEF Behind, Sound
<1>2. Len(Read(d)) = Len(b.whole)
  BY ReadLen
<1>3. \A i \in 1..Len(b.whole) : Read(d)[i] = EntryAt(d, b, b.whole[i])
  BY ReadIs DEF EntryAt
<1> HIDE DEF b
<1>4. Len(b.whole) \in Nat /\ m <= Len(b.whole) /\ \A i \in 1..m : b.whole[i] = c.whole[i]
  BY <1>1, CursorIs DEF Extends
<1>5. ASSUME NEW i \in 1..m PROVE Read(d)[i] = EntryOf(fs[i])
  <2>1. EntryAt(d, c, c.whole[i]) = EntryOf(fs[i]) /\ fs[i] \in Frame
    BY DEF Behind
  <2>2. EntryAt(d, b, c.whole[i]) = EntryOf(fs[i])
    BY <2>1, <1>1, EntryStays
  <2>3. i \in 1..Len(b.whole) /\ b.whole[i] = c.whole[i]
    BY <1>4
  <2>4. QED  BY <1>3, <2>2, <2>3
<1>6. QED  BY <1>2, <1>4, <1>5

(* With a frame cut short after the first m, one more entry at most, with   *)
(* no data.                                                                 *)
LEMMA ReadCut ==
    ASSUME NEW d \in Seq(Nat), NEW c, NEW m \in Nat, Reaches(d, c), Len(c.whole) = m,
           NEW f \in Frame, NEW off, NEW n \in Nat, c.raw = off, c.at + n = Len(d) + 1,
           n > 0 => n < 7 + Len(f.Data) /\ Holds(d, c.at, f, off, n),
           Len(Read(d)) > m
    PROVE  /\ Len(Read(d)) = m + 1
           /\ Read(d)[m + 1] = [EntryOf(f) EXCEPT !.Data = << >>]
<1> DEFINE b == Walked(d)
<1>1. Sound(d, c) /\ c \in Cursor /\ c.at \in Nat /\ c.at >= 1 /\ c.whole \in Seq(Nat)
      /\ Len(d) \in Nat
  BY ReachedKept, CursorIs DEF Sound
<1>2. Len(Read(d)) = Len(b.whole)
  BY ReadLen
<1>3. \A i \in 1..Len(b.whole) : Read(d)[i] = EntryAt(d, b, b.whole[i])
  BY ReadIs DEF EntryAt
<1>4. f.Data \in Seq(Nat) /\ Len(f.Data) \in Nat
  <2>1. f.Data \in Seq(Nat)
    BY DataAreCells
  <2>2. QED  BY <2>1
<1>5. b.whole # c.whole
  <2>1. Len(b.whole) > m
    BY <1>2
  <2>2. QED  BY <2>1
<1>6. n > 0
  <2>1. CASE n = 0
    <3>1. c.at > Len(d)
      BY <2>1, <1>1
    <3>2. Ends(d, c.at)
      BY <3>1 DEF Ends
    <3>3. b = c
      BY <3>2, ReachedKept
    <3>4. QED  BY <3>3, <1>5
  <2>2. QED  BY <2>1
<1>7. n < 7 + Len(f.Data) /\ Holds(d, c.at, f, off, n)
  BY <1>6
<1>8. /\ b.whole = Append(c.whole, c.at)
      /\ n >= 4
      /\ Lookup(b, off, Len(f.Data)) = << >>
  BY <1>4, <1>5, <1>6, <1>7, CutEntry
<1> HIDE DEF b
<1>9. Len(b.whole) = m + 1 /\ b.whole[m + 1] = c.at
  BY <1>1, <1>8
<1> DEFINE p == c.at
<1>10. d[p + 1] = f.ID /\ d[p + 2] = Len(f.Data) /\ d[p + 3] = off
  <2>1. 2 \in 1..n /\ 3 \in 1..n /\ 4 \in 1..n
    BY <1>8
  <2>2. p + 2 - 1 = p + 1 /\ p + 3 - 1 = p + 2 /\ p + 4 - 1 = p + 3
    BY <1>1
  <2>3. /\ d[p + 2 - 1] = Cell(f, off, 2) /\ d[p + 3 - 1] = Cell(f, off, 3)
        /\ d[p + 4 - 1] = Cell(f, off, 4)
    BY <1>7, <2>1 DEF Holds
  <2>4. d[p + 1] = Cell(f, off, 2) /\ d[p + 2] = Cell(f, off, 3) /\ d[p + 3] = Cell(f, off, 4)
    BY <2>2, <2>3
  <2>5. Cell(f, off, 2) = f.ID /\ Cell(f, off, 3) = Len(f.Data) /\ Cell(f, off, 4) = off
    BY CellsAre
  <2> HIDE DEF p
  <2>6. QED  BY <2>4, <2>5, Zenon
<1>11. Read(d)[m + 1] = EntryAt(d, b, p)
  BY <1>3, <1>9
<1>12. EntryAt(d, b, p) = [ID |-> f.ID, Length |-> Len(f.Data), Data |-> << >>]
  BY <1>8, <1>10 DEF EntryAt
<1>13. [EntryOf(f) EXCEPT !.Data = << >>] = [ID |-> f.ID, Length |-> Len(f.Data), Data |-> << >>]
  BY DEF EntryOf
<1>14. QED  BY <1>2, <1>9, <1>11, <1>12, <1>13

-----------------------------------------------------------------------------
(* Where the file goes on from there while no write has failed: with the    *)
(* first n cells of the frame that is being appended.                       *)
Ahead(c, n) ==
    /\ c.raw = vlsdOffset
    /\ c.at + n = Len(dt) + 1
    /\ Len(frames) \in {intact, intact + 1}
    /\ Appending => Len(frames) = intact + 1 /\ frame = frames[intact + 1]
    /\ pc \notin {"record", "payload", "crashed"} => Len(frames) = intact
    /\ pc = "payload" => n = 4
    /\ pc \notin {"payload", "crashed"} => n = 0
    /\ n > 0 => /\ Len(frames) = intact + 1
                /\ n < 7 + Len(frames[intact + 1].Data)
                /\ Holds(dt, c.at, frames[intact + 1], vlsdOffset, n)

Found ==
    \E c : /\ Behind(dt, c, intact, frames)
           /\ faults = 0 => \E n \in Nat : Ahead(c, n)

LEMMA FoundInit == Init => Found
<1> SUFFICES ASSUME Init PROVE Found
  OBVIOUS
<1>1. /\ dt = << >> /\ vlsdOffset = 0 /\ frames = << >> /\ intact = 0 /\ pc = "metadata"
      /\ Len(<< >>) = 0
  BY DEF Init
<1>2. Reaches(dt, Outset)
  BY WalkIs DEF Reaches
<1>3. Outset.at = 1 /\ Outset.raw = 0 /\ Len(Outset.whole) = 0
  BY DEF Outset
<1>4. Behind(dt, Outset, intact, frames)
  BY <1>1, <1>2, <1>3 DEF Behind
<1>5. Ahead(Outset, 0)
  BY <1>1, <1>3 DEF Ahead, Appending
<1>6. QED  BY <1>4, <1>5 DEF Found

(* More of the cells. *)
LEMMA HoldsMore ==
    ASSUME NEW d \in Seq(Nat), NEW s \in Seq(Nat), NEW p \in Nat, p >= 1, NEW n \in Nat,
           p + n = Len(d) + 1, NEW f, NEW off, Holds(d, p, f, off, n),
           \A i \in 1..Len(s) : s[i] = Cell(f, off, n + i)
    PROVE  /\ Holds(d \o s, p, f, off, n + Len(s))
           /\ p + (n + Len(s)) = Len(d \o s) + 1
<1> DEFINE e == d \o s
           l == Len(s)
           k == Len(d)
<1>1. /\ e \in Seq(Nat) /\ Len(e) = k + l
      /\ \A i \in 1..k : e[i] = d[i]
      /\ \A i \in 1..l : e[k + i] = s[i]
  BY Concatenation
<1>2. k \in Nat /\ l \in Nat /\ p + n = k + 1
  OBVIOUS
<1>3. /\ \A i \in 1..l : s[i] = Cell(f, off, n + i)
      /\ \A i \in 1..n : d[p + i - 1] = Cell(f, off, i)
  BY DEF Holds
<1> HIDE DEF e, l, k
<1>4. ASSUME NEW i \in 1..(n + l) PROVE e[p + i - 1] = Cell(f, off, i)
  <2>1. CASE i <= n
    <3>1. p + i - 1 \in 1..k /\ i \in 1..n
      BY <1>2, <2>1
    <3>2. e[p + i - 1] = d[p + i - 1]
      BY <3>1, <1>1
    <3>3. QED  BY <3>1, <3>2, <1>3
  <2>2. CASE ~ (i <= n)
    <3>1. i - n \in 1..l /\ n + (i - n) = i /\ k + (i - n) = p + i - 1
      BY <1>2, <2>2
    <3>2. e[k + (i - n)] = s[i - n] /\ s[i - n] = Cell(f, off, n + (i - n))
      BY <3>1, <1>1, <1>3
    <3>3. QED  BY <3>1, <3>2
  <2>3. QED  BY <2>1, <2>2
<1>5. Holds(e, p, f, off, n + l)
  BY <1>4 DEF Holds
<1>6. p + (n + l) = Len(e) + 1
  BY <1>1, <1>2
<1>7. QED  BY <1>5, <1>6 DEF e, l

(* What the next write puts down. *)
LEMMA RecordCells ==
    /\ Len(Record) = 4
    /\ \A i \in 1..4 : Record[i] = Cell(frame, vlsdOffset, i)
<1>1. Len(Record) = 4
  BY DEF Record
<1>2. /\ Record[1] = 1 /\ Record[2] = frame.ID
      /\ Record[3] = Len(frame.Data) /\ Record[4] = vlsdOffset
  BY DEF Record, RecordIDPrimary
<1>3. \A i \in 1..4 : i = 1 \/ i = 2 \/ i = 3 \/ i = 4
  OBVIOUS
<1>4. /\ Cell(frame, vlsdOffset, 1) = 1 /\ Cell(frame, vlsdOffset, 2) = frame.ID
      /\ Cell(frame, vlsdOffset, 3) = Len(frame.Data) /\ Cell(frame, vlsdOffset, 4) = vlsdOffset
  BY CellsAre
<1>5. QED  BY <1>1, <1>2, <1>3, <1>4

LEMMA PayloadCells ==
    ASSUME frame.Data \in Seq(Nat)
    PROVE  /\ Len(Payload) = 3 + Len(frame.Data)
           /\ \A i \in 1..(3 + Len(frame.Data)) : Payload[i] = Cell(frame, vlsdOffset, 4 + i)
<1> DEFINE l == Len(frame.Data)
           h == <<2, l % 256, l \div 256>>
           s == frame.Data
<1>1. l \in Nat /\ s \in Seq(Nat)
  OBVIOUS
<1>2. Payload = h \o s
  BY DEF Payload, RecordIDVLSD, Base
<1>3. h \in Seq(Nat) /\ Len(h) = 3
  <2>1. \A n \in Nat : n % 256 \in Nat /\ n \div 256 \in Nat
    OBVIOUS
  <2> HIDE DEF l
  <2>2. l % 256 \in Nat /\ l \div 256 \in Nat
    BY <2>1, <1>1
  <2>3. QED  BY <2>2
<1>4. h[1] = 2 /\ h[2] = l % 256 /\ h[3] = l \div 256
  OBVIOUS
<1> HIDE DEF h
<1>5. /\ Len(h \o s) = Len(h) + Len(s)
      /\ \A i \in 1..Len(h) : (h \o s)[i] = h[i]
      /\ \A i \in 1..Len(s) : (h \o s)[Len(h) + i] = s[i]
  <2> HIDE DEF s
  <2>1. h \in Seq(Nat) /\ s \in Seq(Nat)
    BY <1>1, <1>3
  <2>2. QED  BY <2>1, Concatenation
<1>6. Len(Payload) = 3 + l
  BY <1>2, <1>3, <1>5
<1>7. /\ Cell(frame, vlsdOffset, 5) = 2 /\ Cell(frame, vlsdOffset, 6) = l % 256
      /\ Cell(frame, vlsdOffset, 7) = l \div 256
  BY CellsAre
<1> HIDE DEF l
<1>8. ASSUME NEW i \in 1..(3 + l) PROVE Payload[i] = Cell(frame, vlsdOffset, 4 + i)
  <2>1. CASE i \in 1..3
    <3>1. i = 1 \/ i = 2 \/ i = 3
      BY <2>1
    <3>2. Payload[i] = h[i]
      BY <2>1, <1>2, <1>3, <1>5
    <3>3. i = 1 => 4 + i = 5 /\ i = 1
      OBVIOUS
    <3>4. i = 2 => 4 + i = 6
      OBVIOUS
    <3>5. i = 3 => 4 + i = 7
      OBVIOUS
    <3>6. QED  BY <3>1, <3>2, <3>3, <3>4, <3>5, <1>4, <1>7
  <2>2. CASE ~ (i \in 1..3)
    <3>1. i - 3 \in 1..l /\ 3 + (i - 3) = i /\ 7 + (i - 3) = 4 + i /\ i - 3 \in Nat /\ i - 3 >= 1
      BY <2>2, <1>1
    <3>2. Payload[3 + (i - 3)] = s[i - 3]
      BY <3>1, <1>2, <1>3, <1>5 DEF l
    <3>3. Cell(frame, vlsdOffset, 7 + (i - 3)) = frame.Data[i - 3]
      BY <3>1, DataCellsAre
    <3>4. QED  BY <3>1, <3>2, <3>3
  <2>3. QED  BY <2>1, <2>2
<1>9. QED  BY <1>6, <1>8 DEF l

(* Steps that leave the file and the frames alone, outside of an append.    *)
LEMMA AheadQuiet ==
    ASSUME NEW c, NEW n, Ahead(c, n), pc \notin {"record", "payload", "crashed"},
           pc' \notin {"record", "payload"}, UNCHANGED <<dt, vlsdOffset, frames, intact>>
    PROVE  Ahead(c, n)'
<1>1. n = 0 /\ Len(frames) = intact
  BY DEF Ahead
<1>2. ~ Appending'
  BY DEF Appending
<1>3. QED  BY <1>1, <1>2 DEF Ahead

(* A write puts down the next k cells of the frame, not all of them.        *)
(* The step puts s, the first cells of what is pending, down: all of the     *)
(* record's, or those a kill leaves of either write.                         *)
Puts(s) ==
    /\ s = SubSeq(Pending, 1, Len(s))
    /\ Len(s) <= Len(Pending)
    /\ pc = "payload" => Len(s) < Len(Pending)
    /\ dt' = dt \o s
    /\ UNCHANGED <<vlsdOffset, frames, intact>>
    /\ \/ pc' = "crashed"
       \/ pc' = "payload" /\ pc = "record" /\ s = Record /\ frame' = frame

LEMMA AheadWrite ==
    ASSUME IInv, NEW c, NEW n \in Nat, Ahead(c, n), c.at \in Nat, c.at >= 1, Appending,
           NEW s \in Seq(Nat), Puts(s)
    PROVE  Ahead(c, n + Len(s))'
<1>0. /\ s = SubSeq(Pending, 1, Len(s))
      /\ Len(s) <= Len(Pending)
      /\ pc = "payload" => Len(s) < Len(Pending)
      /\ dt' = dt \o s
      /\ UNCHANGED <<vlsdOffset, frames, intact>>
      /\ \/ pc' = "crashed"
         \/ pc' = "payload" /\ pc = "record" /\ s = Record /\ frame' = frame
  BY DEF Puts
<1> DEFINE f == frames[intact + 1]
           l == Len(f.Data)
           k == Len(s)
<1>1. /\ dt \in Seq(Nat) /\ Len(frames) = intact + 1 /\ frame = f /\ frame \in Frame
      /\ c.raw = vlsdOffset /\ c.at + n = Len(dt) + 1
  BY DEF IInv, FileTypes, HandlerTypes, Ahead
<1>2. f.Data \in Seq(Nat) /\ l \in Nat /\ k \in Nat
  BY <1>1, DataAreCells
<1>3. Holds(dt, c.at, f, vlsdOffset, n)
  <2>1. n > 0 => Holds(dt, c.at, f, vlsdOffset, n)
    BY DEF Ahead
  <2>2. n = 0 => Holds(dt, c.at, f, vlsdOffset, n)
    BY DEF Holds
  <2>3. QED  BY <2>1, <2>2
<1>4. /\ Pending \in Seq(Nat)
      /\ \A i \in 1..Len(Pending) : Pending[i] = Cell(f, vlsdOffset, n + i)
      /\ n + k < 7 + l
  <2>1. CASE pc = "record"
    <3>1. n = 0 /\ Pending = Record
      BY <2>1 DEF Ahead, Pending
    <3>2. Len(Record) = 4 /\ \A i \in 1..4 : Record[i] = Cell(f, vlsdOffset, i)
      BY RecordCells, <1>1
    <3>3. \A i \in 1..4 : 0 + i = i
      OBVIOUS
    <3>4. n + k < 7 + l
      BY <3>1, <3>2, <1>0, <1>2
    <3>5. QED  BY <3>1, <3>2, <3>3, <3>4, PendingAreCells
  <2>2. CASE pc = "payload"
    <3>1. n = 4 /\ Pending = Payload
      BY <2>2 DEF Ahead, Pending
    <3>2. Len(Payload) = 3 + l /\ \A i \in 1..(3 + l) : Payload[i] = Cell(f, vlsdOffset, 4 + i)
      BY PayloadCells, <1>1, <1>2
    <3>3. n + k < 7 + l
      BY <3>1, <3>2, <1>0, <1>2, <2>2
    <3>4. QED  BY <3>1, <3>2, <3>3, PendingAreCells
  <2>3. QED  BY <2>1, <2>2 DEF Appending
<1>5. \A i \in 1..k : s[i] = Cell(f, vlsdOffset, n + i)
  <2>1. ASSUME NEW i \in 1..k PROVE s[i] = Pending[i] /\ i \in 1..Len(Pending)
    <3>1. s[i] = SubSeq(Pending, 1, Len(s))[i]
      BY <1>0
    <3>2. 1 \in 1..(Len(Pending) + 1) /\ k \in (1 - 1)..Len(Pending) /\ k - 1 + 1 = k
          /\ 1 + i - 1 = i /\ i \in 1..Len(Pending)
      BY <1>0, <1>2, <1>4
    <3>3. SubSeq(Pending, 1, k)[i] = Pending[i]
      BY <3>2, <1>4
    <3>4. QED  BY <3>1, <3>2, <3>3
  <2>2. QED  BY <2>1, <1>4
<1> HIDE DEF f, k, l
<1>6. Holds(dt \o s, c.at, f, vlsdOffset, n + k) /\ c.at + (n + k) = Len(dt \o s) + 1
  BY <1>1, <1>3, <1>5, HoldsMore DEF k
<1>7. pc' = "payload" => n + k = 4
  <2>1. pc = "record" => n = 0
    BY DEF Ahead
  <2>2. pc' = "payload" => k = 4
    BY <1>0, RecordCells DEF k
  <2>3. QED  BY <1>0, <2>1, <2>2
<1>8. /\ Len(frames') \in {intact', intact' + 1} /\ Len(frames') = intact' + 1
      /\ f = frames'[intact' + 1] /\ c.raw = vlsdOffset'
      /\ n + k < 7 + Len(frames'[intact' + 1].Data)
      /\ Holds(dt', c.at, frames'[intact' + 1], vlsdOffset', n + k)
      /\ c.at + (n + k) = Len(dt') + 1
  BY <1>0, <1>1, <1>4, <1>6 DEF f, l
<1>9. Appending' => pc' = "payload" /\ frame' = frames'[intact' + 1]
  BY <1>0, <1>1, <1>8 DEF Appending
<1>10. pc' \in {"payload", "crashed"}
  BY <1>0
<1>11. QED  BY <1>7, <1>8, <1>9, <1>10 DEF Ahead, k

(* Each step leaves the cursor behind where it is, or moves it by a frame.  *)
LEMMA FoundStep ==
    ASSUME IInv, LengthInv, Found, [Next]_vars
    PROVE  Found'
<1>1. /\ dt \in Seq(Nat) /\ dt' \in Seq(Nat) /\ Longer(dt', dt)
      /\ frames \in Seq(Frame) /\ intact \in Nat /\ intact <= Len(frames) /\ Len(frames) \in Nat
      /\ faults \in Nat /\ IInv'
  <2>1. IInv' /\ Appends
    BY StepIInv
  <2>2. dt \in Seq(Nat) /\ dt' \in Seq(Nat)
    BY <2>1 DEF IInv, FileTypes
  <2>3. frames \in Seq(Frame) /\ intact \in Nat /\ intact <= Len(frames) /\ Len(frames) \in Nat
    <3>1. frames \in Seq(Frame) /\ intact \in Nat
      BY DEF IInv, HandlerTypes
    <3>2. intact <= Len(frames)
      BY <3>1 DEF IInv, HandlerTypes
    <3>3. QED  BY <3>1, <3>2
  <2>4. faults \in Nat
    BY Bounds DEF IInv, HandlerTypes
  <2>5. QED  BY <2>1, <2>2, <2>3, <2>4 DEF Appends, Longer
<1>2. PICK c : /\ Behind(dt, c, intact, frames)
               /\ faults = 0 => \E n \in Nat : Ahead(c, n)
  BY DEF Found
<1>3. c.at \in Nat /\ c.at >= 1
  BY <1>1, <1>2, ReachedKept, CursorIs DEF Behind, Sound
<1>4. ASSUME intact' = intact, \A i \in 1..intact : frames'[i] = frames[i]
      PROVE  Behind(dt', c, intact', frames')
  BY <1>1, <1>2, <1>4, BehindOn
(* Once a write has failed, only what is behind counts. *)
<1>5. ASSUME intact' = intact, \A i \in 1..intact : frames'[i] = frames[i],
             \/ faults' # 0
             \/ \E n \in Nat : Ahead(c, n)'
      PROVE  Found'
  <2>1. faults' = 0 => \E n \in Nat : Ahead(c, n)'
    BY <1>5
  <2>2. Behind(dt', c, intact', frames')
    BY <1>4, <1>5
  <2>3. QED  BY <2>1, <2>2 DEF Found
(* Outside of an append nothing moves. *)
<1>6. ASSUME pc \notin {"record", "payload", "crashed"}, pc' \notin {"record", "payload"},
             UNCHANGED <<dt, vlsdOffset, frames, intact>>, faults' = 0 => faults = 0
      PROVE  Found'
  <2>1. CASE faults' = 0
    <3>1. PICK n \in Nat : Ahead(c, n)
      BY <1>2, <1>6, <2>1
    <3>2. Ahead(c, n)'
      BY <1>6, <3>1, AheadQuiet
    <3>3. QED  BY <1>5, <1>6, <3>2
  <2>2. CASE faults' # 0
    BY <1>5, <1>6, <2>2
  <2>3. QED  BY <2>1, <2>2
<1>7. CASE WriteMetadata \/ Close \/ WriteLength \/ WriteMagic \/ ClearFlag
  <2>1. /\ pc \notin {"record", "payload", "crashed"} /\ pc' \notin {"record", "payload"}
        /\ UNCHANGED <<dt, vlsdOffset, frames, intact, faults>>
    BY <1>7 DEF WriteMetadata, Close, WriteLength, WriteMagic, ClearFlag, stream, call
  <2>2. QED  BY <1>6, <2>1
<1>8. CASE Take
  <2>1. PICK d \in Data :
          /\ pc = "idle"
          /\ \/ UNCHANGED <<frame, frames, pc>>
             \/ /\ frames' = Append(frames, frame')
                /\ pc' = "record"
          /\ UNCHANGED <<dt, vlsdOffset, faults, intact>>
    BY <1>8 DEF Take, stream
  <2>2. CASE UNCHANGED <<frame, frames, pc>>
    BY <1>6, <2>1, <2>2
  <2>3. CASE frames' = Append(frames, frame') /\ pc' = "record"
    <3>1. /\ Len(frames') = Len(frames) + 1 /\ frames'[Len(frames) + 1] = frame'
          /\ \A i \in 1..Len(frames) : frames'[i] = frames[i]
      BY <1>1, <2>3
    <3>2. \A i \in 1..intact : frames'[i] = frames[i]
      BY <1>1, <3>1
    <3>3. CASE faults = 0
      <4>1. PICK n \in Nat : Ahead(c, n)
        BY <1>2, <3>3
      <4>2. /\ n = 0 /\ Len(frames) = intact
            /\ c.raw = vlsdOffset /\ c.at + n = Len(dt) + 1
        BY <2>1, <4>1 DEF Ahead
      <4>3. /\ Len(frames') = intact' + 1 /\ frame' = frames'[intact' + 1]
            /\ c.raw = vlsdOffset' /\ c.at + n = Len(dt') + 1
        BY <2>1, <3>1, <4>2
      <4>4. Ahead(c, n)'
        BY <2>3, <4>2, <4>3 DEF Ahead, Appending
      <4>5. QED  BY <1>5, <2>1, <3>2, <4>4
    <3>4. CASE faults # 0
      BY <1>5, <2>1, <3>2, <3>4
    <3>5. QED  BY <3>3, <3>4
  <2>4. QED  BY <2>1, <2>2, <2>3
<1>9. CASE WriteRecord
  <2>1. /\ pc = "record" /\ pc' = "payload" /\ dt' = dt \o Record
        /\ UNCHANGED <<vlsdOffset, faults, frame, frames, intact>>
    BY <1>9 DEF WriteRecord, call
  <2>2. CASE faults = 0
    <3>1. PICK n \in Nat : Ahead(c, n)
      BY <1>2, <2>2
    <3>2. Pending = Record /\ Record \in Seq(Nat) /\ Appending /\ Len(Record) \in Nat
      <4>1. Pending = Record /\ Appending
        BY <2>1 DEF Pending, Appending
      <4>2. Pending \in Seq(Nat)
        BY PendingAreCells
      <4>3. QED  BY <4>1, <4>2
    <3>3. Record = SubSeq(Pending, 1, Len(Record)) /\ Len(Record) <= Len(Pending)
      <4>1. SubSeq(Record, 1, Len(Record)) = Record
        BY <3>2, SubSeqFull
      <4>2. QED  BY <3>2, <4>1
    <3>4. PICK s : s = Record
      OBVIOUS
    <3>5. s \in Seq(Nat) /\ Len(s) \in Nat /\ Puts(s)
      BY <2>1, <3>2, <3>3, <3>4 DEF Puts
    <3>6. Ahead(c, n + Len(s))'
      BY <1>3, <3>1, <3>2, <3>5, AheadWrite
    <3>7. n + Len(s) \in Nat
      BY <3>5
    <3>8. QED  BY <1>5, <2>1, <3>6, <3>7
  <2>3. CASE faults # 0
    BY <1>5, <2>1, <2>3
  <2>4. QED  BY <2>2, <2>3
<1>10. CASE WritePayload
  <2>1. /\ pc = "payload" /\ pc' = "idle" /\ dt' = dt \o Payload
        /\ vlsdOffset' = vlsdOffset + 2 + Len(frame.Data)
        /\ intact' = IF faults = 0 THEN intact + 1 ELSE intact
        /\ UNCHANGED <<faults, frames>>
    BY <1>10 DEF WritePayload, PrefixSize
  <2>2. CASE faults # 0
    BY <1>5, <2>1, <2>2
  <2>3. CASE faults = 0
    <3>1. PICK n \in Nat : Ahead(c, n)
      BY <1>2, <2>3
    <3> DEFINE f == frames[intact + 1]
               l == Len(f.Data)
    <3>2. /\ n = 4 /\ Len(frames) = intact + 1 /\ frame = f /\ f \in Frame
          /\ c.raw = vlsdOffset /\ c.at + n = Len(dt) + 1
          /\ Holds(dt, c.at, f, vlsdOffset, 4)
      <4>1. n = 4 /\ Len(frames) = intact + 1 /\ frame = f
            /\ c.raw = vlsdOffset /\ c.at + n = Len(dt) + 1
        BY <2>1, <3>1 DEF Ahead, Appending
      <4>2. Holds(dt, c.at, f, vlsdOffset, n)
        BY <3>1, <4>1 DEF Ahead
      <4>3. f \in Frame
        BY <1>1, <4>1
      <4>4. QED  BY <4>1, <4>2, <4>3
    <3>3. f.Data \in Seq(Nat) /\ l \in Nat
      BY <3>2, DataAreCells
    <3>4. /\ Len(Payload) = 3 + l
          /\ \A i \in 1..(3 + l) : Payload[i] = Cell(f, vlsdOffset, 4 + i)
      BY <3>2, <3>3, PayloadCells
    <3>5. Payload \in Seq(Nat)
      <4>1. Pending = Payload
        BY <2>1 DEF Pending
      <4>2. QED  BY <4>1, PendingAreCells
    <3> HIDE DEF f, l
    <3>6. Holds(dt', c.at, f, vlsdOffset, 4 + Len(Payload))
          /\ c.at + (4 + Len(Payload)) = Len(dt') + 1
      <4>1. c.at + 4 = Len(dt) + 1 /\ \A i \in 1..Len(Payload) : Payload[i] = Cell(f, vlsdOffset, 4 + i)
        BY <3>2, <3>4
      <4>2. Holds(dt \o Payload, c.at, f, vlsdOffset, 4 + Len(Payload))
            /\ c.at + (4 + Len(Payload)) = Len(dt \o Payload) + 1
        BY <1>1, <1>3, <3>2, <3>5, <4>1, HoldsMore
      <4>3. QED  BY <2>1, <4>2
    <3>7. 4 + Len(Payload) = 7 + l /\ c.at + (7 + l) = c.at + 7 + l
      BY <1>3, <3>3, <3>4
    <3>8. Behind(dt', c, intact, frames)
      BY <1>1, <1>2, BehindOn
    <3>9. PICK a : /\ Behind(dt', a, intact + 1, frames)
                   /\ a.at = Len(dt') + 1
                   /\ a.raw = vlsdOffset + 2 + l
      <4>1. /\ c.raw = vlsdOffset /\ intact + 1 <= Len(frames)
            /\ c.at + 7 + Len(frames[intact + 1].Data) = Len(dt') + 1
            /\ Holds(dt', c.at, frames[intact + 1], vlsdOffset, 7 + Len(frames[intact + 1].Data))
        BY <1>1, <3>2, <3>6, <3>7 DEF f, l
      <4>2. vlsdOffset \in {c.raw}
        BY <4>1
      <4>3. dt' \in Seq(Nat) /\ intact \in Nat /\ frames \in Seq(Frame)
        BY <1>1
      <4>4. \E a : /\ Behind(dt', a, intact + 1, frames)
                   /\ a.at = Len(dt') + 1
                   /\ a.raw = vlsdOffset + 2 + Len(frames[intact + 1].Data)
        BY <3>8, <4>1, <4>2, <4>3, BehindMore
      <4>5. QED  BY <4>4 DEF f, l
    <3>10. Behind(dt', a, intact', frames')
      BY <2>1, <2>3, <3>9
    <3>11. Ahead(a, 0)'
      <4>1. a.raw = vlsdOffset' /\ a.at + 0 = Len(dt') + 1 /\ Len(frames') = intact'
        <5>1. a.raw = vlsdOffset'
          BY <2>1, <3>2, <3>9 DEF l
        <5>2. a.at + 0 = Len(dt') + 1
          BY <1>1, <3>9
        <5>3. QED  BY <2>1, <2>3, <3>2, <5>1, <5>2
      <4>2. ~ Appending'
        BY <2>1 DEF Appending
      <4>3. QED  BY <2>1, <4>1, <4>2 DEF Ahead
    <3>12. QED  BY <3>10, <3>11 DEF Found
  <2>4. QED  BY <2>2, <2>3
<1>11. CASE Fail
  <2>1. faults' = faults + 1 /\ UNCHANGED <<frames, intact>>
    BY <1>11 DEF Fail, CutShort
  <2>2. faults' # 0
    BY <1>1, <2>1
  <2>3. QED  BY <1>5, <2>1, <2>2
<1>12. CASE Crash
  <2>1. /\ pc \notin {"closed", "crashed"} /\ pc' = "crashed" /\ CutShort
        /\ UNCHANGED <<faults, vlsdOffset, frames, intact>>
    BY <1>12 DEF Crash, CutShort
  <2>2. CASE ~ Appending
    <3>1. dt' = dt
      BY <2>1, <2>2, CutShortAppends
    <3>2. QED  BY <1>6, <2>1, <2>2, <3>1 DEF Appending
  <2>3. CASE Appending /\ faults # 0
    BY <1>5, <2>1, <2>3
  <2>4. CASE Appending /\ faults = 0
    <3>1. PICK n \in Nat : Ahead(c, n)
      BY <1>2, <2>4
    <3>2. PICK k \in 0..Len(Pending) :
            /\ Pending # << >> => k < Len(Pending)
            /\ dt' = dt \o SubSeq(Pending, 1, k)
      BY <2>1 DEF CutShort
    <3>3. Pending \in Seq(Nat) /\ Len(Pending) \in Nat /\ k \in Nat
      BY PendingAreCells
    <3>4. PICK s : s = SubSeq(Pending, 1, k)
      OBVIOUS
    <3>5. s \in Seq(Nat) /\ Len(s) = k
      <4>1. 1 \in 1..(Len(Pending) + 1) /\ k \in (1 - 1)..Len(Pending) /\ k - 1 + 1 = k
        BY <3>2, <3>3
      <4>2. QED  BY <3>3, <3>4, <4>1, Slice
    <3>6. s = SubSeq(Pending, 1, Len(s)) /\ Len(s) <= Len(Pending)
      BY <3>2, <3>3, <3>5, <3>4
    <3>7. pc = "payload" => Len(s) < Len(Pending)
      <4>1. CASE pc = "payload"
        <5>1. Pending = Payload /\ frame.Data \in Seq(Nat)
          <6>1. frame \in Frame
            BY <2>4 DEF IInv, HandlerTypes
          <6>2. QED  BY <4>1, <6>1, DataAreCells DEF Pending
        <5>2. Len(Pending) = 3 + Len(frame.Data) /\ Len(frame.Data) \in Nat
          BY <5>1, PayloadCells
        <5>3. Pending # << >>
          <6>1. Len(Pending) # 0
            BY <5>2
          <6>2. QED  BY <6>1
        <5>4. QED  BY <3>2, <3>5, <5>3
      <4>2. QED  BY <4>1
    <3>8. dt' = dt \o s
      BY <3>2, <3>4
    <3>9. Puts(s)
      BY <2>1, <3>6, <3>7, <3>8 DEF Puts
    <3>10. Ahead(c, n + Len(s))'
      BY <1>3, <2>4, <3>1, <3>5, <3>9, AheadWrite
    <3>11. n + Len(s) \in Nat
      BY <3>3, <3>5
    <3>12. QED  BY <1>5, <2>1, <3>10, <3>11
  <2>5. QED  BY <2>2, <2>3, <2>4
<1>13. CASE UNCHANGED vars
  <2>1. UNCHANGED <<dt, vlsdOffset, frame, frames, intact, pc, faults>>
    BY <1>13 DEF vars, stream, call
  <2>2. CASE faults = 0
    <3>1. PICK n \in Nat : Ahead(c, n)
      BY <1>2, <2>2
    <3>2. Ahead(c, n)'
      BY <2>1, <3>1 DEF Ahead, Appending
    <3>3. QED  BY <1>5, <2>1, <3>2
  <2>3. CASE faults # 0
    BY <1>5, <2>1, <2>3
  <2>4. QED  BY <2>2, <2>3
<1>14. QED
  BY <1>7, <1>8, <1>9, <1>10, <1>11, <1>12, <1>13 DEF Next

-----------------------------------------------------------------------------
LEMMA NothingRead == Len(Read(<< >>)) = 0
<1>1. << >> \in Seq(Nat) /\ Len(<< >>) = 0
  OBVIOUS
<1>2. Walked(<< >>) = Outset
  BY <1>1, WalkIs DEF Walked
<1>3. Len(Outset.whole) = 0
  BY DEF Outset
<1>4. QED  BY <1>1, <1>2, <1>3, ReadLen

LEMMA FoundRecovers ==
    ASSUME IInv, LengthInv, Found
    PROVE  Recoverable
<1>1. /\ dt \in Seq(Nat) /\ frames \in Seq(Frame) /\ intact \in Nat
      /\ intact <= Len(frames) /\ Len(frames) \in Nat
  <2>1. dt \in Seq(Nat) /\ frames \in Seq(Frame) /\ intact \in Nat
    BY DEF IInv, FileTypes, HandlerTypes
  <2>2. intact <= Len(frames)
    BY <2>1 DEF IInv, HandlerTypes
  <2>3. QED  BY <2>1, <2>2
<1>2. DTData = IF blocks < Blocks THEN << >> ELSE dt
  BY <1>1, DataSeen
<1>3. CASE blocks < Blocks
  <2>1. intact = 0 /\ Len(Entries) = 0
    BY <1>2, <1>3, NothingRead DEF LengthInv, Entries
  <2>2. QED  BY <2>1 DEF Recoverable
<1>4. CASE ~ (blocks < Blocks)
  <2>1. Entries = Read(dt)
    BY <1>2, <1>4 DEF Entries
  <2>2. PICK c : /\ Behind(dt, c, intact, frames)
                 /\ faults = 0 => \E n \in Nat : Ahead(c, n)
    BY DEF Found
  <2>3. \A i \in 1..intact : frames[i] \in Frame
    BY <1>1
  <2>4. Len(Read(dt)) >= intact /\ \A i \in 1..intact : Read(dt)[i] = EntryOf(frames[i])
    BY <1>1, <2>2, <2>3, ReadBehind
  <2>5. Reaches(dt, c) /\ Len(c.whole) = intact
    BY <2>2 DEF Behind
  <2>6. ASSUME faults = 0, Len(Read(dt)) > intact
        PROVE  /\ Len(Read(dt)) = intact + 1
               /\ Read(dt)[intact + 1] = [EntryOf(frames[intact + 1]) EXCEPT !.Data = << >>]
    <3>1. PICK n \in Nat : Ahead(c, n)
      BY <2>2, <2>6
    <3>2. c.raw = vlsdOffset /\ c.at + n = Len(dt) + 1
      BY <3>1 DEF Ahead
    <3>3. CASE Len(frames) = intact + 1
      <4> DEFINE f == frames[intact + 1]
      <4>1. f \in Frame
        BY <1>1, <3>3
      <4>2. n > 0 => n < 7 + Len(f.Data) /\ Holds(dt, c.at, f, vlsdOffset, n)
        BY <3>1 DEF Ahead
      <4> HIDE DEF f
      <4>3. /\ Len(Read(dt)) = intact + 1
            /\ Read(dt)[intact + 1] = [EntryOf(f) EXCEPT !.Data = << >>]
        BY <1>1, <2>5, <2>6, <3>2, <4>1, <4>2, ReadCut
      <4>4. QED  BY <4>3 DEF f
    <3>4. CASE Len(frames) # intact + 1
      <4>1. n = 0
        BY <3>1, <3>4 DEF Ahead
      <4>2. c.at > Len(dt)
        <5>1. Sound(dt, c)
          BY <1>1, <2>5, ReachedKept
        <5>2. c.at \in Nat /\ Len(dt) \in Nat
          BY <1>1, <5>1, CursorIs DEF Sound
        <5>3. QED  BY <3>2, <4>1, <5>2
      <4>3. Walked(dt) = c
        BY <1>1, <2>5, <4>2, ReachedKept DEF Ends
      <4>4. Len(Read(dt)) = intact
        BY <1>1, <2>5, <4>3, ReadLen
      <4>5. QED  BY <1>1, <2>6, <4>4
    <3>5. QED  BY <3>3, <3>4
  <2> DEFINE g == frames[intact + 1]
             e == EntryOf(g)
  <2>7. [e EXCEPT !.Data = << >>] \in {[e EXCEPT !.Data = d] : d \in {<< >>, g.Data}}
    OBVIOUS
  <2> HIDE DEF e
  <2>8. QED  BY <2>1, <2>4, <2>6, <2>7 DEF Recoverable, e
<1>5. QED  BY <1>3, <1>4

(***************************************************************************)
(* Wherever the process is killed, and whichever writes fail, the reader   *)
(* finds every frame appended before the first failure with its data, and  *)
(* without one at most the frame being appended besides, for any frames    *)
(* and however many.                                                       *)
(***************************************************************************)
THEOREM Mf4Recovers == Spec => []Recoverable
<1>1. Init => IInv /\ LengthInv /\ Found
  BY InitIInv, LengthInit, FoundInit
<1>2. IInv /\ LengthInv /\ Found /\ [Next]_vars => (IInv /\ LengthInv /\ Found)'
  BY StepIInv, LengthStep, FoundStep
<1>3. IInv /\ LengthInv /\ Found => Recoverable
  BY FoundRecovers
<1>4. QED  BY <1>1, <1>2, <1>3, PTL DEF Spec

-----------------------------------------------------------------------------
(* InfluxBatch. *)

Influx == INSTANCE InfluxBatch

(* The boxes hold each message up to t that passes the filter once.         *)
OneHome(C, t) ==
    /\ C \in [Boxes -> Seq(Msg)]
    /\ \A b \in Boxes : \A i \in 1..Len(C[b]) : C[b][i] \in 1..t /\ C[b][i] \notin Filtered
    /\ \A b, c \in Boxes : \A i \in 1..Len(C[b]), j \in 1..Len(C[c]) :
          C[b][i] = C[c][j] => b = c /\ i = j
    /\ \A m \in 1..t : m \notin Filtered => \E b \in Boxes : \E i \in 1..Len(C[b]) : C[b][i] = m

(* Box from is poured into box to. *)
Pours(D, C, to, from) ==
    /\ D[to] = C[to] \o C[from]
    /\ D[from] = << >>
    /\ \A b \in Boxes \ {to, from} : D[b] = C[b]

(* The same, message by message. *)
PoursEach(D, C, to, from) ==
    /\ Len(D[from]) = 0
    /\ Len(D[to]) = Len(C[to]) + Len(C[from])
    /\ \A i \in 1..Len(C[to]) : D[to][i] = C[to][i]
    /\ \A i \in 1..Len(C[from]) : D[to][Len(C[to]) + i] = C[from][i]
    /\ \A b \in Boxes \ {to, from} : D[b] = C[b]

(* Message m is put into a box. *)
PutsIn(D, C, box, m) ==
    /\ D[box] = Append(C[box], m)
    /\ \A b \in Boxes \ {box} : D[b] = C[b]

(* The boxes change places: box b is the one that was r[b]. *)
Renames(D, C, r, s) ==
    /\ r \in [Boxes -> Boxes] /\ s \in [Boxes -> Boxes]
    /\ \A b \in Boxes : r[s[b]] = b /\ s[r[b]] = b
    /\ \A b \in Boxes : D[b] = C[r[b]]

(* Pouring a box into another leaves each message its one home. *)
LEMMA Poured ==
    ASSUME NEW C, NEW D, NEW t, OneHome(C, t),
           NEW to \in Boxes, NEW from \in Boxes, to # from,
           D \in [Boxes -> Seq(Msg)], PoursEach(D, C, to, from)
    PROVE  OneHome(D, t)
<1> USE DEF PoursEach
<1>1. C \in [Boxes -> Seq(Msg)] /\ C[to] \in Seq(Msg) /\ C[from] \in Seq(Msg)
  BY DEF OneHome
<1>3. Len(C[to]) \in Nat /\ Len(C[from]) \in Nat
  BY <1>1
<1>2. \A b, c \in Boxes : \A i \in 1..Len(C[b]), j \in 1..Len(C[c]) :
          C[b][i] = C[c][j] => b = c /\ i = j
  BY DEF OneHome
(* Where the i-th message of box b was before. *)
<1> DEFINE box(b, i) == IF b = to /\ i > Len(C[to]) THEN from ELSE b
           at(b, i)  == IF b = to /\ i > Len(C[to]) THEN i - Len(C[to]) ELSE i
<1>5. ASSUME NEW b \in Boxes, NEW i \in 1..Len(D[b])
      PROVE  /\ box(b, i) \in Boxes
             /\ at(b, i) \in 1..Len(C[box(b, i)])
             /\ D[b][i] = C[box(b, i)][at(b, i)]
  <2>1. CASE b = to /\ i > Len(C[to])
    <3>1. i - Len(C[to]) \in 1..Len(C[from]) /\ i = Len(C[to]) + (i - Len(C[to]))
      BY <1>1, <1>3, <2>1
    <3>2. D[to][i] = C[from][i - Len(C[to])]
      BY <1>1, <1>3, <3>1
    <3>3. QED
      BY <2>1, <3>1, <3>2
  <2>2. CASE b = to /\ ~ i > Len(C[to])
    BY <1>1, <1>3, <2>2
  <2>3. CASE b = from
    BY <2>3
  <2>4. CASE b \notin {to, from}
    BY <2>4
  <2>5. QED
    BY <2>1, <2>2, <2>3, <2>4
<1>6. \A b, c \in Boxes : \A i \in 1..Len(D[b]), j \in 1..Len(D[c]) :
          box(b, i) = box(c, j) /\ at(b, i) = at(c, j) => b = c /\ i = j
  <2> SUFFICES ASSUME NEW b \in Boxes, NEW c \in Boxes,
                      NEW i \in 1..Len(D[b]), NEW j \in 1..Len(D[c]),
                      box(b, i) = box(c, j), at(b, i) = at(c, j)
               PROVE  b = c /\ i = j
    OBVIOUS
  <2>1. b # from /\ c # from
    BY <1>3
  <2>2. QED
    BY <1>1, <1>3, <2>1
<1>7. ASSUME NEW b \in Boxes, NEW i \in 1..Len(C[b])
      PROVE  \E c \in Boxes : \E j \in 1..Len(D[c]) : D[c][j] = C[b][i]
  <2>1. CASE b = from
    <3>1. Len(C[to]) + i \in 1..Len(D[to]) /\ D[to][Len(C[to]) + i] = C[b][i]
      BY <1>1, <1>3, <2>1
    <3>2. QED
      BY <3>1
  <2>2. CASE b = to
    <3>1. i \in 1..Len(D[to]) /\ D[to][i] = C[b][i]
      BY <1>1, <1>3, <2>2
    <3>2. QED
      BY <3>1
  <2>3. CASE b \notin {to, from}
    BY <2>3
  <2>4. QED
    BY <2>1, <2>2, <2>3
<1> HIDE DEF box, at
<1>8. \A b \in Boxes : \A i \in 1..Len(D[b]) : D[b][i] \in 1..t /\ D[b][i] \notin Filtered
  <2> SUFFICES ASSUME NEW b \in Boxes, NEW i \in 1..Len(D[b])
               PROVE  D[b][i] \in 1..t /\ D[b][i] \notin Filtered
    OBVIOUS
  <2>1. PICK c \in Boxes : \E k \in 1..Len(C[c]) : D[b][i] = C[c][k]
    BY <1>5
  <2>2. QED
    BY <2>1 DEF OneHome
<1>9. \A b, c \in Boxes : \A i \in 1..Len(D[b]), j \in 1..Len(D[c]) :
          D[b][i] = D[c][j] => b = c /\ i = j
  <2> SUFFICES ASSUME NEW b \in Boxes, NEW c \in Boxes,
                      NEW i \in 1..Len(D[b]), NEW j \in 1..Len(D[c]), D[b][i] = D[c][j]
               PROVE  b = c /\ i = j
    OBVIOUS
  <2> DEFINE x == box(b, i)   y == box(c, j)   k == at(b, i)   l == at(c, j)
  <2>3. /\ x \in Boxes /\ k \in 1..Len(C[x]) /\ D[b][i] = C[x][k]
        /\ y \in Boxes /\ l \in 1..Len(C[y]) /\ D[c][j] = C[y][l]
    BY <1>5
  <2> HIDE DEF x, y, k, l
  <2>4. C[x][k] = C[y][l]
    BY <2>3
  <2>5. x = y /\ k = l
    BY <1>2, <2>3, <2>4
  <2>6. box(b, i) = box(c, j) /\ at(b, i) = at(c, j)
    BY <2>5 DEF x, y, k, l
  <2>7. QED
    BY <1>6, <2>6
<1>10. ASSUME NEW m \in 1..t, m \notin Filtered
       PROVE  \E b \in Boxes : \E i \in 1..Len(D[b]) : D[b][i] = m
  <2>1. PICK c \in Boxes : \E k \in 1..Len(C[c]) : C[c][k] = m
    BY <1>10 DEF OneHome
  <2>2. PICK k \in 1..Len(C[c]) : C[c][k] = m
    BY <2>1
  <2>3. QED
    BY <1>7, <2>2
<1>11. QED
  BY <1>8, <1>9, <1>10 DEF OneHome

LEMMA Pouring ==
    ASSUME NEW C, NEW D, NEW t, OneHome(C, t),
           NEW to \in Boxes, NEW from \in Boxes, to # from,
           D \in [Boxes -> Seq(Msg)], Pours(D, C, to, from)
    PROVE  OneHome(D, t)
<1>1. C[to] \in Seq(Msg) /\ C[from] \in Seq(Msg) /\ C \in [Boxes -> Seq(Msg)]
  BY DEF OneHome
<1>2. /\ C[to] \o C[from] \in Seq(Msg)
      /\ Len(C[to] \o C[from]) = Len(C[to]) + Len(C[from])
      /\ \A i \in 1..Len(C[to]) : (C[to] \o C[from])[i] = C[to][i]
      /\ \A i \in 1..Len(C[from]) : (C[to] \o C[from])[Len(C[to]) + i] = C[from][i]
  BY <1>1, Concatenation
<1>3. PoursEach(D, C, to, from)
  BY <1>2 DEF Pours, PoursEach
<1>4. QED
  BY <1>3, Poured

(* So does a change of places. *)
LEMMA Renamed ==
    ASSUME NEW C, NEW D, NEW t, OneHome(C, t),
           D \in [Boxes -> Seq(Msg)], NEW r, NEW s, Renames(D, C, r, s)
    PROVE  OneHome(D, t)
<1> USE DEF Renames
<1>1. \A b \in Boxes : r[b] \in Boxes /\ D[b] = C[r[b]]
  OBVIOUS
<1>2. \A b \in Boxes : \A i \in 1..Len(D[b]) : D[b][i] \in 1..t /\ D[b][i] \notin Filtered
  BY <1>1 DEF OneHome
<1>3. \A b, c \in Boxes : \A i \in 1..Len(D[b]), j \in 1..Len(D[c]) :
          D[b][i] = D[c][j] => b = c /\ i = j
  <2> SUFFICES ASSUME NEW b \in Boxes, NEW c \in Boxes,
                      NEW i \in 1..Len(D[b]), NEW j \in 1..Len(D[c]), D[b][i] = D[c][j]
               PROVE  b = c /\ i = j
    OBVIOUS
  <2> DEFINE x == r[b]   y == r[c]
  <2>3. /\ x \in Boxes /\ i \in 1..Len(C[x]) /\ D[b][i] = C[x][i]
        /\ y \in Boxes /\ j \in 1..Len(C[y]) /\ D[c][j] = C[y][j]
    BY <1>1
  <2>4. C[x][i] = C[y][j]
    BY <2>3
  <2> HIDE DEF x, y
  <2>5. x = y /\ i = j
    BY <2>3, <2>4 DEF OneHome
  <2>1. r[b] = r[c] /\ i = j
    BY <2>5 DEF x, y
  <2>2. QED
    BY <2>1
<1>4. ASSUME NEW m \in 1..t, m \notin Filtered
      PROVE  \E b \in Boxes : \E i \in 1..Len(D[b]) : D[b][i] = m
  <2>1. PICK b \in Boxes : \E i \in 1..Len(C[b]) : C[b][i] = m
    BY <1>4 DEF OneHome
  <2>2. s[b] \in Boxes /\ D[s[b]] = C[b]
    BY <1>1
  <2>3. QED
    BY <2>1, <2>2
<1>5. QED
  BY <1>1, <1>2, <1>3, <1>4 DEF OneHome

(* The next message comes into a box ... *)
LEMMA PutIn ==
    ASSUME NEW C, NEW D, NEW t \in Nat, OneHome(C, t), NEW box \in Boxes,
           t + 1 \in Msg, t + 1 \notin Filtered,
           D \in [Boxes -> Seq(Msg)], PutsIn(D, C, box, t + 1)
    PROVE  OneHome(D, t + 1)
<1> USE DEF PutsIn
<1>1. C \in [Boxes -> Seq(Msg)] /\ C[box] \in Seq(Msg) /\ Len(C[box]) \in Nat
  BY DEF OneHome
<1>2. /\ D[box] = Append(C[box], t + 1)
      /\ \A b \in Boxes \ {box} : D[b] = C[b]
      /\ D \in [Boxes -> Seq(Msg)]
  OBVIOUS
<1>3. /\ Len(D[box]) = Len(C[box]) + 1
      /\ D[box][Len(C[box]) + 1] = t + 1
      /\ \A i \in 1..Len(C[box]) : D[box][i] = C[box][i]
  BY <1>1, <1>2
<1>4. ASSUME NEW b \in Boxes, NEW i \in 1..Len(D[b])
      PROVE  \/ i \in 1..Len(C[b]) /\ D[b][i] = C[b][i]
             \/ b = box /\ i = Len(C[box]) + 1 /\ D[b][i] = t + 1
  BY <1>1, <1>2, <1>3
<1>5. \A b \in Boxes : \A i \in 1..Len(C[b]) : C[b][i] \in 1..t /\ C[b][i] \notin Filtered
  BY DEF OneHome
<1>6. \A b \in Boxes : \A i \in 1..Len(D[b]) : D[b][i] \in 1..(t + 1) /\ D[b][i] \notin Filtered
  BY <1>4, <1>5
<1>10. \A b, c \in Boxes : \A i \in 1..Len(C[b]), j \in 1..Len(C[c]) :
          C[b][i] = C[c][j] => b = c /\ i = j
  BY DEF OneHome
<1>7. ASSUME NEW b \in Boxes, NEW c \in Boxes,
             NEW i \in 1..Len(D[b]), NEW j \in 1..Len(D[c]), D[b][i] = D[c][j]
      PROVE  b = c /\ i = j
  <2>1. \A n \in 1..t : n # t + 1
    OBVIOUS
  <2>2. CASE D[b][i] = t + 1
    <3>1. b = box /\ i = Len(C[box]) + 1
      BY <1>4, <1>5, <2>1, <2>2
    <3>2. c = box /\ j = Len(C[box]) + 1
      BY <1>4, <1>5, <1>7, <2>1, <2>2
    <3>3. QED
      BY <3>1, <3>2
  <2>3. CASE D[b][i] # t + 1
    <3>1. i \in 1..Len(C[b]) /\ D[b][i] = C[b][i]
      BY <1>4, <2>3
    <3>2. j \in 1..Len(C[c]) /\ D[c][j] = C[c][j]
      BY <1>4, <1>7, <2>3
    <3>3. C[b][i] = C[c][j]
      BY <1>7, <3>1, <3>2
    <3>4. QED
      BY <1>10, <3>1, <3>2, <3>3
  <2>4. QED
    BY <2>2, <2>3
<1>8. ASSUME NEW m \in 1..(t + 1), m \notin Filtered
      PROVE  \E b \in Boxes : \E i \in 1..Len(D[b]) : D[b][i] = m
  <2>1. CASE m = t + 1
    <3>1. Len(C[box]) + 1 \in 1..Len(D[box])
      BY <1>1, <1>3
    <3>2. QED
      BY <1>3, <2>1, <3>1
  <2>2. CASE m \in 1..t
    <3>1. PICK b \in Boxes : \E i \in 1..Len(C[b]) : C[b][i] = m
      BY <1>8, <2>2 DEF OneHome
    <3>2. PICK i \in 1..Len(C[b]) : C[b][i] = m
      BY <3>1
    <3>3. CASE b = box
      <4>1. i \in 1..Len(D[box]) /\ D[box][i] = m
        BY <1>1, <1>3, <3>2, <3>3
      <4>2. QED
        BY <4>1
    <3>4. CASE b # box
      BY <1>2, <3>2, <3>4
    <3>5. QED
      BY <3>3, <3>4
  <2>3. QED
    BY <2>1, <2>2
<1>9. QED
  BY <1>2, <1>6, <1>7, <1>8 DEF OneHome

(* ... or is rejected. *)
LEMMA Rejected ==
    ASSUME NEW C, NEW t \in Nat, OneHome(C, t), t + 1 \in Filtered
    PROVE  OneHome(C, t + 1)
<1>1. \A m \in 1..(t + 1) : m \notin Filtered => m \in 1..t
  OBVIOUS
<1>2. \A n \in 1..t : n \in 1..(t + 1)
  OBVIOUS
<1>3. QED
  BY <1>1, <1>2 DEF OneHome

-----------------------------------------------------------------------------
(* What the handler takes from InfluxBlocks is the same by either name. *)
LEMMA SameSets == Influx!Worker = Worker /\ Influx!Msg = Msg
BY DEF Influx!Worker, Influx!Msg, Worker, Msg

(* The boxes, one by one ... *)
LEMMA EachBox ==
    ASSUME NEW b \in Boxes
    PROVE  \/ b \in {<<"block", 0>>, <<"written", 0>>, <<"unwritten", 0>>, <<"dropped", 0>>}
           \/ \E w \in Worker : b = <<"queue", w>> \/ b = <<"worker", w>>
BY DEF Boxes

(* ... and each of them is one. *)
LEMMA AllBoxes ==
    /\ {<<"block", 0>>, <<"written", 0>>, <<"unwritten", 0>>, <<"dropped", 0>>} \subseteq Boxes
    /\ \A w \in Worker : <<"queue", w>> \in Boxes /\ <<"worker", w>> \in Boxes
BY DEF Boxes

(* What each holds in a state ... *)
LEMMA InBoxes ==
    /\ Contents[<<"block", 0>>] = messageBlock
    /\ Contents[<<"written", 0>>] = written
    /\ Contents[<<"unwritten", 0>>] = unwritten
    /\ Contents[<<"dropped", 0>>] = dropped
    /\ \A w \in Worker :
          /\ Contents[<<"queue", w>>] = IF w <= Len(internalChannel) THEN internalChannel[w] ELSE << >>
          /\ Contents[<<"worker", w>>] = chunk[w]
BY AllBoxes DEF Contents, In

(* ... and in the next. *)
LEMMA InBoxesNext ==
    /\ Contents'[<<"block", 0>>] = messageBlock'
    /\ Contents'[<<"written", 0>>] = written'
    /\ Contents'[<<"unwritten", 0>>] = unwritten'
    /\ Contents'[<<"dropped", 0>>] = dropped'
    /\ \A w \in Worker :
          /\ Contents'[<<"queue", w>>]
                = IF w <= Len(internalChannel') THEN internalChannel'[w] ELSE << >>
          /\ Contents'[<<"worker", w>>] = chunk'[w]
BY AllBoxes DEF Contents, In

LEMMA ContentsMap == Contents = [b \in Boxes |-> Contents[b]]
BY DEF Contents

(* It holds messages. *)
LEMMA ContentsTyped == Influx!TypeOK' => Contents' \in [Boxes -> Seq(Msg)]
<1> SUFFICES ASSUME Influx!TypeOK' PROVE Contents' \in [Boxes -> Seq(Msg)]
  OBVIOUS
<1>1. /\ messageBlock' \in Seq(Msg) /\ written' \in Seq(Msg) /\ unwritten' \in Seq(Msg)
      /\ dropped' \in Seq(Msg) /\ internalChannel' \in Seq(Seq(Msg))
      /\ chunk' \in [Worker -> Seq(Msg)]
  BY SameSets DEF Influx!TypeOK
<1>2. \A w \in Worker : w \in Nat /\ w >= 1
  BY InfluxAssumption DEF Worker
<1>3. ASSUME NEW w \in Worker
      PROVE  Contents'[<<"queue", w>>] \in Seq(Msg) /\ Contents'[<<"worker", w>>] \in Seq(Msg)
  <2>1. << >> \in Seq(Msg)
    OBVIOUS
  <2>2. w <= Len(internalChannel') => internalChannel'[w] \in Seq(Msg)
    BY <1>1, <1>2
  <2>3. QED
    BY <1>1, <2>1, <2>2, InBoxesNext
<1>4. \A b \in Boxes : Contents'[b] \in Seq(Msg)
  BY <1>1, <1>3, EachBox, InBoxesNext
<1>5. Contents' = [b \in Boxes |-> Contents'[b]]
  BY DEF Contents
<1>6. QED
  BY <1>4, <1>5

(* A box whose variable stays keeps what it holds. *)
LEMMA StaysIn ==
    ASSUME NEW b \in Boxes,
           b = <<"block", 0>> => messageBlock' = messageBlock,
           b = <<"written", 0>> => written' = written,
           b = <<"unwritten", 0>> => unwritten' = unwritten,
           b = <<"dropped", 0>> => dropped' = dropped,
           \A w \in Worker : b = <<"queue", w>> => internalChannel' = internalChannel,
           \A w \in Worker : b = <<"worker", w>> => chunk'[w] = chunk[w]
    PROVE  Contents'[b] = Contents[b]
<1>1. CASE b \in {<<"block", 0>>, <<"written", 0>>, <<"unwritten", 0>>, <<"dropped", 0>>}
  BY <1>1, InBoxes, InBoxesNext
<1>2. ASSUME NEW w \in Worker, b = <<"queue", w>> PROVE Contents'[b] = Contents[b]
  BY <1>2, InBoxes, InBoxesNext
<1>3. ASSUME NEW w \in Worker, b = <<"worker", w>> PROVE Contents'[b] = Contents[b]
  BY <1>3, InBoxes, InBoxesNext
<1>4. QED
  BY <1>1, <1>2, <1>3, EachBox

(* The messages in the channel are the next ones. *)
Channel ==
    /\ Taken \in Nat
    /\ \A i \in 1..Len(canChannel) : canChannel[i] = Taken + i

Held == OneHome(Contents, Taken)

(* Each box that waits is in order, and one before the other. *)
Ordered ==
    /\ \A a \in 1..Len(internalChannel) : \A i, j \in 1..Len(internalChannel[a]) :
          i < j => internalChannel[a][i] < internalChannel[a][j]
    /\ \A a, b \in 1..Len(internalChannel) : a < b =>
          \A i \in 1..Len(internalChannel[a]), j \in 1..Len(internalChannel[b]) :
              internalChannel[a][i] < internalChannel[b][j]
    /\ \A i, j \in 1..Len(messageBlock) : i < j => messageBlock[i] < messageBlock[j]
    /\ \A a \in 1..Len(internalChannel) :
          \A i \in 1..Len(internalChannel[a]), j \in 1..Len(messageBlock) :
              internalChannel[a][i] < messageBlock[j]

(* The handler closes internalChannel before it waits, and a worker ends    *)
(* when it is closed and empty.                                             *)
Closing ==
    /\ stage \in {"wait", "returned"} <=> internalClosed
    /\ \A w \in Worker : worker[w] = "done" => internalClosed /\ internalChannel = << >>

InfluxInv == Influx!TypeOK /\ Channel /\ Held /\ Ordered /\ Closing

(* The invariant holds at the start ... *)
LEMMA InfluxStarts == Influx!Init => InfluxInv
<1> SUFFICES ASSUME Influx!Init PROVE InfluxInv
  OBVIOUS
<1> USE SameSets
<1>1. Influx!TypeOK
  <2>1. << >> \in Seq(Msg) /\ << >> \in Seq(Seq(Msg)) /\ Len(<< >>) = 0
    OBVIOUS
  <2>2. \A w \in Worker : w > 0 /\ worker[w] = "absent" /\ chunk[w] = << >>
    BY InfluxAssumption DEF Influx!Init, Worker
  <2>3. /\ worker \in [Worker -> {"absent", "idle", "writing", "done"}]
        /\ chunk \in [Worker -> Seq(Msg)]
    BY <2>1 DEF Influx!Init
  <2>4. /\ Len(canChannel) = 0 /\ Len(messageBlock) = 0 /\ Len(internalChannel) = 0
        /\ canChannel \in Seq(Msg) /\ messageBlock \in Seq(Msg)
        /\ internalChannel \in Seq(Seq(Msg)) /\ dropped \in Seq(Msg)
        /\ written \in Seq(Msg) /\ unwritten \in Seq(Msg)
    BY <2>1 DEF Influx!Init
  <2>5. /\ fed = 0 /\ launched = 0 /\ failedWrites = 0 /\ stage = "select"
        /\ inputClosed = FALSE /\ internalClosed = FALSE /\ cancelled = FALSE
    BY DEF Influx!Init
  <2>6. /\ \A w \in Worker : worker[w] = "absent" <=> w > launched
        /\ \A w \in Worker : chunk[w] # << >> <=> worker[w] = "writing"
    BY <2>2, <2>5
  <2>7. /\ fed \in 0..MaxFed /\ launched \in 0..MaxConnections
        /\ failedWrites \in 0..MaxFailedWrites
        /\ Len(canChannel) <= MessageBufferSize /\ Len(messageBlock) <= MaxWriteLines
        /\ Len(messageBlock) < MaxWriteLines /\ Len(internalChannel) <= MaxConnections
    BY <2>4, <2>5, InfluxAssumption
  <2>8. \A i \in 1..Len(internalChannel) : Len(internalChannel[i]) \in 1..MaxWriteLines
    BY <2>4
  <2>9. stage = "select" => Len(messageBlock) < MaxWriteLines
    BY <2>7
  <2>10. QED
    BY <2>3, <2>4, <2>5, <2>6, <2>7, <2>8, <2>9 DEF Influx!TypeOK
<1>2. fed = 0 /\ Len(canChannel) = 0
  BY DEF Influx!Init
<1>3. Taken = 0
  BY <1>2 DEF Taken
<1>4. Channel
  BY <1>2, <1>3 DEF Channel
<1>5. Ordered
  <2>1. Len(internalChannel) = 0 /\ Len(messageBlock) = 0
    BY DEF Influx!Init
  <2>2. QED
    BY <2>1 DEF Ordered
<1>6. Closing
  BY DEF Influx!Init, Closing
<1>7. ASSUME NEW b \in Boxes PROVE Contents[b] = << >>
  <2>1. Len(internalChannel) = 0
    BY DEF Influx!Init
  <2>2. ASSUME NEW w \in Worker
        PROVE  Contents[<<"queue", w>>] = << >> /\ Contents[<<"worker", w>>] = << >>
    BY <2>1, InBoxes DEF Influx!Init, Worker
  <2>3. QED
    BY <2>2, EachBox, InBoxes DEF Influx!Init
<1>8. Contents \in [Boxes -> Seq(Msg)]
  <2>1. << >> \in Seq(Msg)
    OBVIOUS
  <2>2. QED
    BY <1>7, <2>1, ContentsMap
<1>9. Held
  <2>1. \A b \in Boxes : Len(Contents[b]) = 0
    BY <1>7
  <2>2. QED
    BY <1>3, <1>8, <2>1 DEF Held, OneHome
<1>10. QED
  BY <1>1, <1>4, <1>5, <1>6, <1>9 DEF InfluxInv

(* ... and a step keeps each part of it: the types ... *)
LEMMA InfluxTypesKept == InfluxInv /\ [Influx!Next]_(Influx!vars) => Influx!TypeOK'
<1> SUFFICES ASSUME InfluxInv, [Influx!Next]_(Influx!vars) PROVE Influx!TypeOK'
  OBVIOUS
<1> USE InfluxAssumption, SameSets DEF InfluxInv, Influx!TypeOK, Influx!input, Influx!handler, Influx!pool,
        Influx!result
<1>1. CASE Influx!Feed
  BY <1>1 DEF Influx!Feed, Msg
<1>2. CASE Influx!CloseInput \/ Influx!Cancel
  BY <1>2 DEF Influx!CloseInput, Influx!Cancel
<1>3. CASE Influx!Stop \/ Influx!Tick
  BY <1>3 DEF Influx!Stop, Influx!Tick
<1>4. CASE Influx!Take
  <2>1. canChannel # << >> /\ canChannel' = Tail(canChannel)
    BY <1>4 DEF Influx!Take
  <2>2. Head(canChannel) \in Msg /\ Tail(canChannel) \in Seq(Msg)
        /\ Len(Tail(canChannel)) <= MessageBufferSize
    BY <2>1
  <2>3. /\ Append(messageBlock, Head(canChannel)) \in Seq(Msg)
        /\ Len(Append(messageBlock, Head(canChannel))) = Len(messageBlock) + 1
    BY <2>2
  <2>4. stage = "select" /\ Len(messageBlock) < MaxWriteLines
    BY <1>4 DEF Influx!Take
  <2>5. /\ messageBlock' \in Seq(Msg) /\ Len(messageBlock') <= MaxWriteLines
        /\ stage' \in {"select", "flush"}
        /\ stage' = "select" => Len(messageBlock') < MaxWriteLines
    <3>1. CASE Head(canChannel) \in Filtered
      BY <1>4, <2>4, <3>1 DEF Influx!Take
    <3>2. CASE Head(canChannel) \notin Filtered
      <4>1. /\ messageBlock' = Append(messageBlock, Head(canChannel))
            /\ stage' = IF Len(messageBlock') >= MaxWriteLines THEN "flush" ELSE "select"
        BY <1>4, <3>2 DEF Influx!Take
      <4>2. messageBlock' \in Seq(Msg) /\ Len(messageBlock') = Len(messageBlock) + 1
        BY <2>3, <4>1
      <4>3. QED
        BY <2>4, <4>1, <4>2
    <3>3. QED
      BY <3>1, <3>2
  <2>6. QED
    BY <1>4, <2>1, <2>2, <2>5 DEF Influx!Take
<1>5. CASE Influx!Flush
  <2>1. /\ Append(internalChannel, messageBlock) \in Seq(Seq(Msg))
        /\ Len(Append(internalChannel, messageBlock)) = Len(internalChannel) + 1
        /\ \A i \in 1..(Len(internalChannel) + 1) :
              Append(internalChannel, messageBlock)[i] \in
                  {messageBlock} \cup {internalChannel[j] : j \in 1..Len(internalChannel)}
        /\ dropped \o messageBlock \in Seq(Msg)
        /\ messageBlock # << >> => Len(messageBlock) \in 1..MaxWriteLines
        /\ << >> \in Seq(Msg) /\ Len(<< >>) = 0
    OBVIOUS
  <2>2. /\ internalChannel' \in Seq(Seq(Msg)) /\ Len(internalChannel') <= MaxConnections
        /\ \A i \in 1..Len(internalChannel') : Len(internalChannel'[i]) \in 1..MaxWriteLines
        /\ dropped' \in Seq(Msg)
    <3>1. CASE messageBlock # << >> /\ Len(internalChannel) < MaxConnections
      <4>1. internalChannel' = Append(internalChannel, messageBlock) /\ dropped' = dropped
        BY <1>5, <3>1 DEF Influx!Flush
      <4>2. QED
        BY <2>1, <3>1, <4>1
    <3>2. CASE ~ (messageBlock # << >> /\ Len(internalChannel) < MaxConnections)
      BY <1>5, <2>1, <3>2 DEF Influx!Flush
    <3>3. QED
      BY <3>1, <3>2
  <2>3. /\ messageBlock' \in Seq(Msg) /\ Len(messageBlock') = 0
        /\ stage' \in {"close", "select"}
    BY <1>5, <2>1 DEF Influx!Flush, Influx!AfterFlush
  <2>4. UNCHANGED <<fed, canChannel, inputClosed, internalClosed, launched, worker, chunk,
                    cancelled, written, unwritten, failedWrites>>
    BY <1>5 DEF Influx!Flush
  <2> HIDE InfluxAssumption
  <2>5. MaxWriteLines \in Nat \ {0}
    BY InfluxAssumption
  <2>6. QED
    BY <2>2, <2>3, <2>4, <2>5
<1>6. CASE Influx!Close \/ Influx!Wait
  BY <1>6 DEF Influx!Close, Influx!Wait
<1>7. CASE Influx!Launch
  BY <1>7 DEF Influx!Launch, Worker
<1>8. ASSUME NEW w \in Worker, Influx!TakeChunk(w) PROVE Influx!TypeOK'
  <2>1. /\ internalChannel # << >> /\ worker[w] = "idle"
        /\ internalChannel' = Tail(internalChannel)
        /\ chunk' = [chunk EXCEPT ![w] = Head(internalChannel)]
        /\ worker' = [worker EXCEPT ![w] = "writing"]
    BY <1>8 DEF Influx!TakeChunk
  <2>2. /\ Len(internalChannel) \in Nat \ {0} /\ Len(Tail(internalChannel)) = Len(internalChannel) - 1
        /\ Tail(internalChannel) \in Seq(Seq(Msg))
        /\ \A i \in 1..Len(Tail(internalChannel)) : Tail(internalChannel)[i] = internalChannel[i + 1]
        /\ Head(internalChannel) = internalChannel[1]
    BY <2>1
  <2>3. Head(internalChannel) \in Seq(Msg) /\ Len(Head(internalChannel)) > 0
    BY <2>2
  <2>4. /\ internalChannel' \in Seq(Seq(Msg)) /\ Len(internalChannel') <= MaxConnections
        /\ \A i \in 1..Len(internalChannel') : Len(internalChannel'[i]) \in 1..MaxWriteLines
    BY <2>1, <2>2
  <2>5. /\ chunk' \in [Worker -> Seq(Msg)] /\ chunk'[w] # << >>
        /\ \A v \in Worker \ {w} : chunk'[v] = chunk[v]
    BY <2>1, <2>3
  <2>6. /\ worker' \in [Worker -> {"absent", "idle", "writing", "done"}] /\ worker'[w] = "writing"
        /\ \A v \in Worker \ {w} : worker'[v] = worker[v]
    BY <2>1
  <2>7. UNCHANGED <<fed, canChannel, inputClosed, stage, messageBlock, internalClosed, launched,
                    cancelled, failedWrites, dropped, written, unwritten>>
    BY <1>8 DEF Influx!TakeChunk
  <2>8. /\ \A v \in Worker : worker'[v] = "absent" <=> v > launched
        /\ \A v \in Worker : chunk'[v] # << >> <=> worker'[v] = "writing"
    BY <2>1, <2>5, <2>6
  <2>9. QED
    BY <2>4, <2>5, <2>6, <2>7, <2>8
<1>9. ASSUME NEW w \in Worker, Influx!Write(w) PROVE Influx!TypeOK'
  <2>1. /\ worker[w] = "writing"
        /\ chunk' = [chunk EXCEPT ![w] = << >>]
        /\ worker' = [worker EXCEPT ![w] = "idle"]
    BY <1>9 DEF Influx!Write
  <2>2. chunk[w] \in Seq(Msg) /\ << >> \in Seq(Msg)
    OBVIOUS
  <2>3. written \o chunk[w] \in Seq(Msg) /\ unwritten \o chunk[w] \in Seq(Msg)
    BY <2>2, Concatenation
  <2>4. /\ written' \in Seq(Msg) /\ unwritten' \in Seq(Msg)
        /\ failedWrites' \in 0..MaxFailedWrites
    <3>1. /\ written' = written \/ written' = written \o chunk[w]
          /\ unwritten' = unwritten \/ unwritten' = unwritten \o chunk[w]
          /\ \/ failedWrites' = failedWrites
             \/ failedWrites < MaxFailedWrites /\ failedWrites' = failedWrites + 1
      BY <1>9 DEF Influx!Write
    <3>2. written' \in Seq(Msg) /\ unwritten' \in Seq(Msg)
      BY <2>3, <3>1
    <3>3. failedWrites' \in 0..MaxFailedWrites
      BY <3>1
    <3>4. QED
      BY <3>2, <3>3
  <2>5. /\ chunk' \in [Worker -> Seq(Msg)] /\ chunk'[w] = << >>
        /\ \A v \in Worker \ {w} : chunk'[v] = chunk[v]
    BY <2>1, <2>2
  <2>6. /\ worker' \in [Worker -> {"absent", "idle", "writing", "done"}] /\ worker'[w] = "idle"
        /\ \A v \in Worker \ {w} : worker'[v] = worker[v]
    BY <2>1
  <2>7. UNCHANGED <<fed, canChannel, inputClosed, stage, messageBlock, internalChannel,
                    internalClosed, launched, cancelled, dropped>>
    BY <1>9 DEF Influx!Write
  <2>8. /\ \A v \in Worker : worker'[v] = "absent" <=> v > launched
        /\ \A v \in Worker : chunk'[v] # << >> <=> worker'[v] = "writing"
    BY <2>1, <2>5, <2>6
  <2>9. QED
    BY <2>4, <2>5, <2>6, <2>7, <2>8
<1>10. ASSUME NEW w \in Worker, Influx!EndWorker(w) PROVE Influx!TypeOK'
  BY <1>10 DEF Influx!EndWorker
<1>11. CASE UNCHANGED Influx!vars
  BY <1>11 DEF Influx!vars
<1>12. QED
  BY <1>1, <1>2, <1>3, <1>4, <1>5, <1>6, <1>7, <1>8, <1>9, <1>10, <1>11
  DEF Influx!Next, Influx!Handler, Influx!Work

(* ... the order of closing ... *)
LEMMA ClosingKept == InfluxInv /\ [Influx!Next]_(Influx!vars) => Closing'
<1> SUFFICES ASSUME InfluxInv, [Influx!Next]_(Influx!vars) PROVE Closing'
  OBVIOUS
<1>0. worker \in [Worker -> {"absent", "idle", "writing", "done"}]
  BY SameSets DEF InfluxInv, Influx!TypeOK
<1> USE DEF Closing, Influx!input, Influx!handler, Influx!pool, Influx!result
<1>1. CASE UNCHANGED <<stage, internalClosed, worker, internalChannel>>
  BY <1>1 DEF InfluxInv
<1>2. CASE Influx!Feed \/ Influx!CloseInput \/ Influx!Cancel
  BY <1>1, <1>2 DEF Influx!Feed, Influx!CloseInput, Influx!Cancel
<1>3. CASE Influx!Stop \/ Influx!Tick
  BY <1>3 DEF InfluxInv, Influx!Stop, Influx!Tick
<1>4. CASE Influx!Take
  BY <1>4 DEF InfluxInv, Influx!Take
<1>5. CASE Influx!Flush
  <2>1. stage \in {"flush", "last"} /\ stage' \in {"close", "select"}
        /\ UNCHANGED <<internalClosed, worker>>
    BY <1>5 DEF Influx!Flush, Influx!AfterFlush
  <2>2. QED
    BY <2>1 DEF InfluxInv
<1>6. CASE Influx!Close \/ Influx!Wait
  BY <1>6 DEF InfluxInv, Influx!Close, Influx!Wait
<1>7. CASE Influx!Launch
  <2>1. /\ UNCHANGED <<stage, internalClosed, internalChannel>>
        /\ \A w \in Worker : worker'[w] = "done" => worker[w] = "done"
    BY <1>0, <1>7 DEF Influx!Launch
  <2>2. QED
    BY <2>1 DEF InfluxInv
<1>8. ASSUME NEW w \in Worker, Influx!TakeChunk(w) PROVE Closing'
  <2>1. /\ UNCHANGED <<stage, internalClosed>> /\ internalChannel # << >>
        /\ \A v \in Worker : worker'[v] = "done" => worker[v] = "done"
    BY <1>0, <1>8 DEF Influx!TakeChunk
  <2>2. QED
    BY <2>1 DEF InfluxInv
<1>9. ASSUME NEW w \in Worker, Influx!Write(w) PROVE Closing'
  <2>1. /\ UNCHANGED <<stage, internalClosed, internalChannel>>
        /\ \A v \in Worker : worker'[v] = "done" => worker[v] = "done"
    BY <1>0, <1>9 DEF Influx!Write
  <2>2. QED
    BY <2>1 DEF InfluxInv
<1>10. ASSUME NEW w \in Worker, Influx!EndWorker(w) PROVE Closing'
  BY <1>0, <1>10 DEF InfluxInv, Influx!EndWorker
<1>11. CASE UNCHANGED Influx!vars
  BY <1>1, <1>11 DEF Influx!vars
<1>12. QED
  BY <1>2, <1>3, <1>4, <1>5, <1>6, <1>7, <1>8, <1>9, <1>10, <1>11, SameSets
  DEF Influx!Next, Influx!Handler, Influx!Work

(* What a step takes, and what it leaves of the channel. *)
LEMMA ChannelKept == InfluxInv /\ [Influx!Next]_(Influx!vars) => Channel'
<1> SUFFICES ASSUME InfluxInv, [Influx!Next]_(Influx!vars) PROVE Channel'
  OBVIOUS
<1> USE DEF Influx!input
<1>0. canChannel \in Seq(Msg) /\ fed \in Nat /\ Len(canChannel) \in Nat
  BY SameSets, InfluxAssumption DEF InfluxInv, Influx!TypeOK
<1>1. CASE Influx!Feed
  <2>1. fed' = fed + 1 /\ canChannel' = Append(canChannel, fed + 1)
    BY <1>1 DEF Influx!Feed
  <2>2. /\ Len(canChannel') = Len(canChannel) + 1
        /\ canChannel'[Len(canChannel) + 1] = fed + 1
        /\ \A i \in 1..Len(canChannel) : canChannel'[i] = canChannel[i]
    BY <1>0, <2>1
  <2>3. Taken' = Taken /\ fed = Taken + Len(canChannel)
    BY <1>0, <2>1, <2>2 DEF Taken
  <2>4. Taken \in Nat /\ \A i \in 1..Len(canChannel) : canChannel[i] = Taken + i
    BY DEF InfluxInv, Channel
  <2>5. ASSUME NEW i \in 1..Len(canChannel') PROVE canChannel'[i] = Taken' + i
    <3>1. CASE i = Len(canChannel) + 1
      BY <1>0, <2>2, <2>3, <2>4, <3>1
    <3>2. CASE i \in 1..Len(canChannel)
      BY <2>2, <2>3, <2>4, <3>2
    <3>3. QED
      BY <1>0, <2>2, <3>1, <3>2
  <2>6. QED
    BY <2>3, <2>4, <2>5 DEF Channel
<1>2. CASE Influx!Take
  <2>1. fed' = fed /\ canChannel # << >> /\ canChannel' = Tail(canChannel)
    BY <1>2 DEF Influx!Take
  <2>2. /\ Len(canChannel) > 0 /\ Len(canChannel') = Len(canChannel) - 1
        /\ \A i \in 1..Len(canChannel') : canChannel'[i] = canChannel[i + 1]
    BY <1>0, <2>1
  <2>3. Taken' = Taken + 1
    BY <1>0, <2>1, <2>2 DEF Taken
  <2>4. Taken \in Nat /\ \A i \in 1..Len(canChannel) : canChannel[i] = Taken + i
    BY DEF InfluxInv, Channel
  <2>5. \A i \in 1..Len(canChannel') : canChannel'[i] = Taken' + i
    BY <1>0, <2>2, <2>3, <2>4
  <2>6. QED
    BY <2>3, <2>4, <2>5 DEF Channel
<1>3. CASE UNCHANGED <<fed, canChannel>>
  BY <1>3 DEF InfluxInv, Channel, Taken
<1>4. QED
  BY <1>1, <1>2, <1>3 DEF Influx!Next, Influx!Handler, Influx!Work, Influx!vars, Influx!CloseInput,
     Influx!Cancel, Influx!Stop, Influx!Tick, Influx!Flush, Influx!Close, Influx!Wait, Influx!Launch,
     Influx!TakeChunk, Influx!Write, Influx!EndWorker

(* No message moves. *)
LEMMA HeldStill ==
    ASSUME InfluxInv, Taken' = Taken,
           UNCHANGED <<messageBlock, internalChannel, chunk, written, unwritten, dropped>>
    PROVE  Held'
<1>1. Contents' = Contents
  BY DEF Contents, In
<1>2. QED
  BY <1>1 DEF InfluxInv, Held, OneHome

(* ... the home of each message, when one comes in ... *)
LEMMA HeldByTake == InfluxInv /\ Influx!TypeOK' /\ Influx!Take => Held'
<1> SUFFICES ASSUME InfluxInv, Influx!TypeOK', Influx!Take PROVE Held'
  OBVIOUS
<1>0. Contents' \in [Boxes -> Seq(Msg)]
  BY ContentsTyped
<1>1. /\ canChannel # << >> /\ canChannel' = Tail(canChannel) /\ fed' = fed
      /\ UNCHANGED <<internalChannel, chunk, written, unwritten, dropped>>
  BY DEF Influx!Take, Influx!pool, Influx!result
<1>2. canChannel \in Seq(Msg) /\ fed \in Nat /\ Len(canChannel) \in Nat /\ messageBlock \in Seq(Msg)
  BY SameSets, InfluxAssumption DEF InfluxInv, Influx!TypeOK
<1>3. /\ Len(canChannel) > 0 /\ Len(canChannel') = Len(canChannel) - 1
      /\ Head(canChannel) = canChannel[1] /\ Head(canChannel) \in Msg
  BY <1>1, <1>2
<1>4. Taken' = Taken + 1 /\ Taken \in Nat
  BY <1>1, <1>2, <1>3 DEF Taken, InfluxInv, Channel
<1>5. Head(canChannel) = Taken + 1
  BY <1>2, <1>3, <1>4 DEF InfluxInv, Channel
<1>6. OneHome(Contents, Taken)
  BY DEF InfluxInv, Held
<1>7. CASE Head(canChannel) \in Filtered
  <2>1. messageBlock' = messageBlock
    BY <1>7 DEF Influx!Take, Influx!handler
  <2>2. Contents' = Contents
    BY <1>1, <2>1 DEF Contents, In
  <2>3. QED
    BY <1>4, <1>5, <1>6, <1>7, <2>2, Rejected DEF Held
<1>8. CASE Head(canChannel) \notin Filtered
  <2>1. messageBlock' = Append(messageBlock, Taken + 1)
    BY <1>5, <1>8 DEF Influx!Take
  <2>2. Contents'[<<"block", 0>>] = Append(Contents[<<"block", 0>>], Taken + 1)
    BY <2>1, InBoxes, InBoxesNext
  <2>3. \A b \in Boxes \ {<<"block", 0>>} : Contents'[b] = Contents[b]
    BY <1>1, StaysIn
  <2>4. Taken + 1 \in Msg /\ Taken + 1 \notin Filtered
    BY <1>3, <1>5, <1>8
  <2>5. <<"block", 0>> \in Boxes
    BY AllBoxes
  <2>6. PutsIn(Contents', Contents, <<"block", 0>>, Taken + 1)
    BY <2>2, <2>3 DEF PutsIn
  <2>7. OneHome(Contents', Taken + 1)
    BY <1>0, <1>4, <1>6, <2>4, <2>5, <2>6, PutIn
  <2>8. QED
    BY <1>4, <2>7 DEF Held
<1>9. QED
  BY <1>7, <1>8

(* The block becomes a batch, the queue's last, or is dropped. *)
LEMMA HeldByFlush == InfluxInv /\ Influx!TypeOK' /\ Influx!Flush => Held'
<1> SUFFICES ASSUME InfluxInv, Influx!TypeOK', Influx!Flush PROVE Held'
  OBVIOUS
<1> DEFINE n == Len(internalChannel)
<1>0. Contents' \in [Boxes -> Seq(Msg)]
  BY ContentsTyped
<1>1. /\ messageBlock' = << >> /\ Taken' = Taken
      /\ UNCHANGED <<chunk, written, unwritten>>
  BY DEF Influx!Flush, Influx!pool, Influx!result, Influx!input, Taken
<1>2. /\ messageBlock \in Seq(Msg) /\ dropped \in Seq(Msg)
      /\ internalChannel \in Seq(Seq(Msg)) /\ n \in Nat /\ n <= MaxConnections
  BY SameSets DEF InfluxInv, Influx!TypeOK
<1>3. OneHome(Contents, Taken)
  BY DEF InfluxInv, Held
<1>4. CASE messageBlock # << >> /\ n < MaxConnections
  <2> DEFINE q == <<"queue", n + 1>>
             k == <<"block", 0>>
             r == [b \in Boxes |-> IF b = k THEN q ELSE IF b = q THEN k ELSE b]
  <2>1. internalChannel' = Append(internalChannel, messageBlock) /\ dropped' = dropped
    BY <1>4 DEF Influx!Flush
  <2>2. /\ Len(internalChannel') = n + 1 /\ internalChannel'[n + 1] = messageBlock
        /\ \A i \in 1..n : internalChannel'[i] = internalChannel[i]
    BY <1>2, <2>1
  <2>10. n + 1 \in 1..MaxConnections /\ ~ (n + 1 <= n)
    BY <1>2, <1>4, InfluxAssumption
  <2>11. n + 1 <= n + 1
    BY <1>2
  <2>3. n + 1 \in Worker /\ k \in Boxes /\ q \in Boxes /\ k # q
    BY <2>10, AllBoxes DEF Worker
  <2>4. r \in [Boxes -> Boxes] /\ \A b \in Boxes : r[r[b]] = b
    BY <2>3
  <2>5. Contents'[k] = Contents[q] /\ Contents'[q] = Contents[k]
    <3>1. Contents'[q] = messageBlock
      BY <2>2, <2>3, <2>11, InBoxesNext
    <3>2. Contents[q] = << >>
      BY <2>3, <2>10, InBoxes
    <3>3. QED
      BY <1>1, <3>1, <3>2, InBoxes, InBoxesNext
  <2>6. ASSUME NEW b \in Boxes, b # k, b # q PROVE Contents'[b] = Contents[b]
    <3>1. ASSUME NEW w \in Worker, b = <<"queue", w>> PROVE Contents'[b] = Contents[b]
      <4>1. w # n + 1 /\ w \in Nat /\ w >= 1
        BY <2>6, <3>1 DEF Worker
      <4>2. w <= n + 1 <=> w <= n
        BY <1>2, <4>1
      <4>3. Contents'[b] = IF w <= n + 1 THEN internalChannel'[w] ELSE << >>
        BY <2>2, <3>1, InBoxesNext
      <4>4. Contents[b] = IF w <= n THEN internalChannel[w] ELSE << >>
        BY <3>1, InBoxes
      <4>5. w <= n => internalChannel'[w] = internalChannel[w]
        BY <1>2, <2>2, <4>1
      <4>6. QED
        BY <4>2, <4>3, <4>4, <4>5
    <3>2. CASE \A w \in Worker : b # <<"queue", w>>
      BY <1>1, <2>1, <2>6, <3>2, StaysIn
    <3>3. QED
      BY <3>1, <3>2
  <2>7. \A b \in Boxes : Contents'[b] = Contents[r[b]]
    BY <2>3, <2>5, <2>6
  <2> HIDE DEF r
  <2>12. Renames(Contents', Contents, r, r)
    BY <2>4, <2>7 DEF Renames
  <2>8. OneHome(Contents', Taken)
    BY <1>0, <1>3, <2>12, Renamed
  <2>9. QED
    BY <1>1, <2>8 DEF Held
<1>5. CASE ~ (messageBlock # << >> /\ n < MaxConnections)
  <2> DEFINE k == <<"block", 0>>
             d == <<"dropped", 0>>
  <2>1. dropped' = dropped \o messageBlock /\ internalChannel' = internalChannel
    BY <1>5 DEF Influx!Flush
  <2>2. k \in Boxes /\ d \in Boxes /\ d # k
    BY AllBoxes
  <2>3. /\ Contents'[k] = << >> /\ Contents'[d] = dropped'
        /\ Contents[k] = messageBlock /\ Contents[d] = dropped
    BY <1>1, InBoxes, InBoxesNext
  <2>4. \A b \in Boxes \ {d, k} : Contents'[b] = Contents[b]
    BY <1>1, <2>1, StaysIn
  <2>5. Contents'[d] = Contents[d] \o Contents[k]
    BY <2>1, <2>3
  <2>6. Pours(Contents', Contents, d, k)
    BY <2>3, <2>4, <2>5 DEF Pours
  <2> HIDE DEF d, k
  <2>7. OneHome(Contents', Taken)
    BY <1>0, <1>3, <2>2, <2>6, Pouring
  <2>8. QED
    BY <1>1, <2>7 DEF Held
<1>6. QED
  BY <1>4, <1>5

(* The first batch goes to a worker without one, the others move up. *)
LEMMA HeldByTakeChunk ==
    ASSUME InfluxInv, Influx!TypeOK', NEW w \in Worker, Influx!TakeChunk(w)
    PROVE  Held'
<1> DEFINE n == Len(internalChannel)
           q(v) == <<"queue", v>>
           h == <<"worker", w>>
<1>0. Contents' \in [Boxes -> Seq(Msg)]
  BY ContentsTyped
<1>1. /\ internalChannel # << >> /\ worker[w] = "idle"
      /\ internalChannel' = Tail(internalChannel)
      /\ chunk' = [chunk EXCEPT ![w] = Head(internalChannel)]
      /\ UNCHANGED <<messageBlock, written, unwritten, dropped>> /\ Taken' = Taken
  BY DEF Influx!TakeChunk, Influx!handler, Influx!result, Influx!input, Taken
<1>2. /\ internalChannel \in Seq(Seq(Msg)) /\ n \in Nat /\ n <= MaxConnections
      /\ chunk \in [Worker -> Seq(Msg)] /\ chunk[w] = << >>
  <2>1. internalChannel \in Seq(Seq(Msg)) /\ n <= MaxConnections /\ chunk \in [Worker -> Seq(Msg)]
    BY SameSets DEF InfluxInv, Influx!TypeOK
  <2>2. chunk[w] # << >> <=> worker[w] = "writing"
    BY SameSets DEF InfluxInv, Influx!TypeOK
  <2>3. QED
    BY <1>1, <2>1, <2>2
<1>3. OneHome(Contents, Taken)
  BY DEF InfluxInv, Held
<1>4. /\ n >= 1 /\ Len(internalChannel') = n - 1 /\ Head(internalChannel) = internalChannel[1]
      /\ \A i \in 1..(n - 1) : internalChannel'[i] = internalChannel[i + 1]
  BY <1>1, <1>2
<1>5. MaxConnections \in Nat \ {0} /\ Worker = 1..MaxConnections
  BY InfluxAssumption DEF Worker
(* Where each box of the next state was, and where each of this will be. *)
<1> DEFINE r == [b \in Boxes |->
                    IF b = h THEN q(1)
                    ELSE IF b = q(MaxConnections) THEN h
                    ELSE IF b[1] = "queue" THEN q(b[2] + 1) ELSE b]
           s == [b \in Boxes |->
                    IF b = h THEN q(MaxConnections)
                    ELSE IF b = q(1) THEN h
                    ELSE IF b[1] = "queue" THEN q(b[2] - 1) ELSE b]
<1>6. /\ h \in Boxes /\ h[1] = "worker" /\ \A v \in Worker : q(v) \in Boxes
      /\ \A v : q(v)[1] = "queue" /\ q(v)[2] = v /\ q(v) # h
      /\ \A u, v : q(u) = q(v) => u = v
  BY AllBoxes
<1>7. \A b \in Boxes : b[1] = "queue" => \E v \in Worker : b = q(v)
  BY EachBox
<1> HIDE DEF q, h
<1>14. /\ r[h] = q(1) /\ r[q(MaxConnections)] = h
       /\ \A v \in Worker : v # MaxConnections => r[q(v)] = q(v + 1)
       /\ \A b \in Boxes : b # h /\ b[1] # "queue" => r[b] = b
  BY <1>5, <1>6
<1>15. /\ s[h] = q(MaxConnections) /\ s[q(1)] = h
       /\ \A v \in Worker : v # 1 => s[q(v)] = q(v - 1)
       /\ \A b \in Boxes : b # h /\ b[1] # "queue" => s[b] = b
  BY <1>5, <1>6
<1> HIDE DEF r, s
<1>8. ASSUME NEW b \in Boxes
      PROVE  r[b] \in Boxes /\ s[b] \in Boxes /\ r[s[b]] = b /\ s[r[b]] = b
  <2>1. CASE b = h
    BY <1>5, <1>6, <1>14, <1>15, <2>1
  <2>2. ASSUME NEW v \in Worker, b = q(v)
        PROVE  r[b] \in Boxes /\ s[b] \in Boxes /\ r[s[b]] = b /\ s[r[b]] = b
    <3>1. r[q(v)] \in Boxes /\ s[r[q(v)]] = q(v)
      <4>1. CASE v = MaxConnections
        BY <1>5, <1>6, <1>14, <1>15, <4>1
      <4>2. CASE v # MaxConnections
        <5>1. v + 1 \in Worker /\ v + 1 # 1 /\ (v + 1) - 1 = v
          BY <1>5, <4>2
        <5>2. QED
          BY <1>6, <1>14, <1>15, <4>2, <5>1
      <4>3. QED
        BY <4>1, <4>2
    <3>2. s[q(v)] \in Boxes /\ r[s[q(v)]] = q(v)
      <4>1. CASE v = 1
        BY <1>5, <1>6, <1>14, <1>15, <4>1
      <4>2. CASE v # 1
        <5>1. v - 1 \in Worker /\ v - 1 # MaxConnections /\ (v - 1) + 1 = v
          BY <1>5, <4>2
        <5>2. QED
          BY <1>6, <1>14, <1>15, <4>2, <5>1
      <4>3. QED
        BY <4>1, <4>2
    <3>3. QED
      BY <2>2, <3>1, <3>2
  <2>3. CASE b # h /\ b[1] # "queue"
    <3>1. r[b] = b /\ s[b] = b
      BY <1>14, <1>15, <2>3
    <3>2. QED
      BY <3>1
  <2>4. QED
    BY <1>7, <2>1, <2>2, <2>3
<1>16. /\ Contents'[h] = internalChannel[1] /\ Contents[h] = << >>
       /\ \A v \in Worker : Contents[q(v)] = IF v <= n THEN internalChannel[v] ELSE << >>
       /\ \A v \in Worker : Contents'[q(v)] = IF v <= n - 1 THEN internalChannel'[v] ELSE << >>
  BY <1>1, <1>2, <1>4, InBoxes, InBoxesNext DEF h, q
<1>9. ASSUME NEW b \in Boxes PROVE Contents'[b] = Contents[r[b]]
  <2>1. CASE b = h
    <3>1. Contents[q(1)] = internalChannel[1]
      BY <1>4, <1>5, <1>16
    <3>2. QED
      BY <1>14, <1>16, <2>1, <3>1
  <2>2. ASSUME NEW v \in Worker, b = q(v) PROVE Contents'[b] = Contents[r[b]]
    <3>1. CASE v = MaxConnections
      <4>1. ~ (v <= n - 1)
        BY <1>2, <1>5, <3>1
      <4>2. QED
        BY <1>14, <1>16, <2>2, <3>1, <4>1
    <3>2. CASE v # MaxConnections
      <4>1. r[b] = q(v + 1) /\ v + 1 \in Worker /\ v \in Nat /\ v >= 1
        BY <1>5, <1>14, <2>2, <3>2
      <4>2. Contents[q(v + 1)] = IF v + 1 <= n THEN internalChannel[v + 1] ELSE << >>
        BY <1>16, <4>1
      <4>3. Contents'[b] = IF v <= n - 1 THEN internalChannel'[v] ELSE << >>
        BY <1>16, <2>2
      <4>4. v + 1 <= n <=> v <= n - 1
        BY <1>2, <4>1
      <4>5. v <= n - 1 => internalChannel'[v] = internalChannel[v + 1]
        <5>1. v <= n - 1 => v \in 1..Len(internalChannel')
          BY <1>2, <1>4, <4>1
        <5>2. QED
          BY <5>1, <1>2, <1>4, <4>1
      <4>6. QED
        BY <4>1, <4>2, <4>3, <4>4, <4>5
    <3>3. QED
      BY <3>1, <3>2
  <2>3. CASE b # h /\ b[1] # "queue"
    <3>1. \A v \in Worker : b # <<"queue", v>>
      BY <2>3
    <3>2. \A v \in Worker : b = <<"worker", v>> => chunk'[v] = chunk[v]
      BY <1>1, <1>2, <2>3 DEF h
    <3>3. Contents'[b] = Contents[b]
      BY <1>1, <3>1, <3>2, StaysIn
    <3>4. QED
      BY <1>14, <2>3, <3>3
  <2>4. QED
    BY <1>7, <2>1, <2>2, <2>3
<1>10. r \in [Boxes -> Boxes] /\ s \in [Boxes -> Boxes]
  <2>1. r = [b \in Boxes |-> r[b]] /\ s = [b \in Boxes |-> s[b]]
    BY DEF r, s
  <2>2. QED
    BY <1>8, <2>1
<1>11. \A b \in Boxes : r[s[b]] = b /\ s[r[b]] = b
  BY <1>8
<1>17. Renames(Contents', Contents, r, s)
  BY <1>9, <1>10, <1>11 DEF Renames
<1>12. OneHome(Contents', Taken)
  BY <1>0, <1>3, <1>17, Renamed
<1>13. QED
  BY <1>1, <1>12 DEF Held

(* A batch is written, or fails to be. *)
LEMMA HeldByWrite ==
    ASSUME InfluxInv, Influx!TypeOK', NEW w \in Worker, Influx!Write(w)
    PROVE  Held'
<1> DEFINE h == <<"worker", w>>
<1>0. Contents' \in [Boxes -> Seq(Msg)]
  BY ContentsTyped
<1>1. /\ chunk' = [chunk EXCEPT ![w] = << >>] /\ Taken' = Taken
      /\ UNCHANGED <<messageBlock, internalChannel, dropped>>
  BY DEF Influx!Write, Influx!handler, Influx!input, Taken
<1>2. chunk \in [Worker -> Seq(Msg)]
  BY SameSets DEF InfluxInv, Influx!TypeOK
<1>3. OneHome(Contents, Taken)
  BY DEF InfluxInv, Held
<1>4. h \in Boxes /\ Contents'[h] = << >> /\ Contents[h] = chunk[w]
  BY <1>1, <1>2, AllBoxes, InBoxes, InBoxesNext
<1>5. ASSUME NEW b \in Boxes \ {h, <<"written", 0>>, <<"unwritten", 0>>}
      PROVE  Contents'[b] = Contents[b]
  <2>1. \A v \in Worker : b = <<"worker", v>> => chunk'[v] = chunk[v]
    BY <1>1, <1>2
  <2>2. QED
    BY <1>1, <2>1, StaysIn
<1>6. CASE written' = written \o chunk[w] /\ unwritten' = unwritten
  <2> DEFINE d == <<"written", 0>>
  <2>1. d \in Boxes /\ d # h /\ Contents'[d] = Contents[d] \o Contents[h]
    BY <1>4, <1>6, AllBoxes, InBoxes, InBoxesNext
  <2>2. \A b \in Boxes \ {d, h} : Contents'[b] = Contents[b]
    BY <1>5, <1>6, InBoxes, InBoxesNext
  <2>3. Pours(Contents', Contents, d, h)
    BY <1>4, <2>1, <2>2 DEF Pours
  <2> HIDE DEF d, h
  <2>4. OneHome(Contents', Taken)
    BY <1>0, <1>3, <1>4, <2>1, <2>3, Pouring
  <2>5. QED
    BY <1>1, <2>4 DEF Held
<1>7. CASE unwritten' = unwritten \o chunk[w] /\ written' = written
  <2> DEFINE d == <<"unwritten", 0>>
  <2>1. d \in Boxes /\ d # h /\ Contents'[d] = Contents[d] \o Contents[h]
    BY <1>4, <1>7, AllBoxes, InBoxes, InBoxesNext
  <2>2. \A b \in Boxes \ {d, h} : Contents'[b] = Contents[b]
    BY <1>5, <1>7, InBoxes, InBoxesNext
  <2>3. Pours(Contents', Contents, d, h)
    BY <1>4, <2>1, <2>2 DEF Pours
  <2> HIDE DEF d, h
  <2>4. OneHome(Contents', Taken)
    BY <1>0, <1>3, <1>4, <2>1, <2>3, Pouring
  <2>5. QED
    BY <1>1, <2>4 DEF Held
<1>8. QED
  BY <1>6, <1>7 DEF Influx!Write

(* ... and in every step ... *)
LEMMA HeldKept == InfluxInv /\ [Influx!Next]_(Influx!vars) => Held'
<1> SUFFICES ASSUME InfluxInv, [Influx!Next]_(Influx!vars) PROVE Held'
  OBVIOUS
<1>1. CASE Influx!Feed
  <2>1. canChannel \in Seq(Msg) /\ fed \in Nat
    BY SameSets, InfluxAssumption DEF InfluxInv, Influx!TypeOK
  <2>2. fed' = fed + 1 /\ Len(canChannel') = Len(canChannel) + 1 /\ Len(canChannel) \in Nat
    BY <1>1, <2>1 DEF Influx!Feed
  <2>3. Taken' = Taken
    BY <2>1, <2>2 DEF Taken
  <2>4. QED
    BY <1>1, <2>3, HeldStill DEF Influx!Feed, Influx!handler, Influx!pool, Influx!result
<1>2. CASE Influx!Take \/ Influx!Flush \/ \E w \in Worker : Influx!TakeChunk(w) \/ Influx!Write(w)
  BY <1>2, InfluxTypesKept, HeldByTake, HeldByFlush, HeldByTakeChunk, HeldByWrite
<1>3. CASE UNCHANGED <<fed, canChannel, messageBlock, internalChannel, chunk, written,
                       unwritten, dropped>>
  BY <1>3, HeldStill DEF Taken
<1>4. QED
  BY <1>1, <1>2, <1>3, SameSets DEF Influx!Next, Influx!Handler, Influx!Work, Influx!vars,
     Influx!CloseInput, Influx!Cancel, Influx!Stop, Influx!Tick, Influx!Close, Influx!Wait,
     Influx!Launch, Influx!EndWorker, Influx!input, Influx!handler, Influx!pool, Influx!result

(* Everything in the block and in the batches has been taken. *)
LEMMA WaitingWasTaken ==
    ASSUME InfluxInv
    PROVE  /\ \A i \in 1..Len(messageBlock) : messageBlock[i] \in 1..Taken
           /\ \A a \in 1..Len(internalChannel) : \A i \in 1..Len(internalChannel[a]) :
                 internalChannel[a][i] \in 1..Taken
<1>1. \A b \in Boxes : \A i \in 1..Len(Contents[b]) : Contents[b][i] \in 1..Taken
  BY DEF InfluxInv, Held, OneHome
<1>2. <<"block", 0>> \in Boxes /\ Contents[<<"block", 0>>] = messageBlock
  BY AllBoxes, InBoxes
<1>3. ASSUME NEW a \in 1..Len(internalChannel)
      PROVE  <<"queue", a>> \in Boxes /\ Contents[<<"queue", a>>] = internalChannel[a]
  <2>1. Len(internalChannel) <= MaxConnections /\ Len(internalChannel) \in Nat
    BY SameSets DEF InfluxInv, Influx!TypeOK
  <2>2. a \in Worker /\ a <= Len(internalChannel)
    BY <2>1, InfluxAssumption DEF Worker
  <2>3. QED
    BY <2>2, AllBoxes, InBoxes
<1>4. QED
  BY <1>1, <1>2, <1>3

(* ... and the order of what waits. *)
LEMMA OrderKept == InfluxInv /\ [Influx!Next]_(Influx!vars) => Ordered'
<1> SUFFICES ASSUME InfluxInv, [Influx!Next]_(Influx!vars) PROVE Ordered'
  OBVIOUS
<1>0. /\ internalChannel \in Seq(Seq(Msg)) /\ messageBlock \in Seq(Msg) /\ canChannel \in Seq(Msg)
      /\ Len(internalChannel) \in Nat /\ Len(messageBlock) \in Nat
  BY SameSets DEF InfluxInv, Influx!TypeOK
<1>1. CASE Influx!Take
  <2>1. canChannel # << >> /\ internalChannel' = internalChannel
    BY <1>1 DEF Influx!Take
  <2>2. Taken \in Nat /\ Head(canChannel) = Taken + 1
    BY <1>0, <2>1 DEF InfluxInv, Channel
  <2>3. CASE messageBlock' = messageBlock
    BY <2>1, <2>3 DEF InfluxInv, Ordered
  <2>4. CASE messageBlock' = Append(messageBlock, Taken + 1)
    <3>1. /\ Len(messageBlock') = Len(messageBlock) + 1
          /\ messageBlock'[Len(messageBlock) + 1] = Taken + 1
          /\ \A i \in 1..Len(messageBlock) : messageBlock'[i] = messageBlock[i]
      BY <1>0, <2>4
    <3>2. ASSUME NEW i \in 1..Len(messageBlock')
          PROVE  \/ i \in 1..Len(messageBlock) /\ messageBlock'[i] = messageBlock[i]
                 \/ i = Len(messageBlock) + 1 /\ messageBlock'[i] = Taken + 1
      BY <1>0, <3>1
    <3>3. ASSUME NEW i \in 1..Len(messageBlock'), NEW j \in 1..Len(messageBlock'), i < j
          PROVE  messageBlock'[i] < messageBlock'[j]
      <4>1. CASE j \in 1..Len(messageBlock)
        <5>1. i \in 1..Len(messageBlock)
          BY <1>0, <3>3, <4>1
        <5>2. QED
          BY <3>1, <3>3, <4>1, <5>1 DEF InfluxInv, Ordered
      <4>2. CASE j = Len(messageBlock) + 1
        <5>1. i \in 1..Len(messageBlock)
          BY <1>0, <3>3, <4>2
        <5>2. messageBlock[i] \in 1..Taken
          BY <5>1, WaitingWasTaken
        <5>3. QED
          BY <2>2, <3>1, <4>2, <5>1, <5>2
      <4>3. QED
        BY <3>2, <4>1, <4>2
    <3>4. ASSUME NEW a \in 1..Len(internalChannel), NEW i \in 1..Len(internalChannel[a]),
                 NEW j \in 1..Len(messageBlock')
          PROVE  internalChannel[a][i] < messageBlock'[j]
      <4>1. CASE j \in 1..Len(messageBlock)
        BY <3>1, <4>1 DEF InfluxInv, Ordered
      <4>2. CASE j = Len(messageBlock) + 1
        <5>1. internalChannel[a][i] \in 1..Taken
          BY WaitingWasTaken
        <5>2. QED
          BY <2>2, <3>1, <4>2, <5>1
      <4>3. QED
        BY <3>2, <4>1, <4>2
    <3>5. QED
      BY <2>1, <3>3, <3>4 DEF InfluxInv, Ordered
  <2>5. QED
    BY <1>1, <2>2, <2>3, <2>4 DEF Influx!Take, Influx!handler
<1>2. CASE Influx!Flush
  <2>1. Len(messageBlock') = 0
    BY <1>2 DEF Influx!Flush
  <2>2. CASE internalChannel' = internalChannel
    BY <2>1, <2>2 DEF InfluxInv, Ordered
  <2>3. CASE internalChannel' = Append(internalChannel, messageBlock)
    <3> DEFINE n == Len(internalChannel)
    <3>1. /\ Len(internalChannel') = n + 1 /\ internalChannel'[n + 1] = messageBlock
          /\ \A a \in 1..n : internalChannel'[a] = internalChannel[a]
      BY <1>0, <2>3
    <3>2. ASSUME NEW a \in 1..Len(internalChannel'),
                 NEW i \in 1..Len(internalChannel'[a]), NEW j \in 1..Len(internalChannel'[a]), i < j
          PROVE  internalChannel'[a][i] < internalChannel'[a][j]
      <4>1. CASE a \in 1..n
        BY <3>1, <3>2, <4>1 DEF InfluxInv, Ordered
      <4>2. CASE a = n + 1
        BY <3>1, <3>2, <4>2 DEF InfluxInv, Ordered
      <4>3. QED
        BY <1>0, <3>1, <4>1, <4>2
    <3>3. ASSUME NEW a \in 1..Len(internalChannel'), NEW b \in 1..Len(internalChannel'), a < b,
                 NEW i \in 1..Len(internalChannel'[a]), NEW j \in 1..Len(internalChannel'[b])
          PROVE  internalChannel'[a][i] < internalChannel'[b][j]
      <4>1. a \in 1..n
        BY <1>0, <3>1, <3>3
      <4>2. CASE b \in 1..n
        BY <3>1, <3>3, <4>1, <4>2 DEF InfluxInv, Ordered
      <4>3. CASE b = n + 1
        BY <3>1, <4>1, <4>3 DEF InfluxInv, Ordered
      <4>4. b \in 1..n \/ b = n + 1
        <5>1. b \in 1..(n + 1)
          BY <3>1
        <5>2. n \in Nat
          BY <1>0
        <5> HIDE DEF n
        <5>3. QED
          BY <5>1, <5>2
      <4>5. QED
        BY <4>2, <4>3, <4>4
    <3>4. /\ \A i, j \in 1..Len(messageBlock') : i < j => messageBlock'[i] < messageBlock'[j]
          /\ \A a \in 1..Len(internalChannel') :
                \A i \in 1..Len(internalChannel'[a]), j \in 1..Len(messageBlock') :
                    internalChannel'[a][i] < messageBlock'[j]
      BY <2>1
    <3> HIDE DEF n
    <3>5. QED
      BY <3>2, <3>3, <3>4 DEF Ordered
  <2>4. QED
    BY <1>2, <2>2, <2>3 DEF Influx!Flush
<1>3. ASSUME NEW w \in Worker, Influx!TakeChunk(w) PROVE Ordered'
  <2>1. /\ internalChannel # << >> /\ internalChannel' = Tail(internalChannel)
        /\ messageBlock' = messageBlock
    BY <1>3 DEF Influx!TakeChunk, Influx!handler
  <2>2. /\ Len(internalChannel') = Len(internalChannel) - 1
        /\ \A a \in 1..Len(internalChannel') : internalChannel'[a] = internalChannel[a + 1]
        /\ \A a \in 1..Len(internalChannel') : a + 1 \in 1..Len(internalChannel) /\ a \in Nat
    BY <1>0, <2>1
  <2>3. \A a \in 1..Len(internalChannel') : \A i, j \in 1..Len(internalChannel'[a]) :
          i < j => internalChannel'[a][i] < internalChannel'[a][j]
    BY <2>2 DEF InfluxInv, Ordered
  <2>4. ASSUME NEW a \in 1..Len(internalChannel'), NEW b \in 1..Len(internalChannel'), a < b,
               NEW i \in 1..Len(internalChannel'[a]), NEW j \in 1..Len(internalChannel'[b])
        PROVE  internalChannel'[a][i] < internalChannel'[b][j]
    <3>1. a + 1 < b + 1
      BY <2>2, <2>4
    <3>2. QED
      BY <2>2, <3>1 DEF InfluxInv, Ordered
  <2>5. \A a \in 1..Len(internalChannel') :
          \A i \in 1..Len(internalChannel'[a]), j \in 1..Len(messageBlock') :
              internalChannel'[a][i] < messageBlock'[j]
    BY <2>1, <2>2 DEF InfluxInv, Ordered
  <2>6. QED
    BY <2>1, <2>3, <2>4, <2>5 DEF InfluxInv, Ordered
<1>4. CASE UNCHANGED <<internalChannel, messageBlock>>
  BY <1>4 DEF InfluxInv, Ordered
<1>5. QED
  BY <1>1, <1>2, <1>3, <1>4, SameSets DEF Influx!Next, Influx!Handler, Influx!Work, Influx!vars,
     Influx!Feed, Influx!CloseInput, Influx!Cancel, Influx!Stop, Influx!Tick, Influx!Close,
     Influx!Wait, Influx!Launch, Influx!Write, Influx!EndWorker, Influx!handler

LEMMA InfluxKept == InfluxInv /\ [Influx!Next]_(Influx!vars) => InfluxInv'
BY InfluxTypesKept, ChannelKept, HeldKept, OrderKept, ClosingKept DEF InfluxInv

LEMMA InfluxAlways == Influx!Spec => []InfluxInv
<1>1. Influx!Init => InfluxInv
  BY InfluxStarts
<1>2. InfluxInv /\ [Influx!Next]_(Influx!vars) => InfluxInv'
  BY InfluxKept
<1>3. QED
  BY <1>1, <1>2, PTL DEF Influx!Spec

(* Types: no more batches wait than there are workers, and no block and no  *)
(* batch is longer than MaxWriteLines.                                      *)
THEOREM InfluxTypes == Influx!Spec => []Influx!TypeOK
<1>1. InfluxInv => Influx!TypeOK
  BY DEF InfluxInv
<1>2. QED
  BY <1>1, InfluxAlways, PTL

(* Each message has one home, so it is nowhere twice and nowhere missing. *)
LEMMA ConservedByInv == InfluxInv => Conserved
<1> SUFFICES ASSUME InfluxInv, NEW m \in Msg
             PROVE  Cardinality(Places(m)) = IF m <= Taken /\ m \notin Filtered THEN 1 ELSE 0
  BY DEF Conserved
<1>1. OneHome(Contents, Taken) /\ Taken \in Nat /\ m \in Nat /\ m >= 1
  BY InfluxAssumption DEF InfluxInv, Held, Channel, Msg
<1>2. \A p : p \in Places(m) <=>
         \E b \in Boxes : \E i \in 1..Len(Contents[b]) : Contents[b][i] = m /\ p = <<b, i>>
  BY DEF Places
<1>3. CASE m <= Taken /\ m \notin Filtered
  <2>1. PICK b \in Boxes : \E i \in 1..Len(Contents[b]) : Contents[b][i] = m
    BY <1>1, <1>3 DEF OneHome
  <2>2. PICK i \in 1..Len(Contents[b]) : Contents[b][i] = m
    BY <2>1
  <2>3. \A c \in Boxes : \A j \in 1..Len(Contents[c]) : Contents[c][j] = m => c = b /\ j = i
    BY <1>1, <2>2 DEF OneHome
  <2>4. Places(m) = {<<b, i>>}
    BY <1>2, <2>2, <2>3
  <2>5. QED
    BY <1>3, <2>4, FS_Singleton
<1>4. CASE ~ (m <= Taken /\ m \notin Filtered)
  <2>1. \A b \in Boxes : \A i \in 1..Len(Contents[b]) : Contents[b][i] # m
    BY <1>1, <1>4 DEF OneHome
  <2>2. Places(m) = {}
    BY <1>2, <2>1
  <2>3. QED
    BY <1>4, <2>2, FS_EmptySet
<1>5. QED
  BY <1>3, <1>4

(* Conserved, for any number of workers and messages and any length of      *)
(* block: each message taken from canChannel that the filters let pass is   *)
(* in one place, once: in the block, in a batch, with a worker, written,    *)
(* dropped with a full internalChannel, or in a write that failed.          *)
THEOREM InfluxConserved == Influx!Spec => []Conserved
BY InfluxAlways, ConservedByInv, PTL

LEMMA OrderByInv == InfluxInv => BatchesInOrder
<1> DEFINE n == Len(internalChannel)
           queued == internalChannel \o <<messageBlock, canChannel>>
<1> SUFFICES ASSUME InfluxInv, NEW a \in 1..Len(queued), NEW b \in 1..Len(queued),
                    NEW i \in 1..Len(queued[a]), NEW j \in 1..Len(queued[b]),
                    a < b \/ (a = b /\ i < j)
             PROVE  queued[a][i] < queued[b][j]
  BY DEF BatchesInOrder
<1>1. /\ internalChannel \in Seq(Seq(Msg)) /\ messageBlock \in Seq(Msg) /\ canChannel \in Seq(Msg)
      /\ n \in Nat
  BY SameSets DEF InfluxInv, Influx!TypeOK
<1>2. /\ Len(queued) = n + 2 /\ queued[n + 1] = messageBlock /\ queued[n + 2] = canChannel
      /\ \A c \in 1..n : queued[c] = internalChannel[c]
  BY <1>1
<1> HIDE DEF queued
<1>3. Taken \in Nat /\ \A k \in 1..Len(canChannel) : canChannel[k] = Taken + k
  BY DEF InfluxInv, Channel
<1>4. CASE b = n + 2
  <2>1. queued[b][j] = Taken + j /\ j \in Nat /\ j >= 1
    BY <1>1, <1>2, <1>3, <1>4
  <2>2. CASE a = n + 2
    <3>1. queued[a][i] = Taken + i /\ i < j /\ i \in Nat
      BY <1>1, <1>2, <1>3, <1>4, <2>2
    <3>2. QED
      BY <1>3, <2>1, <3>1
  <2>3. CASE a = n + 1
    <3>1. queued[a][i] \in 1..Taken
      BY <1>2, <2>3, WaitingWasTaken
    <3>2. QED
      BY <1>3, <2>1, <3>1
  <2>4. CASE a \in 1..n
    <3>1. queued[a][i] \in 1..Taken
      BY <1>2, <2>4, WaitingWasTaken
    <3>2. QED
      BY <1>3, <2>1, <3>1
  <2>5. QED
    BY <1>1, <1>2, <2>2, <2>3, <2>4
<1>5. CASE b = n + 1
  <2>1. CASE a = n + 1
    BY <1>1, <1>2, <1>5, <2>1 DEF InfluxInv, Ordered
  <2>2. CASE a \in 1..n
    BY <1>2, <1>5, <2>2 DEF InfluxInv, Ordered
  <2>3. QED
    BY <1>1, <1>2, <1>5, <2>1, <2>2
<1>6. CASE b \in 1..n
  <2>1. a \in 1..n
    BY <1>1, <1>2, <1>6
  <2>2. queued[a] = internalChannel[a] /\ queued[b] = internalChannel[b]
    BY <1>2, <1>6, <2>1
  <2>3. QED
    BY <1>6, <2>1, <2>2 DEF InfluxInv, Ordered
<1>7. b \in 1..(n + 2)
  BY <1>2
<1>8. b \in 1..n \/ b = n + 1 \/ b = n + 2
  BY <1>1, <1>7
<1>9. QED
  BY <1>4, <1>5, <1>6, <1>8

(* BatchesInOrder: what waits, from the first batch to the channel, is in   *)
(* the order in which the messages came.                                    *)
THEOREM InfluxInOrder == Influx!Spec => []BatchesInOrder
BY InfluxAlways, OrderByInv, PTL

(* What the step to "returned" finds. *)
Drained ==
    stage # "returned" /\ stage' = "returned" /\ launched > 0 =>
        /\ internalChannel = << >>
        /\ \A w \in 1..launched : worker[w] = "done"

LEMMA StepsDrained == InfluxInv /\ [Influx!Next]_(Influx!vars) => Drained
<1> SUFFICES ASSUME InfluxInv, [Influx!Next]_(Influx!vars),
                    stage # "returned", stage' = "returned", launched > 0
             PROVE  internalChannel = << >> /\ \A w \in 1..launched : worker[w] = "done"
  BY DEF Drained
<1>1. Influx!Wait
  BY DEF Influx!Next, Influx!Handler, Influx!Work, Influx!vars, Influx!Feed, Influx!CloseInput,
     Influx!Cancel, Influx!Stop, Influx!Take, Influx!Tick, Influx!Flush, Influx!AfterFlush,
     Influx!Close, Influx!Launch, Influx!TakeChunk, Influx!Write, Influx!EndWorker, Influx!handler
<1>2. launched \in 1..MaxConnections
  BY InfluxAssumption DEF InfluxInv, Influx!TypeOK
<1>3. ASSUME NEW w \in 1..launched PROVE worker[w] = "done"
  <2>1. w \in Worker /\ ~ (w > launched)
    BY <1>2, InfluxAssumption DEF Worker
  <2>2. worker[w] # "absent" /\ worker[w] \in {"absent", "idle", "writing", "done"}
    BY <2>1, SameSets DEF InfluxInv, Influx!TypeOK
  <2>3. worker[w] \notin {"idle", "writing"}
    BY <1>1, <2>1, SameSets DEF Influx!Wait, Influx!Running
  <2>4. QED
    BY <2>2, <2>3
<1>4. 1 \in Worker /\ 1 \in 1..launched
  BY <1>2, InfluxAssumption DEF Worker
<1>5. internalChannel = << >>
  BY <1>3, <1>4 DEF InfluxInv, Closing
<1>6. QED
  BY <1>3, <1>5

(* WaitDrains: HandleCanMessageChannel's wait at its end lasts until every  *)
(* batch was taken and every worker has ended.                              *)
THEOREM InfluxDrains == Influx!Spec => WaitDrains
<1>1. InfluxInv /\ [Influx!Next]_(Influx!vars) => [Drained]_stage
  BY StepsDrained
<1>2. QED
  BY <1>1, InfluxAlways, PTL DEF Influx!Spec, WaitDrains, Drained

-----------------------------------------------------------------------------
(* OutputHandlers. *)
Outputs == INSTANCE OutputHandlers

(* What the handlers take from OutputFile is the same by either name. *)
LEMMA SameOutput ==
    /\ Outputs!Messages = Messages /\ Outputs!Sessions = Sessions /\ Outputs!Piece = Piece
    /\ \A s, n : Outputs!Line(s, n) = Line(s, n)
BY DEF Outputs!Messages, Messages, Outputs!Sessions, Sessions, Outputs!Piece, Piece,
       Outputs!Line, Line

(* The part of the assumption that is about numbers. *)
LEMMA OutputNumbers ==
    /\ MaxMessages \in Nat /\ Pieces \in Nat /\ Capacity \in Nat /\ MaxSessions \in Nat
    /\ 1 <= Pieces /\ Pieces <= Capacity
BY OutputAssumption DEF OutputAssumption

(* The inductive invariant, in parts.  What is in memory: pieces of the     *)
(* session of the process, none while it is down, none past the end, and    *)
(* none for a broker.                                                       *)
Memory ==
    /\ sink \in Outputs!Sinks
    /\ session \in 0..MaxSessions
    /\ handler \in {"down", "receiving", "closing", "returned"}
    /\ handler # "down" => session \in Sessions
    /\ sent \in 0..MaxMessages /\ taken \in 0..MaxMessages
    /\ failed \in BOOLEAN
    /\ buffer \in Seq(Piece)
    /\ Len(buffer) <= Capacity
    /\ \A i \in 1..Len(buffer) : buffer[i].session = session
    /\ handler = "down" => buffer = << >> /\ ~failed
    /\ handler \in {"closing", "returned"} /\ ~failed => buffer = << >>
    /\ sink \notin Outputs!FileSinks => buffer = << >>

(* The file: Before(s) is where session s begins.                           *)
Cuts ==
    /\ file \in Seq(Piece)
    /\ \A i \in 1..Len(file) : file[i].session <= session
    /\ \A s \in 1..(session + 1) :
          /\ Before(s) \in 0..Len(file)
          /\ \A i \in 1..Len(file) : i <= Before(s) <=> file[i].session < s

(* What was accepted is in the file, but for what is in the buffer.         *)
Kept ==
    /\ accepted \in [Sessions -> Seq(Piece)]
    /\ \A s \in Sessions : s > session => accepted[s] = << >>
    /\ \A s \in 1..session : Begins(Of(s), accepted[s])
    /\ handler # "down" /\ ~failed => Of(session) \o buffer = accepted[session]

(* The rest, for the types.                                                 *)
Others ==
    /\ closed \in BOOLEAN /\ ticked \in BOOLEAN /\ connected \in BOOLEAN
    /\ filters \subseteq DOMAIN Rejects
    /\ waiting \subseteq Messages

OutputInv == Memory /\ Cuts /\ Kept /\ Others

-----------------------------------------------------------------------------
(* A longer sequence has the same slices of what both have. *)
LEMMA SameSlice ==
    ASSUME NEW S, NEW a \in Seq(S), NEW d \in Seq(S), Len(a) <= Len(d),
           \A i \in 1..Len(a) : d[i] = a[i],
           NEW m \in 0..Len(a), NEW n \in m..Len(a)
    PROVE  SubSeq(d, m + 1, n) = SubSeq(a, m + 1, n)
<1>0. m + 1 \in 1..(Len(a) + 1) /\ n \in (m + 1 - 1)..Len(a) /\ m + 1 \in 1..(Len(d) + 1)
      /\ n \in (m + 1 - 1)..Len(d)
  OBVIOUS
<1> DEFINE l == SubSeq(a, m + 1, n)
           r == SubSeq(d, m + 1, n)
<1>1. /\ l \in Seq(S) /\ Len(l) = n - m
      /\ \A i \in 1..(n - m) : l[i] = a[m + i]
  OBVIOUS
<1>2. /\ r \in Seq(S) /\ Len(r) = n - m
      /\ \A i \in 1..(n - m) : r[i] = d[m + i]
  OBVIOUS
<1> HIDE DEF l, r
<1>3. \A i \in 1..(n - m) : d[m + i] = a[m + i]
  OBVIOUS
<1>4. l = r
  BY <1>1, <1>2, <1>3, SeqEqual
<1>5. QED  BY <1>4 DEF l, r

-----------------------------------------------------------------------------
(* The cuts. *)
LEMMA UpTo ==
    ASSUME NEW n \in Nat
    PROVE  Cardinality(1..n) = n
<1>1. Cardinality(1..n) = IF 1 > n THEN 0 ELSE n - 1 + 1
  BY FS_Interval
<1>2. QED  BY <1>1

(* A cut is where the sessions before end ... *)
LEMMA CutIs ==
    ASSUME file \in Seq(Piece), NEW s, NEW c \in 0..Len(file),
           \A i \in 1..Len(file) : i <= c <=> file[i].session < s
    PROVE  Before(s) = c
<1>1. {i \in 1..Len(file) : file[i].session < s} = 1..c
  OBVIOUS
<1>2. Cardinality(1..c) = c
  BY UpTo
<1>3. QED  BY <1>1, <1>2 DEF Before

(* ... and the cuts are in order. *)
LEMMA CutsOrdered ==
    ASSUME Cuts, session \in Nat, NEW s \in 1..session
    PROVE  Before(s) <= Before(s + 1)
<1>1. /\ Before(s) \in 0..Len(file)
      /\ \A i \in 1..Len(file) : i <= Before(s) <=> file[i].session < s
      /\ Before(s + 1) \in 0..Len(file)
      /\ \A i \in 1..Len(file) : i <= Before(s + 1) <=> file[i].session < s + 1
  BY DEF Cuts
<1>2. \A i \in 1..Len(file) : file[i].session \in Nat
  <2>1. \A p \in Piece : p.session \in Nat
    BY DEF Piece, Sessions
  <2>2. QED  BY <2>1 DEF Cuts
<1>3. CASE Before(s) = 0
  BY <1>1, <1>3
<1>4. CASE Before(s) # 0
  <2>1. Before(s) \in 1..Len(file)
    BY <1>1, <1>4
  <2>2. file[Before(s)].session < s
    BY <1>1, <2>1
  <2>3. file[Before(s)].session < s + 1
    BY <1>2, <2>1, <2>2
  <2>4. QED  BY <1>1, <2>1, <2>3
<1>5. QED  BY <1>3, <1>4

(* The file grows by pieces of the session that runs. *)
Grows(w) ==
    /\ w \in Seq(Piece)
    /\ \A i \in 1..Len(w) : w[i].session = session'
    /\ file' = file \o w

(* What is appended comes after every cut but the last. *)
LEMMA FileGrows ==
    ASSUME Cuts, session \in 0..MaxSessions, session' \in 0..MaxSessions,
           session' \in {session, session + 1}, NEW w, Grows(w)
    PROVE  /\ Cuts'
           /\ Len(file') = Len(file) + Len(w)
           /\ \A s \in 1..session' : Before(s)' = Before(s)
           /\ \A s \in 1..session' : s < session' => Before(s + 1)' = Before(s + 1)
           /\ Before(session + 1)' = Len(file')
           /\ Before(session + 1) = Len(file)
<1> USE OutputNumbers
<1>1. /\ file \in Seq(Piece) /\ w \in Seq(Piece) /\ file' \in Seq(Piece)
      /\ Len(file') = Len(file) + Len(w)
      /\ Len(file) \in Nat /\ Len(w) \in Nat
  BY Concatenation DEF Cuts, Grows
<1>2. /\ \A i \in 1..Len(file) : file'[i] = file[i]
      /\ \A i \in (Len(file) + 1)..Len(file') : file'[i] = w[i - Len(file)]
  BY <1>1, Concatenation DEF Grows
<1>3. \A i \in (Len(file) + 1)..Len(file') : file'[i].session = session'
  <2>1. ASSUME NEW i \in (Len(file) + 1)..Len(file') PROVE i - Len(file) \in 1..Len(w)
    BY <1>1
  <2>2. QED  BY <2>1, <1>2 DEF Grows
<1>4. \A i \in 1..Len(file) : file[i].session \in Nat /\ file[i].session <= session
  <2>1. \A p \in Piece : p.session \in Nat
    BY DEF Piece, Sessions
  <2>2. \A i \in 1..Len(file) : file[i] \in Piece
    BY <1>1
  <2>3. QED  BY <2>1, <2>2 DEF Cuts
<1>5. \A s \in 1..(session + 1) :
          /\ Before(s) \in 0..Len(file)
          /\ \A i \in 1..Len(file) : i <= Before(s) <=> file[i].session < s
  BY DEF Cuts
<1>6. ASSUME NEW s \in 1..session'
      PROVE  /\ Before(s)' = Before(s)
             /\ Before(s) \in 0..Len(file')
             /\ \A i \in 1..Len(file') : i <= Before(s) <=> file'[i].session < s
  <2>1. s \in 1..(session + 1)
    OBVIOUS
  <2>2. Before(s) \in 0..Len(file) /\ Before(s) \in 0..Len(file')
    BY <2>1, <1>5, <1>1
  <2>3. ASSUME NEW i \in 1..Len(file') PROVE i <= Before(s) <=> file'[i].session < s
    <3>1. CASE i <= Len(file)
      BY <3>1, <1>1, <1>2, <1>5, <2>1
    <3>2. CASE i > Len(file)
      <4>1. i \in (Len(file) + 1)..Len(file')
        BY <3>2, <1>1
      <4>2. file'[i].session = session'
        BY <4>1, <1>3
      <4>3. ~(i <= Before(s))
        BY <3>2, <2>2, <1>1
      <4>4. ~(session' < s)
        OBVIOUS
      <4>5. QED  BY <4>2, <4>3, <4>4
    <3>3. QED  BY <3>1, <3>2, <1>1
  <2>4. Before(s)' = Before(s)
    <3>1. Cardinality({i \in 1..Len(file') : file'[i].session < s}) = Before(s)
      <4>1. {i \in 1..Len(file') : file'[i].session < s} = 1..Before(s)
        BY <2>2, <2>3, <1>1
      <4>2. Cardinality(1..Before(s)) = Before(s)
        BY <2>2, UpTo
      <4>3. QED  BY <4>1, <4>2
    <3>2. QED  BY <3>1 DEF Before
  <2>5. QED  BY <2>2, <2>3, <2>4
<1>7. /\ Before(session + 1)' = Len(file')
      /\ \A i \in 1..Len(file') : file'[i].session < session' + 1
  <2>1. ASSUME NEW i \in 1..Len(file') PROVE file'[i].session < session' + 1
    <3>1. CASE i <= Len(file)
      BY <3>1, <1>2, <1>4
    <3>2. CASE i > Len(file)
      BY <3>2, <1>3, <1>1
    <3>3. QED  BY <3>1, <3>2, <1>1
  <2>2. {i \in 1..Len(file') : file'[i].session < session' + 1} = 1..Len(file')
    BY <2>1
  <2>3. Cardinality(1..Len(file')) = Len(file')
    BY <1>1, UpTo
  <2>4. Cardinality({i \in 1..Len(file') : file'[i].session < session' + 1}) = Len(file')
    BY <2>2, <2>3
  <2>5. QED  BY <2>1, <2>4 DEF Before
<1>8. Before(session + 1) = Len(file)
  <2>1. \A i \in 1..Len(file) : i <= Len(file) <=> file[i].session < session + 1
    BY <1>4
  <2>2. Len(file) \in 0..Len(file)
    BY <1>1
  <2>3. {i \in 1..Len(file) : file[i].session < session + 1} = 1..Len(file)
    BY <2>1
  <2>4. Cardinality(1..Len(file)) = Len(file)
    BY <1>1, UpTo
  <2>5. QED  BY <2>3, <2>4 DEF Before
<1>9. Cuts'
  <2>1. \A i \in 1..Len(file') : file'[i].session <= session'
    <3>1. ASSUME NEW i \in 1..Len(file') PROVE file'[i].session <= session'
      <4>1. CASE i <= Len(file)
        BY <4>1, <1>2, <1>4
      <4>2. CASE i > Len(file)
        BY <4>2, <1>3, <1>1
      <4>3. QED  BY <4>1, <4>2, <1>1
    <3>2. QED  BY <3>1
  <2>2. ASSUME NEW s \in 1..(session' + 1)
        PROVE  /\ Before(s)' \in 0..Len(file')
               /\ \A i \in 1..Len(file') : i <= Before(s)' <=> file'[i].session < s
    <3>1. CASE s \in 1..session'
      BY <3>1, <1>6
    <3>2. CASE s = session' + 1
      <4>1. Before(s)' = Before(session + 1)'
        BY <3>2 DEF Before
      <4>2. Before(s)' = Len(file') /\ Len(file') \in 0..Len(file')
        BY <4>1, <1>7, <1>1
      <4>3. QED  BY <3>2, <4>2, <1>7
    <3>3. s \in 1..session' \/ s = session' + 1
      <4>1. \A m \in Nat : \A k \in 1..(m + 1) : k \in 1..m \/ k = m + 1
        OBVIOUS
      <4>2. session' \in Nat
        OBVIOUS
      <4>3. QED  BY <4>1, <4>2, Zenon
    <3>4. QED  BY <3>1, <3>2, <3>3
  <2>3. QED  BY <1>1, <2>1, <2>2 DEF Cuts
<1>10. \A s \in 1..session' : s < session' => Before(s + 1)' = Before(s + 1)
  <2>1. ASSUME NEW s \in 1..session', s < session' PROVE Before(s + 1)' = Before(s + 1)
    <3>1. s + 1 \in 1..session'
      BY <2>1
    <3>2. QED  BY <3>1, <1>6
  <2>2. QED  BY <2>1
<1>11. QED  BY <1>1, <1>6, <1>7, <1>8, <1>9, <1>10

(* What the sessions put there: the earlier ones nothing more, the one that *)
(* runs the new pieces.                                                     *)
LEMMA OfGrows ==
    ASSUME Cuts, session \in 0..MaxSessions, session' = session, session >= 1,
           NEW w, Grows(w)
    PROVE  /\ \A s \in 1..session : s < session => Of(s)' = Of(s)
           /\ Of(session) \in Seq(Piece)
           /\ Of(session)' = Of(session) \o w
<1> USE OutputNumbers
<1>0. session \in Nat /\ file \in Seq(Piece) /\ w \in Seq(Piece) /\ file' \in Seq(Piece)
  BY Concatenation DEF Cuts, Grows
<1>1. /\ Cuts'
      /\ Len(file') = Len(file) + Len(w)
      /\ \A s \in 1..session : Before(s)' = Before(s)
      /\ \A s \in 1..session : s < session => Before(s + 1)' = Before(s + 1)
      /\ Before(session + 1)' = Len(file')
      /\ Before(session + 1) = Len(file)
  BY FileGrows
<1>2. /\ \A i \in 1..Len(file) : file'[i] = file[i]
      /\ \A i \in 1..Len(w) : file'[Len(file) + i] = w[i]
  BY <1>0, Concatenation DEF Grows
<1>3. \A s \in 1..(session + 1) : Before(s) \in 0..Len(file)
  BY DEF Cuts
<1>4. ASSUME NEW s \in 1..session, s < session PROVE Of(s)' = Of(s)
  <2>1. Of(s)' = SubSeq(file', Before(s) + 1, Before(s + 1))
    BY <1>1, <1>4 DEF Of
  <2>2. Before(s) \in 0..Len(file) /\ Before(s + 1) \in 0..Len(file)
    BY <1>3, <1>0
  <2>3. SubSeq(file', Before(s) + 1, Before(s + 1)) = SubSeq(file, Before(s) + 1, Before(s + 1))
    <3>1. Before(s) <= Before(s + 1)
      BY <1>0, CutsOrdered
    <3>2. Before(s) \in 0..Len(file) /\ Before(s + 1) \in Before(s)..Len(file)
      BY <2>2, <3>1
    <3>3. Len(file) <= Len(file')
      BY <1>0, <1>1
    <3>4. QED  BY <3>1, <3>2, <3>3, <1>0, <1>1, <1>2, SameSlice
  <2>4. QED  BY <2>1, <2>3 DEF Of
<1>5. DEFINE b == Before(session)
             old == SubSeq(file, b + 1, Len(file))
             new == SubSeq(file', b + 1, Len(file'))
<1>6. Of(session) = old
  BY <1>1 DEF Of
<1>7. Of(session)' = new
  <2>1. Of(session)' = SubSeq(file', Before(session)' + 1, Before(session + 1)')
    BY DEF Of
  <2>2. Before(session)' = b
    BY <1>1, <1>0
  <2>3. QED  BY <2>1, <2>2, <1>1
<1>8. b \in 0..Len(file) /\ Len(file) \in Nat /\ Len(w) \in Nat
  BY <1>3, <1>0
<1> HIDE DEF b
<1>9. /\ old \in Seq(Piece) /\ Len(old) = Len(file) - b
      /\ \A i \in 1..(Len(file) - b) : old[i] = file[b + i]
  BY <1>8, <1>0, Slice
<1>10. /\ new \in Seq(Piece) /\ Len(new) = Len(file) + Len(w) - b
       /\ \A i \in 1..(Len(file) + Len(w) - b) : new[i] = file'[b + i]
  BY <1>8, <1>0, <1>1, Slice
<1> HIDE DEF old, new
<1>11. /\ old \o w \in Seq(Piece) /\ Len(old \o w) = Len(file) - b + Len(w)
       /\ \A i \in 1..Len(old) : (old \o w)[i] = old[i]
       /\ \A i \in (Len(old) + 1)..(Len(old) + Len(w)) : (old \o w)[i] = w[i - Len(old)]
  BY <1>9, <1>0, Concatenation
<1>12. ASSUME NEW i \in 1..Len(new) PROVE new[i] = (old \o w)[i]
  <2>1. CASE i <= Len(file) - b
    BY <2>1, <1>2, <1>8, <1>9, <1>10, <1>11
  <2>2. CASE i > Len(file) - b
    <3>1. i - Len(old) \in 1..Len(w) /\ Len(file) + (i - Len(old)) = b + i
      BY <2>2, <1>8, <1>9, <1>10
    <3>2. (old \o w)[i] = w[i - Len(old)]
      BY <2>2, <1>8, <1>9, <1>10, <1>11
    <3>3. new[i] = file'[b + i]
      BY <1>8, <1>10
    <3>4. QED  BY <3>1, <3>2, <3>3, <1>2
  <2>3. i <= Len(file) - b \/ i > Len(file) - b
    BY <1>8, <1>10
  <2>4. QED  BY <2>1, <2>2, <2>3
<1>13. new = old \o w
  <2>1. Len(new) = Len(old \o w)
    BY <1>8, <1>10, <1>11
  <2>2. QED  BY <2>1, <1>10, <1>11, <1>12, SeqEqual
<1>14. QED  BY <1>4, <1>6, <1>7, <1>9, <1>13

(* A session that begins has put nothing there. *)
LEMMA OfBegins ==
    ASSUME Cuts, session \in 0..MaxSessions, session' = session + 1, session' \in 0..MaxSessions,
           NEW w, Grows(w)
    PROVE  /\ \A s \in 1..session : Of(s)' = Of(s)
           /\ Of(session)' = w
<1> USE OutputNumbers
<1>0. session \in Nat /\ file \in Seq(Piece) /\ w \in Seq(Piece) /\ file' \in Seq(Piece)
  BY Concatenation DEF Cuts, Grows
<1>1. /\ Len(file') = Len(file) + Len(w)
      /\ \A s \in 1..session' : Before(s)' = Before(s)
      /\ \A s \in 1..session' : s < session' => Before(s + 1)' = Before(s + 1)
      /\ Before(session + 1)' = Len(file')
      /\ Before(session + 1) = Len(file)
  BY FileGrows
<1>2. /\ \A i \in 1..Len(file) : file'[i] = file[i]
      /\ \A i \in 1..Len(w) : file'[Len(file) + i] = w[i]
  BY <1>0, Concatenation DEF Grows
<1>3. \A s \in 1..(session + 1) : Before(s) \in 0..Len(file)
  BY DEF Cuts
<1>4. ASSUME NEW s \in 1..session PROVE Of(s)' = Of(s)
  <2>0. s \in 1..session' /\ s < session'
    BY <1>0
  <2>1. Of(s)' = SubSeq(file', Before(s) + 1, Before(s + 1))
    BY <1>1, <2>0 DEF Of
  <2>2. Before(s) \in 0..Len(file) /\ Before(s + 1) \in 0..Len(file)
    BY <1>3, <1>0
  <2>3. SubSeq(file', Before(s) + 1, Before(s + 1)) = SubSeq(file, Before(s) + 1, Before(s + 1))
    <3>1. Before(s) <= Before(s + 1)
      BY <1>0, CutsOrdered
    <3>2. Before(s) \in 0..Len(file) /\ Before(s + 1) \in Before(s)..Len(file)
      BY <2>2, <3>1
    <3>3. Len(file) <= Len(file')
      BY <1>0, <1>1
    <3>4. QED  BY <3>1, <3>2, <3>3, <1>0, <1>1, <1>2, SameSlice
  <2>4. QED  BY <2>1, <2>3 DEF Of
<1>5. Of(session)' = SubSeq(file', Len(file) + 1, Len(file'))
  <2>1. Of(session)' = SubSeq(file', Before(session)' + 1, Before(session + 1)')
    BY DEF Of
  <2>2. \A s \in 1..session' : s = session' => Before(s)' = Before(session)'
    BY DEF Before
  <2>3. session' \in 1..session' /\ session + 1 = session'
    BY <1>0
  <2>4. \A s \in 1..session' : s = session' => Before(s)' = Before(session + 1)
    BY <1>1, <2>3
  <2>5. Before(session)' = Before(session + 1)
    BY <2>2, <2>3, <2>4
  <2>6. QED  BY <2>1, <2>5, <1>1
<1>6. SubSeq(file', Len(file) + 1, Len(file')) = w
  <2> DEFINE new == SubSeq(file', Len(file) + 1, Len(file'))
  <2>1. /\ new \in Seq(Piece) /\ Len(new) = Len(w)
        /\ \A i \in 1..Len(w) : new[i] = file'[Len(file) + i]
    BY <1>0, <1>1, Slice
  <2>2. \A i \in 1..Len(w) : new[i] = w[i]
    BY <2>1, <1>2
  <2>3. QED  BY <2>1, <2>2, <1>0, SeqEqual
<1>7. QED  BY <1>4, <1>5, <1>6

-----------------------------------------------------------------------------
(* Beginnings. *)
LEMMA Associative ==
    \A a, b, c \in Seq(Piece) : (a \o b) \o c = a \o (b \o c)
BY ConcatAssociative

(* A sequence begins with the first of its parts ... *)
LEMMA Beginning ==
    ASSUME NEW S, NEW a \in Seq(S), NEW b \in Seq(S)
    PROVE  Begins(a, a \o b)
BY Concatenation DEF Begins

(* ... and a longer one with what the shorter begins with. *)
LEMMA BeginsLonger ==
    ASSUME NEW S, NEW a \in Seq(S), NEW b \in Seq(S), NEW c \in Seq(S), Begins(a, b)
    PROVE  Begins(a, b \o c)
<1>1. /\ Len(b \o c) = Len(b) + Len(c)
      /\ \A i \in 1..Len(b) : (b \o c)[i] = b[i]
  BY Concatenation
<1>2. Len(a) <= Len(b) /\ \A i \in 1..Len(a) : a[i] = b[i]
  BY DEF Begins
<1>3. Len(a) \in Nat /\ Len(b) \in Nat /\ Len(c) \in Nat
  OBVIOUS
<1>4. Len(a) <= Len(b \o c) /\ \A i \in 1..Len(a) : a[i] = (b \o c)[i]
  BY <1>1, <1>2, <1>3
<1>5. QED  BY <1>4 DEF Begins

-----------------------------------------------------------------------------
(* The file stays, and so does what each session has in it. *)
LEMMA FileStays ==
    ASSUME Cuts, UNCHANGED <<file, session>>
    PROVE  Cuts' /\ \A s \in 1..session : Of(s)' = Of(s)
BY DEF Cuts, Of, Before

(* Pieces of the session that runs. *)
Mine(w) == w \in Seq(Piece) /\ \A i \in 1..Len(w) : w[i].session = session

(* A write, whole or cut short: what the file lacks of acc is in the        *)
(* buffer until a write fails.                                              *)
Wrote(acc) ==
    /\ Cuts'
    /\ Mine(buffer')
    /\ Len(buffer') <= Capacity
    /\ failed' \in BOOLEAN
    /\ \A s \in 1..session : s < session => Of(s)' = Of(s)
    /\ Begins(Of(session)', acc)
    /\ ~failed' => Of(session)' \o buffer' = acc

(* What a session has in the file are pieces. *)
LEMMA MineOf ==
    ASSUME Cuts, session \in 0..MaxSessions, session >= 1
    PROVE  Of(session) \in Seq(Piece)
<1> USE OutputNumbers
<1>1. /\ Before(session) \in 0..Len(file) /\ Before(session + 1) \in 0..Len(file)
      /\ file \in Seq(Piece)
  BY DEF Cuts
<1>2. Before(session) <= Before(session + 1)
  BY CutsOrdered
<1>3. /\ Before(session) + 1 \in 1..(Len(file) + 1)
      /\ Before(session + 1) \in (Before(session) + 1 - 1)..Len(file)
  BY <1>1, <1>2
<1>4. QED  BY <1>1, <1>3, Slice DEF Of

(* A write of p, whole or not, when what is accepted is file, p and the     *)
(* rest.                                                                    *)
LEMMA WriteOutWrites ==
    ASSUME Cuts, session \in 0..MaxSessions, session' = session, session >= 1, ~failed,
           failed \in BOOLEAN,
           NEW p, NEW rest, Mine(p), Mine(rest), Len(p) <= Capacity, Len(rest) <= Capacity,
           Outputs!WriteOut(p, rest),
           NEW acc, Of(session) \o (p \o rest) = acc
    PROVE  Wrote(acc) /\ (~failed' => buffer' = rest) /\ (p = << >> => buffer' = rest)
<1> USE OutputNumbers
<1>0. p \in Seq(Piece) /\ rest \in Seq(Piece) /\ Of(session) \in Seq(Piece)
      /\ Len(p) \in Nat /\ Len(rest) \in Nat
  BY MineOf DEF Mine
<1>1. CASE file' = file \o p /\ buffer' = rest /\ UNCHANGED failed
  <2>1. Grows(p)
    BY <1>1 DEF Grows, Mine
  <2>2. /\ Cuts'
        /\ \A s \in 1..session : s < session => Of(s)' = Of(s)
        /\ Of(session)' = Of(session) \o p
    BY <2>1, FileGrows, OfGrows
  <2>3. Of(session)' \o rest = acc
    <3>1. (Of(session) \o p) \o rest = Of(session) \o (p \o rest)
      BY <1>0, Associative
    <3>2. QED  BY <3>1, <2>2
  <2>4. Of(session)' \in Seq(Piece)
    BY <2>2, <1>0, Concatenation
  <2>5. Begins(Of(session)', acc)
    BY <2>3, <2>4, <1>0, Beginning
  <2>6. QED  BY <1>1, <2>2, <2>3, <2>5 DEF Wrote, Mine
<1>2. ASSUME NEW n \in 0..(Len(p) - 1),
             file' = file \o SubSeq(p, 1, n),
             buffer' = SubSeq(p, n + 1, Len(p)),
             failed' = TRUE
      PROVE  Wrote(acc) /\ (~failed' => buffer' = rest) /\ (p = << >> => buffer' = rest)
  <2> DEFINE w == SubSeq(p, 1, n)
             left == SubSeq(p, n + 1, Len(p))
  <2>1. /\ w \in Seq(Piece) /\ Len(w) = n
        /\ \A i \in 1..n : w[i] = p[i]
    BY <1>0, Slice
  <2>2. /\ left \in Seq(Piece) /\ Len(left) = Len(p) - n
        /\ \A i \in 1..(Len(p) - n) : left[i] = p[n + i]
    BY <1>0, Slice
  <2>3. w \o left = p
    <3>1. /\ 1 \in 1..(Len(p) + 1) /\ n \in (1 - 1)..Len(p) /\ Len(p) \in n..Len(p)
      BY <1>0
    <3>2. w \o left = SubSeq(p, 1, Len(p))
      BY <3>1, <1>0, ConcatAdjacentSubSeq
    <3>3. QED  BY <3>2, <1>0, SubSeqFull
  <2>4. file' = file \o w /\ buffer' = left
    BY <1>2
  <2> HIDE DEF w, left
  <2>5. Mine(w) /\ Mine(left)
    <3>1. \A i \in 1..Len(p) : p[i].session = session
      BY DEF Mine
    <3>2. ASSUME NEW i \in 1..Len(w) PROVE w[i].session = session
      <4>1. i \in 1..Len(p) /\ i \in 1..n
        BY <2>1, <1>0
      <4>2. QED  BY <4>1, <2>1, <3>1
    <3>3. ASSUME NEW i \in 1..Len(left) PROVE left[i].session = session
      <4>1. n + i \in 1..Len(p) /\ i \in 1..(Len(p) - n)
        BY <2>2, <1>0
      <4>2. QED  BY <4>1, <2>2, <3>1
    <3>4. QED  BY <2>1, <2>2, <3>2, <3>3 DEF Mine
  <2>6. Grows(w)
    BY <2>4, <2>5 DEF Grows, Mine
  <2>7. /\ Cuts'
        /\ \A s \in 1..session : s < session => Of(s)' = Of(s)
        /\ Of(session)' = Of(session) \o w
    BY <2>6, FileGrows, OfGrows
  <2>8. Of(session)' \o (left \o rest) = acc
    <3>1. p \o rest = w \o (left \o rest)
      <4>1. (w \o left) \o rest = w \o (left \o rest)
        BY <2>1, <2>2, <1>0, Associative
      <4>2. QED  BY <4>1, <2>3
    <3>2. left \o rest \in Seq(Piece)
      BY <2>2, <1>0, Concatenation
    <3>3. (Of(session) \o w) \o (left \o rest) = Of(session) \o (w \o (left \o rest))
      BY <3>2, <2>1, <1>0, Associative
    <3>4. QED  BY <3>1, <3>3, <2>7
  <2>9. Begins(Of(session)', acc)
    <3>1. Of(session)' \in Seq(Piece) /\ left \o rest \in Seq(Piece)
      BY <2>1, <2>2, <2>7, <1>0, Concatenation
    <3>2. QED  BY <3>1, <2>8, Beginning
  <2>10. Len(left) <= Capacity
    BY <2>2, <1>0
  <2>11. Wrote(acc)
    BY <1>2, <2>4, <2>5, <2>7, <2>9, <2>10 DEF Wrote, Mine
  <2>12. p # << >>
    <3>1. p = << >> => Len(p) = 0
      OBVIOUS
    <3>2. QED  BY <3>1, <1>0
  <2>13. QED  BY <2>11, <2>12, <1>2
<1>3. QED  BY <1>1, <1>2 DEF Outputs!WriteOut

(* What the buffered writer keeps, whatever the handler does then. *)
Writes ==
    /\ Cuts'
    /\ Mine(buffer')
    /\ Len(buffer') <= Capacity
    /\ failed' \in BOOLEAN
    /\ accepted' \in [Sessions -> Seq(Piece)]
    /\ \A s \in Sessions : s > session => accepted'[s] = << >>
    /\ \A s \in 1..session : Begins(Of(s)', accepted'[s])
    /\ ~failed' => Of(session)' \o buffer' = accepted'[session]

(* A flush keeps it, and leaves nothing in the buffer unless it fails. *)
LEMMA FlushWrites ==
    ASSUME Memory, Cuts, Kept, handler # "down", session' = session, Outputs!Flush
    PROVE  Writes /\ (~failed' => buffer' = << >>) /\ (buffer = << >> => buffer' = << >>)
<1> USE OutputNumbers
<1>0. /\ session \in Sessions /\ session \in 0..MaxSessions /\ session >= 1
      /\ failed \in BOOLEAN /\ Mine(buffer) /\ Len(buffer) <= Capacity
      /\ accepted' = accepted
  BY DEF Memory, Sessions, Mine, Outputs!Flush
<1>1. CASE failed
  <2>1. UNCHANGED <<buffer, file, failed, session>>
    BY <1>1 DEF Outputs!Flush
  <2>2. Cuts' /\ \A s \in 1..session : Of(s)' = Of(s)
    BY <2>1, FileStays
  <2>3. \A s \in 1..session : Begins(Of(s)', accepted'[s])
    BY <2>2, <1>0 DEF Kept
  <2>4. QED  BY <2>1, <2>2, <2>3, <1>0, <1>1 DEF Writes, Kept, Mine
<1>2. CASE ~failed
  <2>1. Outputs!WriteOut(buffer, << >>)
    BY <1>2 DEF Outputs!Flush
  <2>2. Mine(<< >>) /\ Len(<< >>) <= Capacity
    BY DEF Mine
  <2>3. Of(session) \o (buffer \o << >>) = accepted[session]
    BY <1>0, <1>2, ConcatEmptySeq DEF Kept, Mine
  <2>4. /\ Wrote(accepted[session])
        /\ ~failed' => buffer' = << >>
        /\ buffer = << >> => buffer' = << >>
    BY <1>0, <1>2, <2>1, <2>2, <2>3, WriteOutWrites
  <2>5. ASSUME NEW s \in 1..session PROVE Begins(Of(s)', accepted'[s])
    <3>1. CASE s = session
      <4>1. Begins(Of(session)', accepted[session])
        BY <2>4 DEF Wrote
      <4>2. Of(s)' = Of(session)'
        BY <3>1 DEF Of, Before
      <4>3. QED  BY <4>1, <4>2, <3>1, <1>0
    <3>2. CASE s < session
      BY <3>2, <2>4, <1>0 DEF Wrote, Kept
    <3>3. QED  BY <3>1, <3>2, <1>0
  <2>6. QED  BY <2>4, <2>5, <1>0 DEF Writes, Wrote, Kept
<1>3. QED  BY <1>1, <1>2, <1>0

(* It is enough to say what the session that runs has. *)
LEMMA AcceptedWrites ==
    ASSUME Memory, Kept, handler # "down", session' = session,
           accepted' \in [Sessions -> Seq(Piece)],
           \A s \in Sessions : s # session => accepted'[s] = accepted[s],
           Wrote(accepted'[session])
    PROVE  Writes
<1> USE OutputNumbers
<1>0. session \in Sessions /\ session \in 1..MaxSessions /\ session \in Nat
  BY DEF Memory, Sessions
<1>1. ASSUME NEW s \in 1..session PROVE Begins(Of(s)', accepted'[s])
  <2>1. CASE s = session
    <3>1. Begins(Of(session)', accepted'[session])
      BY DEF Wrote
    <3>2. Of(s)' = Of(session)'
      BY <2>1 DEF Of, Before
    <3>3. QED  BY <3>1, <3>2, <2>1
  <2>2. CASE s < session
    <3>1. s \in Sessions /\ s # session
      BY <2>2, <1>0 DEF Sessions
    <3>2. Of(s)' = Of(s)
      BY <2>2 DEF Wrote
    <3>3. Begins(Of(s), accepted[s])
      BY DEF Kept
    <3>4. QED  BY <3>1, <3>2, <3>3
  <2>3. QED  BY <2>1, <2>2, <1>0
<1>2. \A s \in Sessions : s > session => accepted'[s] = << >>
  BY <1>0 DEF Kept, Sessions
<1>3. QED  BY <1>1, <1>2 DEF Writes, Wrote

(* The pieces of a line are of its session. *)
LEMMA LineIs ==
    ASSUME NEW s \in Sessions, NEW n \in 0..MaxMessages
    PROVE  /\ Line(s, n) \in Seq(Piece)
           /\ Len(Line(s, n)) = Pieces
           /\ \A i \in 1..Pieces : Line(s, n)[i].session = s
<1> USE OutputNumbers
<1>1. \A k \in 1..Pieces : [session |-> s, line |-> n, piece |-> k] \in Piece
  BY DEF Piece
<1>2. Line(s, n) \in [1..Pieces -> Piece]
  BY <1>1 DEF Line
<1>3. \A i \in 1..Pieces : Line(s, n)[i].session = s
  BY DEF Line
<1> HIDE DEF Line
<1>4. Line(s, n) \in Seq(Piece) /\ Len(Line(s, n)) = Pieces
  BY <1>2
<1>5. QED  BY <1>3, <1>4

(* A line that fits, one that does not, and one after a failure. *)
LEMMA AppendLineWrites ==
    ASSUME Memory, Cuts, Kept, handler # "down", session' = session,
           NEW n \in 0..MaxMessages, Outputs!AppendLine(n)
    PROVE  Writes
<1> USE OutputNumbers
<1> DEFINE line == Line(session, n)
           all == buffer \o line
<1>0. /\ session \in Sessions /\ session \in 0..MaxSessions /\ session >= 1
      /\ failed \in BOOLEAN /\ Mine(buffer) /\ Len(buffer) <= Capacity
      /\ buffer \in Seq(Piece) /\ Len(buffer) \in Nat
  BY DEF Memory, Sessions, Mine
<1>1. line \in Seq(Piece) /\ Len(line) = Pieces /\ \A i \in 1..Pieces : line[i].session = session
  BY <1>0, LineIs
<1>2. Outputs!Accept(session, n) /\
      CASE failed -> UNCHANGED <<buffer, file, failed>>
        [] ~failed /\ Len(all) <= Capacity -> buffer' = all /\ UNCHANGED <<file, failed>>
        [] OTHER -> Outputs!WriteOut(SubSeq(all, 1, Capacity), SubSeq(all, Capacity + 1, Len(all)))
  BY DEF Outputs!AppendLine, Outputs!Line, Line
<1>3. accepted' = [accepted EXCEPT ![session] = @ \o line]
  BY <1>2 DEF Outputs!Accept, Outputs!Line, Line
<1> HIDE DEF line
<1>4. /\ all \in Seq(Piece) /\ Len(all) = Len(buffer) + Pieces
      /\ \A i \in 1..Len(buffer) : all[i] = buffer[i]
      /\ \A i \in (Len(buffer) + 1)..(Len(buffer) + Pieces) : all[i] = line[i - Len(buffer)]
  BY <1>0, <1>1, Concatenation
<1>5. accepted \in [Sessions -> Seq(Piece)] /\ accepted[session] \in Seq(Piece)
  BY <1>0 DEF Kept
<1>6. /\ accepted' \in [Sessions -> Seq(Piece)]
      /\ \A s \in Sessions : s # session => accepted'[s] = accepted[s]
      /\ accepted'[session] = accepted[session] \o line
  <2>1. accepted[session] \o line \in Seq(Piece)
    BY <1>1, <1>5, Concatenation
  <2>2. QED  BY <2>1, <1>0, <1>3, <1>5
<1>7. Of(session) \in Seq(Piece)
  BY <1>0, MineOf
<1> HIDE DEF all
<1>8. Mine(all)
  <2>1. ASSUME NEW i \in 1..Len(all) PROVE all[i].session = session
    <3>1. CASE i <= Len(buffer)
      BY <3>1, <1>0, <1>4 DEF Mine
    <3>2. CASE i > Len(buffer)
      <4>1. /\ i - Len(buffer) \in 1..Pieces
            /\ i \in (Len(buffer) + 1)..(Len(buffer) + Pieces)
        BY <3>2, <1>0, <1>4
      <4>2. QED  BY <4>1, <1>1, <1>4
    <3>3. i <= Len(buffer) \/ i > Len(buffer)
      BY <1>0, <1>4
    <3>4. QED  BY <3>1, <3>2, <3>3
  <2>2. QED  BY <2>1, <1>4 DEF Mine
<1>9. ~failed => Of(session) \o all = accepted'[session]
  <2>1. ~failed => Of(session) \o buffer = accepted[session]
    BY DEF Kept
  <2>2. (Of(session) \o buffer) \o line = Of(session) \o (buffer \o line)
    BY <1>0, <1>1, <1>7, Associative
  <2>3. QED  BY <2>1, <2>2, <1>6 DEF all
<1>10. CASE failed
  <2>1. UNCHANGED <<buffer, file, failed>>
    BY <1>2, <1>10
  <2>2. Cuts' /\ \A s \in 1..session : Of(s)' = Of(s)
    BY <2>1, FileStays
  <2>3. Begins(Of(session), accepted[session])
    BY <1>0 DEF Kept
  <2>4. Begins(Of(session), accepted'[session])
    BY <2>3, <1>1, <1>5, <1>6, <1>7, BeginsLonger
  <2>5. Of(session)' = Of(session)
    BY <2>1 DEF Of, Before
  <2>6. Wrote(accepted'[session])
    BY <2>1, <2>2, <2>4, <2>5, <1>0, <1>10 DEF Wrote, Mine
  <2>7. QED  BY <2>6, <1>6, AcceptedWrites
<1>11. CASE ~failed /\ Len(all) <= Capacity
  <2>1. buffer' = all /\ UNCHANGED <<file, failed>>
    BY <1>2, <1>11
  <2>2. Cuts' /\ \A s \in 1..session : Of(s)' = Of(s)
    BY <2>1, FileStays
  <2>3. Of(session)' = Of(session)
    BY <2>1 DEF Of, Before
  <2>4. Of(session) \o all = accepted'[session]
    BY <1>9, <1>11
  <2>5. Begins(Of(session), accepted'[session])
    BY <2>4, <1>4, <1>7, Beginning
  <2>6. Mine(buffer')
    BY <2>1, <1>8 DEF Mine
  <2>7. Wrote(accepted'[session])
    BY <2>1, <2>2, <2>3, <2>4, <2>5, <2>6, <1>0, <1>11 DEF Wrote
  <2>8. QED  BY <2>7, <1>6, AcceptedWrites
<1>12. CASE ~failed /\ Len(all) > Capacity
  <2> DEFINE p == SubSeq(all, 1, Capacity)
             rest == SubSeq(all, Capacity + 1, Len(all))
  <2>1. Outputs!WriteOut(p, rest)
    <3>1. ~(Len(all) <= Capacity)
      BY <1>12, <1>4
    <3>2. QED  BY <3>1, <1>2, <1>12
  <2>2. /\ p \in Seq(Piece) /\ Len(p) = Capacity
        /\ \A i \in 1..Capacity : p[i] = all[i]
    BY <1>4, <1>12, Slice
  <2>3. /\ rest \in Seq(Piece) /\ Len(rest) = Len(all) - Capacity
        /\ \A i \in 1..(Len(all) - Capacity) : rest[i] = all[Capacity + i]
    BY <1>4, <1>12, Slice
  <2>4. p \o rest = all
    <3>1. 1 \in 1..(Len(all) + 1) /\ Capacity \in (1 - 1)..Len(all) /\ Len(all) \in Capacity..Len(all)
      BY <1>4, <1>12
    <3>2. p \o rest = SubSeq(all, 1, Len(all))
      BY <3>1, <1>4, ConcatAdjacentSubSeq
    <3>3. QED  BY <3>2, <1>4, SubSeqFull
  <2> HIDE DEF p, rest
  <2>5. \A i \in 1..Len(all) : all[i].session = session
    BY <1>8 DEF Mine
  <2>6. Mine(p)
    <3>1. \A i \in 1..Len(p) : i \in 1..Capacity /\ i \in 1..Len(all)
      BY <2>2, <1>12, <1>4
    <3>2. QED  BY <3>1, <2>2, <2>5 DEF Mine
  <2>7. Mine(rest)
    <3>1. \A i \in 1..Len(rest) : Capacity + i \in 1..Len(all) /\ i \in 1..(Len(all) - Capacity)
      BY <2>3, <1>12, <1>4
    <3>2. QED  BY <3>1, <2>3, <2>5 DEF Mine
  <2>8. Len(p) <= Capacity /\ Len(rest) <= Capacity
    BY <2>2, <2>3, <1>0, <1>4
  <2>9. Of(session) \o (p \o rest) = accepted'[session]
    BY <2>4, <1>9, <1>12
  <2>10. Wrote(accepted'[session])
    BY <2>1, <2>6, <2>7, <2>8, <2>9, <1>0, <1>12, WriteOutWrites
  <2>11. QED  BY <2>10, <1>6, AcceptedWrites
<1>13. failed \/ (~failed /\ Len(all) <= Capacity) \/ (~failed /\ Len(all) > Capacity)
  BY <1>0, <1>4
<1>14. QED  BY <1>10, <1>11, <1>12, <1>13

-----------------------------------------------------------------------------
(* Each action keeps the invariant. *)
LEMMA InitInv == Outputs!Init => OutputInv
<1> USE OutputNumbers
<1> SUFFICES ASSUME Outputs!Init PROVE OutputInv
  OBVIOUS
<1> USE DEF Outputs!Init
<1>1. Memory
  <2>1. buffer \in Seq(Piece) /\ Len(buffer) = 0
    OBVIOUS
  <2>2. \A i \in 1..Len(buffer) : buffer[i].session = session
    BY <2>1
  <2>3. Len(buffer) <= Capacity
    BY <2>1
  <2>4. /\ sink \in Outputs!Sinks /\ session \in 0..MaxSessions
        /\ handler = "down" /\ buffer = << >>
        /\ sent \in 0..MaxMessages /\ taken \in 0..MaxMessages
    OBVIOUS
  <2>6. failed \in BOOLEAN /\ ~failed
    OBVIOUS
  <2> HIDE DEF Outputs!Init
  <2>5. QED  BY <2>1, <2>2, <2>3, <2>4, <2>6, Zenon DEF Memory
<1>2. Cuts
  <2>1. Before(1) = 0
    <3>1. {i \in 1..Len(file) : file[i].session < 1} = 1..0
      OBVIOUS
    <3>2. QED  BY <3>1, UpTo DEF Before
  <2>2. QED  BY <2>1 DEF Cuts
<1>3. Kept
  BY SameOutput DEF Kept
<1>4. Others
  BY DEF Others
<1>5. QED  BY <1>1, <1>2, <1>3, <1>4 DEF OutputInv

(* The steps that leave the writer and the process alone. *)
LEMMA WriterStays ==
    ASSUME OutputInv, UNCHANGED <<sink, session, handler, buffer, file, failed, accepted>>,
           sent' \in 0..MaxMessages, taken' \in 0..MaxMessages, Others'
    PROVE  OutputInv'
<1>1. Cuts' /\ \A s \in 1..session : Of(s)' = Of(s)
  BY FileStays DEF OutputInv
<1>2. Memory'
  BY DEF OutputInv, Memory
<1>3. Kept'
  <2>1. handler # "down" => session \in 1..session
    BY OutputNumbers DEF OutputInv, Memory, Sessions
  <2>2. Of(session)' = Of(session)
    BY DEF Of, Before
  <2>3. QED  BY <1>1, <2>1, <2>2 DEF OutputInv, Kept
<1>4. QED  BY <1>1, <1>2, <1>3 DEF OutputInv

(* The steps in which the handler uses the writer. *)
LEMMA WriterSteps ==
    ASSUME OutputInv, handler # "down", UNCHANGED <<sink, session>>, Writes,
           handler' \in {"receiving", "closing", "returned"},
           handler' \in {"closing", "returned"} /\ ~failed' => buffer' = << >>,
           sink \notin Outputs!FileSinks => buffer' = << >>,
           sent' \in 0..MaxMessages, taken' \in 0..MaxMessages, Others'
    PROVE  OutputInv'
<1>1. Memory'
  BY DEF OutputInv, Memory, Writes, Mine
<1>2. Kept'
  BY DEF OutputInv, Kept, Writes
<1>3. QED  BY <1>1, <1>2 DEF OutputInv, Writes

(* What a start puts into the file and into the buffer of what it accepts.  *)
Opens(w, b, a) ==
    /\ w \in Seq(Piece) /\ b \in Seq(Piece) /\ a \in Seq(Piece)
    /\ \A i \in 1..Len(w) : w[i].session = session'
    /\ \A i \in 1..Len(b) : b[i].session = session'
    /\ Len(b) <= Capacity
    /\ file' = file \o w
    /\ buffer' = b
    /\ accepted' = [accepted EXCEPT ![session'] = a]
    /\ Begins(w, a)
    /\ handler' \in {"down", "receiving"}
    /\ handler' = "down" => b = << >>
    /\ sink \notin Outputs!FileSinks => b = << >>
    /\ handler' # "down" => w \o b = a

(* A start, with a header that waits, one that is flushed, or none. *)
LEMMA StartInv == OutputInv /\ Outputs!Start => OutputInv'
<1> USE OutputNumbers
<1> SUFFICES ASSUME OutputInv, Outputs!Start PROVE OutputInv'
  OBVIOUS
<1> DEFINE header == Line(session', 0)
<1>1. /\ handler = "down" /\ session < MaxSessions /\ session' = session + 1
      /\ connected' = (sink \notin Outputs!FileSinks)
      /\ UNCHANGED <<sink, sent, taken, closed, filters, ticked, failed, waiting>>
  BY DEF Outputs!Start, Outputs!channel
<1>2. /\ sink = "csv with header" => /\ buffer' = header /\ Outputs!Accept(session', 0)
                                     /\ handler' = "receiving" /\ UNCHANGED file
      /\ sink = "crtd" => \E n \in 0..Pieces :
                              /\ file' = file \o SubSeq(header, 1, n)
                              /\ Outputs!Accept(session', 0)
                              /\ handler' = IF n = Pieces THEN "receiving" ELSE "down"
                              /\ UNCHANGED buffer
      /\ sink # "csv with header" /\ sink # "crtd" =>
              handler' = "receiving" /\ UNCHANGED <<buffer, file, accepted>>
  BY DEF Outputs!Start, Outputs!Line, Line
<1>3. /\ session \in 0..MaxSessions /\ session \in Nat /\ session' \in Sessions
      /\ session' \in 0..MaxSessions
      /\ buffer = << >> /\ ~failed /\ failed \in BOOLEAN /\ sink \in Outputs!Sinks
      /\ Cuts /\ Kept /\ Others
      /\ sent \in 0..MaxMessages /\ taken \in 0..MaxMessages
  BY <1>1 DEF OutputInv, Memory, Sessions
<1>4. header \in Seq(Piece) /\ Len(header) = Pieces /\ \A i \in 1..Pieces : header[i].session = session'
  BY <1>3, LineIs
<1>5. Others'
  BY <1>1, <1>3 DEF Others, Outputs!FileSinks
<1>6. /\ accepted \in [Sessions -> Seq(Piece)] /\ accepted[session'] = << >>
      /\ \A s \in Sessions : s > session => accepted[s] = << >>
      /\ \A s \in 1..session : Begins(Of(s), accepted[s])
  BY <1>1, <1>3 DEF Kept
<1> HIDE DEF header
<1>7. ASSUME NEW w, NEW b, NEW a, Opens(w, b, a)
      PROVE  OutputInv'
  <2>1. Grows(w)
    BY <1>7 DEF Opens, Grows
  <2>2. /\ Cuts'
        /\ \A s \in 1..session : Of(s)' = Of(s)
        /\ Of(session)' = w
    BY <2>1, <1>1, <1>3, FileGrows, OfBegins
  <2>3. /\ accepted' \in [Sessions -> Seq(Piece)] /\ accepted'[session'] = a
        /\ \A s \in Sessions : s # session' => accepted'[s] = accepted[s]
    BY <1>3, <1>6, <1>7 DEF Opens
  <2>4. Kept'
    <3>1. \A s \in Sessions : s > session' => accepted'[s] = << >>
      BY <1>1, <1>3, <1>6, <2>3 DEF Sessions
    <3>2. ASSUME NEW s \in 1..session' PROVE Begins(Of(s)', accepted'[s])
      <4>1. CASE s = session'
        <5>1. Of(s)' = Of(session)'
          BY <4>1 DEF Of, Before
        <5>2. QED  BY <5>1, <4>1, <2>2, <2>3, <1>7 DEF Opens
      <4>2. CASE s < session'
        <5>1. s \in 1..session /\ s \in Sessions /\ s # session'
          BY <4>2, <1>1, <1>3 DEF Sessions
        <5>2. Of(s)' = Of(s) /\ accepted'[s] = accepted[s] /\ Begins(Of(s), accepted[s])
          BY <5>1, <2>2, <2>3, <1>6
        <5>3. QED  BY <5>2
      <4>3. QED  BY <4>1, <4>2, <1>1, <1>3
    <3>3. handler' # "down" => Of(session)' \o buffer' = accepted'[session']
      BY <2>2, <2>3, <1>7 DEF Opens
    <3>4. QED  BY <2>3, <3>1, <3>2, <3>3 DEF Kept
  <2>5. Memory'
    BY <1>1, <1>3, <1>7 DEF Opens, Memory
  <2>6. QED  BY <2>2, <2>4, <2>5, <1>5 DEF OutputInv
<1>8. Outputs!Accept(session', 0) => accepted' = [accepted EXCEPT ![session'] = header]
  <2>1. << >> \o header = header
    BY <1>4, ConcatEmptySeq
  <2>2. QED  BY <2>1, <1>6 DEF Outputs!Accept, header, Outputs!Line, Line
<1>9. file \o << >> = file /\ << >> \o header = header /\ header \o << >> = header
      /\ << >> \o << >> = << >>
  BY <1>3, <1>4, ConcatEmptySeq DEF Cuts
<1>10. CASE sink = "csv with header"
  <2>1. buffer' = header /\ Outputs!Accept(session', 0) /\ handler' = "receiving" /\ UNCHANGED file
    BY <1>2, <1>10
  <2>2. Begins(<< >>, header)
    BY <1>4 DEF Begins
  <2>3. << >> \in Seq(Piece) /\ Len(<< >>) = 0 /\ Len(header) <= Capacity
    BY <1>4
  <2>4. file' = file \o << >>
    BY <2>1, <1>9
  <2>5. \A i \in 1..Len(header) : header[i].session = session'
    BY <1>4
  <2>6. sink \in Outputs!FileSinks
    BY <1>10 DEF Outputs!FileSinks
  <2>7. \A i \in 1..Len(<< >>) : << >>[i].session = session'
    BY <2>3
  <2>8. Opens(<< >>, header, header)
    BY <2>1, <2>2, <2>3, <2>4, <2>5, <2>6, <2>7, <1>4, <1>8, <1>9 DEF Opens
  <2>9. QED  BY <2>8, <1>7
<1>11. CASE sink = "crtd"
  <2>1. PICK n \in 0..Pieces : /\ file' = file \o SubSeq(header, 1, n)
                               /\ Outputs!Accept(session', 0)
                               /\ handler' = IF n = Pieces THEN "receiving" ELSE "down"
                               /\ UNCHANGED buffer
    BY <1>2, <1>11
  <2> DEFINE w == SubSeq(header, 1, n)
  <2>2. /\ w \in Seq(Piece) /\ Len(w) = n /\ \A i \in 1..n : w[i] = header[i]
    BY <1>4, Slice
  <2>3. n = Pieces => w = header
    BY <1>4, SubSeqFull
  <2>4. file' = file \o w
    BY <2>1
  <2> HIDE DEF w
  <2>5. Begins(w, header)
    BY <2>2, <1>4 DEF Begins
  <2>6. \A i \in 1..Len(w) : w[i].session = session'
    BY <2>2, <1>4
  <2>7. << >> \in Seq(Piece) /\ Len(<< >>) = 0 /\ buffer' = << >>
    BY <2>1, <1>3
  <2>8. handler' \in {"down", "receiving"} /\ (handler' # "down" => w \o << >> = header)
    BY <2>1, <2>3, <1>9
  <2>9. Len(<< >>) <= Capacity /\ \A i \in 1..Len(<< >>) : << >>[i].session = session'
    BY <2>7
  <2>10. sink \in Outputs!FileSinks
    BY <1>11 DEF Outputs!FileSinks
  <2>11. Opens(w, << >>, header)
    BY <2>1, <2>2, <2>4, <2>5, <2>6, <2>7, <2>8, <2>9, <2>10, <1>4, <1>8 DEF Opens
  <2>12. QED  BY <2>11, <1>7
<1>12. CASE sink # "csv with header" /\ sink # "crtd"
  <2>1. handler' = "receiving" /\ UNCHANGED <<buffer, file, accepted>>
    BY <1>2, <1>12
  <2>2. << >> \in Seq(Piece) /\ Len(<< >>) = 0 /\ Begins(<< >>, << >>)
    BY DEF Begins
  <2>3. file' = file \o << >> /\ buffer' = << >>
    BY <2>1, <1>3, <1>9
  <2>4. accepted' = [accepted EXCEPT ![session'] = << >>]
    BY <2>1, <1>6
  <2>5. Len(<< >>) <= Capacity /\ \A i \in 1..Len(<< >>) : << >>[i].session = session'
    BY <2>2
  <2>6. Opens(<< >>, << >>, << >>)
    BY <2>1, <2>2, <2>3, <2>4, <2>5, <1>9 DEF Opens
  <2>7. QED  BY <2>6, <1>7
<1>13. QED  BY <1>10, <1>11, <1>12

(* A crash or an exit loses what is in memory. *)
LEMMA StopInv == OutputInv /\ Outputs!Stop => OutputInv'
<1> USE OutputNumbers
<1> SUFFICES ASSUME OutputInv, Outputs!Stop PROVE OutputInv'
  OBVIOUS
<1> USE DEF Outputs!Stop, OutputInv
<1>1. Cuts' /\ \A s \in 1..session : Of(s)' = Of(s)
  BY FileStays
<1>2. Memory'
  <2>1. buffer' \in Seq(Piece) /\ Len(buffer') = 0
    OBVIOUS
  <2>2. \A i \in 1..Len(buffer') : buffer'[i].session = session'
    BY <2>1
  <2>3. Len(buffer') <= Capacity
    BY <2>1
  <2>4. /\ sink' \in Outputs!Sinks /\ session' \in 0..MaxSessions
        /\ handler' = "down" /\ buffer' = << >>
        /\ sent' \in 0..MaxMessages /\ taken' \in 0..MaxMessages
    BY DEF Memory
  <2>6. failed' \in BOOLEAN /\ ~failed'
    OBVIOUS
  <2> HIDE DEF Outputs!Stop, OutputInv
  <2>5. QED  BY <2>1, <2>2, <2>3, <2>4, <2>6, Zenon DEF Memory
<1>3. Kept'
  BY <1>1 DEF Kept
<1>4. Others'
  BY DEF Others
<1>5. QED  BY <1>1, <1>2, <1>3, <1>4

(* A message is written, filtered or published. *)
LEMMA TakeInv == OutputInv /\ Outputs!Take => OutputInv'
<1> USE OutputNumbers
<1> SUFFICES ASSUME OutputInv, Outputs!Take PROVE OutputInv'
  OBVIOUS
<1>1. /\ handler = "receiving" /\ taken < sent /\ taken' = taken + 1
      /\ UNCHANGED <<sink, session, handler, sent, closed, filters, ticked, connected>>
      /\ IF sink \in Outputs!FileSinks THEN Outputs!Write(taken') /\ UNCHANGED waiting
         ELSE Outputs!Publish(taken') /\ UNCHANGED Outputs!writer
  BY DEF Outputs!Take
<1>2. /\ Memory /\ Cuts /\ Kept /\ Others
      /\ sent \in 0..MaxMessages /\ taken \in 0..MaxMessages
      /\ taken' \in 0..MaxMessages /\ taken' \in Messages
  BY <1>1 DEF OutputInv, Memory, Messages
<1>3. Others'
  <2>1. waiting' \subseteq Messages
    BY <1>1, <1>2 DEF Others, Outputs!Publish
  <2>2. QED  BY <2>1, <1>1, <1>2 DEF Others
<1>4. CASE sink \in Outputs!FileSinks /\ ~Outputs!ShouldFilter(taken')
  <2>1. Outputs!AppendLine(taken')
    BY <1>1, <1>4 DEF Outputs!Write
  <2>2. Writes
    BY <2>1, <1>1, <1>2, AppendLineWrites
  <2>3. QED  BY <2>2, <1>1, <1>2, <1>3, <1>4, WriterSteps
<1>5. CASE ~(sink \in Outputs!FileSinks /\ ~Outputs!ShouldFilter(taken'))
  <2>1. UNCHANGED Outputs!writer
    BY <1>1, <1>5 DEF Outputs!Write
  <2>2. QED  BY <2>1, <1>1, <1>2, <1>3, WriterStays DEF Outputs!writer
<1>6. QED  BY <1>4, <1>5

(* The tick, the end of the channel, and Close. *)
LEMMA FlushSteps ==
    ASSUME OutputInv, Outputs!FlushAtTick \/ Outputs!EndOfInput \/ Outputs!Close
    PROVE  OutputInv'
<1> USE OutputNumbers
<1>1. /\ Memory /\ Cuts /\ Kept /\ Others /\ handler # "down" /\ UNCHANGED <<sink, session>>
      /\ sent' \in 0..MaxMessages /\ taken' \in 0..MaxMessages
      /\ sink \notin Outputs!FileSinks => buffer = << >>
  BY DEF OutputInv, Outputs!FlushAtTick, Outputs!EndOfInput, Outputs!Close, Outputs!channel, Memory
<1>2. Others'
  BY <1>1 DEF Others, Outputs!FlushAtTick, Outputs!EndOfInput, Outputs!Close, Outputs!channel, Outputs!broker
<1>3. CASE Outputs!Flush /\ handler' \in {"receiving", "closing", "returned"}
  <2>1. Writes /\ (~failed' => buffer' = << >>) /\ (buffer = << >> => buffer' = << >>)
    BY <1>1, <1>3, FlushWrites
  <2>2. QED  BY <2>1, <1>1, <1>2, <1>3, WriterSteps
<1>4. CASE UNCHANGED Outputs!writer /\ handler' = "returned" /\ sink \notin Outputs!FileSinks
  <2>1. UNCHANGED <<buffer, file, failed, session, accepted>>
    BY <1>1, <1>4 DEF Outputs!writer
  <2>2. Cuts' /\ \A s \in 1..session : Of(s)' = Of(s)
    BY <2>1, <1>1, FileStays
  <2>3. Of(session)' = Of(session)
    BY <2>1 DEF Of, Before
  <2>4. Memory'
    BY <2>1, <1>1, <1>4 DEF Memory
  <2>5. Kept'
    BY <2>1, <2>2, <2>3, <1>1 DEF Kept
  <2>6. QED  BY <2>2, <2>4, <2>5, <1>2 DEF OutputInv
<1>5. (Outputs!Flush /\ handler' \in {"receiving", "closing", "returned"})
      \/ (UNCHANGED Outputs!writer /\ handler' = "returned" /\ sink \notin Outputs!FileSinks)
  BY DEF Outputs!FlushAtTick, Outputs!EndOfInput, Outputs!Close
<1>6. QED  BY <1>3, <1>4, <1>5

(* The channel, the filters, the ticker and the broker. *)
LEMMA OtherSteps ==
    ASSUME OutputInv,
           \/ Outputs!Send \/ Outputs!CloseChannel \/ Outputs!LoseOrFindBroker \/ Outputs!Tick
           \/ \E name \in DOMAIN Rejects : Outputs!AddFilter(name)
           \/ \E n \in Messages : Outputs!Acknowledge(n) \/ Outputs!GiveUp(n)
    PROVE  OutputInv'
<1> USE OutputNumbers
<1>1. Memory /\ Others
  BY DEF OutputInv
<1>2. CASE Outputs!Send
  BY <1>1, <1>2, WriterStays DEF Outputs!Send, Memory, Others, Outputs!writer, Outputs!broker
<1>3. CASE Outputs!CloseChannel
  BY <1>1, <1>3, WriterStays DEF Outputs!CloseChannel, Memory, Others, Outputs!writer, Outputs!broker
<1>4. CASE Outputs!LoseOrFindBroker
  BY <1>1, <1>4, WriterStays DEF Outputs!LoseOrFindBroker, Memory, Others, Outputs!writer, Outputs!channel
<1>5. CASE Outputs!Tick
  BY <1>1, <1>5, WriterStays DEF Outputs!Tick, Memory, Others, Outputs!writer, Outputs!broker, Outputs!channel
<1>6. ASSUME NEW name \in DOMAIN Rejects, Outputs!AddFilter(name) PROVE OutputInv'
  BY <1>1, <1>6, WriterStays DEF Outputs!AddFilter, Memory, Others, Outputs!writer, Outputs!broker, Outputs!channel
<1>7. ASSUME NEW n \in Messages, Outputs!Acknowledge(n) \/ Outputs!GiveUp(n) PROVE OutputInv'
  BY <1>1, <1>7, WriterStays DEF Outputs!Acknowledge, Outputs!GiveUp, Memory, Others, Outputs!writer, Outputs!channel
<1>8. QED  BY <1>2, <1>3, <1>4, <1>5, <1>6, <1>7

LEMMA NextInv == OutputInv /\ [Outputs!Next]_(Outputs!vars) => OutputInv'
<1> SUFFICES ASSUME OutputInv, [Outputs!Next]_(Outputs!vars) PROVE OutputInv'
  OBVIOUS
<1>1. CASE Outputs!Next
  BY <1>1, SameOutput, StartInv, StopInv, TakeInv, FlushSteps, OtherSteps DEF Outputs!Next, Outputs!Handler
<1>2. CASE UNCHANGED Outputs!vars
  <2>1. /\ UNCHANGED <<sink, session, handler, buffer, file, failed, accepted>>
        /\ UNCHANGED <<sent, taken, closed, filters, ticked, connected, waiting>>
    BY <1>2 DEF Outputs!vars
  <2>2. Others' /\ sent' \in 0..MaxMessages /\ taken' \in 0..MaxMessages
    BY <2>1 DEF OutputInv, Memory, Others
  <2>3. QED  BY <2>1, <2>2, WriterStays
<1>3. QED  BY <1>1, <1>2

(* The invariant holds, for any length of session and line, any capacity    *)
(* and any number of starts.                                                *)
THEOREM OutputInvariant == Outputs!Spec => []OutputInv
<1>1. QED  BY InitInv, NextInv, PTL DEF Outputs!Spec

(* Types: bufio's buffer never holds more than its capacity. *)
THEOREM OutputTypes == Outputs!Spec => []Outputs!TypeOK
<1>1. OutputInv => Outputs!TypeOK
  BY SameOutput DEF OutputInv, Memory, Cuts, Kept, Others, Outputs!TypeOK
<1>2. QED  BY <1>1, OutputInvariant, PTL

(* FileReadsBack: the file keeps the sessions apart and reads back, of      *)
(* each, what csv.WriteLine and the CRTD writer accepted, in order and      *)
(* without a gap, up to what bufio's buffer holds; whole when the handler   *)
(* has returned without an error.                                           *)
THEOREM OutputsReadBack == Outputs!Spec => []FileReadsBack
<1>1. ASSUME OutputInv PROVE FileReadsBack
  <2>1. ASSUME NEW i \in 1..Len(file), NEW j \in 1..Len(file), i < j
        PROVE  file[i].session <= file[j].session
    <3> DEFINE s == file[j].session
    <3>1. \A k \in 1..Len(file) : file[k].session \in Nat /\ file[k].session >= 1
                                  /\ file[k].session <= session
      <4>1. \A p \in Piece : p.session \in Nat /\ p.session >= 1
        BY DEF Piece, Sessions
      <4>2. QED  BY <1>1, <4>1 DEF OutputInv, Cuts
    <3>2. session \in Nat
      BY <1>1, OutputNumbers DEF OutputInv, Memory
    <3>3. CASE file[i].session > file[j].session
      <4> DEFINE r == file[i].session
      <4>1. r \in 1..(session + 1)
        BY <3>1, <3>2
      <4>2. \A k \in 1..Len(file) : k <= Before(r) <=> file[k].session < r
        BY <4>1, <1>1 DEF OutputInv, Cuts
      <4>3. Before(r) \in 0..Len(file)
        BY <4>1, <1>1 DEF OutputInv, Cuts
      <4>4. j <= Before(r)
        BY <4>2, <3>3
      <4>5. i <= Before(r)
        BY <4>3, <4>4, <2>1
      <4>6. file[i].session < r
        BY <4>2, <4>5
      <4>7. QED  BY <4>6, <3>1
    <3>4. QED  BY <3>3, <3>1
  <2>2. QED  BY <1>1, <2>1 DEF OutputInv, Memory, Kept, FileReadsBack
<1>2. QED  BY <1>1, OutputInvariant, PTL
=============================================================================
