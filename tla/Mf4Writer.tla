------------------------------ MODULE Mf4Writer ------------------------------
(***************************************************************************)
(* internal/output/mf4 and parser/mf4, with the reader of                  *)
(* connection/playback: one of the two files, written one write after the  *)
(* other, each of which may fail or be cut short by a crash, and what the  *)
(* reader finds in it.  The file after its metadata is a sequence of cells,*)
(* one for a field or for a byte of data; time stamp and direction, which  *)
(* the reader copies, are left out.  The signal file is written by the same*)
(* steps, with a label for data.                                           *)
(***************************************************************************)
EXTENDS Naturals, Sequences

CONSTANTS Data,           (* what frames carry: sequences of naturals          *)
          MaxCANDataLen,
          MaxFrames,      (* bound: messages the handler takes                 *)
          MaxFaults       (* bound: writes that fail                           *)

RecordIDPrimary == 1
RecordIDVLSD    == 2
CANRecordSize   == 3      \* identifier, length, offset
PrefixSize      == 2      \* the length of a payload, low part first
Base            == 256
HeaderSize      == 24
Blocks          == 11     \* ID, HD, 3 TX, 2 CG, 2 CN, DG and the head of DT

ASSUME Mf4Assumption ==
    /\ MaxCANDataLen \in 1..(Base - 1)
    /\ MaxFrames \in Nat /\ MaxFaults \in Nat
    /\ \A d \in Data : d \in Seq(0..(Base - 1))

VARIABLES
    blocks,      \* metadata blocks written
    magic,       \* of the ID block
    unfinalized, \* its flag
    length,      \* the block length in the head of DT
    dt,          \* the cells after it, up to the end of the file
    vlsdOffset,
    finalize,    \* MF4_FINALIZE
    canMsgCount,
    frame,       \* the frame being appended
    pc,          \* the write that comes next, or why none does
    faults,      \* writes that failed
    frames,      \* history: the frames it began to append
    intact       \* history: how many it had appended before any write failed

vars == <<blocks, magic, unfinalized, length, dt, vlsdOffset, finalize,
          canMsgCount, frame, pc, faults, frames, intact>>
head   == <<blocks, magic, unfinalized, length>>
stream == <<dt, vlsdOffset>>
call   == <<canMsgCount, frame, frames>>

Frame == [ID : 1..MaxFrames, Data : {d \in Data : Len(d) <= MaxCANDataLen}]

TypeOK ==
    /\ blocks \in 0..Blocks
    /\ magic \in {"UnFinMF", "MDF"}
    /\ unfinalized \in BOOLEAN /\ finalize \in BOOLEAN
    /\ length \in Nat
    /\ dt \in Seq(Nat)
    /\ vlsdOffset \in Nat
    /\ canMsgCount \in 0..MaxFrames
    /\ frames \in Seq(Frame)
    /\ frame \in Frame \cup {<< >>}
    /\ frame = << >> <=> pc \notin {"record", "payload"}
    /\ pc \in {"metadata", "idle", "record", "payload", "length", "magic",
               "flag", "closed", "crashed"}
    /\ faults \in 0..MaxFaults
    /\ intact \in 0..Len(frames)

-----------------------------------------------------------------------------
Init ==
    /\ blocks = 0 /\ magic = "UnFinMF" /\ unfinalized = TRUE
    /\ length = HeaderSize
    /\ dt = << >> /\ vlsdOffset = 0
    /\ finalize \in BOOLEAN
    /\ canMsgCount = 0 /\ frame = << >> /\ frames = << >>
    /\ pc = "metadata" /\ faults = 0 /\ intact = 0

(* writeMetadata: one write per block. *)
WriteMetadata ==
    /\ pc = "metadata"
    /\ blocks' = blocks + 1
    /\ pc' = IF blocks' = Blocks THEN "idle" ELSE pc
    /\ UNCHANGED <<magic, unfinalized, length, stream, finalize, call, faults,
                   intact>>

(* The handler takes a message; AppendCAN rejects one that is too long. *)
Take ==
    \E d \in Data :
        /\ pc = "idle"
        /\ canMsgCount < MaxFrames
        /\ canMsgCount' = canMsgCount + 1
        /\ IF Len(d) > MaxCANDataLen
           THEN UNCHANGED <<frame, frames, pc>>
           ELSE /\ frame' = [ID |-> canMsgCount', Data |-> d]
                /\ frames' = Append(frames, frame')
                /\ pc' = "record"
        /\ UNCHANGED <<head, stream, finalize, faults, intact>>

Record == <<RecordIDPrimary, frame.ID, Len(frame.Data), vlsdOffset>>

Payload ==
    <<RecordIDVLSD, Len(frame.Data) % Base, Len(frame.Data) \div Base>> \o frame.Data

WriteRecord ==
    /\ pc = "record"
    /\ dt' = dt \o Record
    /\ pc' = "payload"
    /\ UNCHANGED <<head, vlsdOffset, finalize, call, faults, intact>>

(* Mutant: the offset counts the data, not the prefix. *)
WritePayloadUncounted ==
    /\ pc = "payload"
    /\ dt' = dt \o Payload
    /\ vlsdOffset' = vlsdOffset + Len(frame.Data)
    /\ frame' = << >>
    /\ pc' = "idle"
    /\ intact' = IF faults = 0 THEN intact + 1 ELSE intact
    /\ UNCHANGED <<head, finalize, canMsgCount, frames, faults>>

(* appendVLSD: the offset moves once the payload is written. *)
WritePayload ==
    /\ pc = "payload"
    /\ dt' = dt \o Payload
    /\ vlsdOffset' = vlsdOffset + PrefixSize + Len(frame.Data)
    /\ frame' = << >>
    /\ pc' = "idle"
    /\ intact' = IF faults = 0 THEN intact + 1 ELSE intact
    /\ UNCHANGED <<head, finalize, canMsgCount, frames, faults>>

(* Mutant: the magic is turned before the length is known. *)
CloseMagicFirst ==
    /\ pc = "idle"
    /\ pc' = IF finalize THEN "magic" ELSE "closed"
    /\ UNCHANGED <<head, stream, finalize, call, faults, intact>>

(* The channel is closed and empty: closeCAN. *)
Close ==
    /\ pc = "idle"
    /\ pc' = IF finalize THEN "length" ELSE "closed"
    /\ UNCHANGED <<head, stream, finalize, call, faults, intact>>

(* Mutant: the length of the data without the head of its block. *)
WriteDataLength ==
    /\ pc = "length"
    /\ length' = Len(dt)
    /\ pc' = "magic"
    /\ UNCHANGED <<blocks, magic, unfinalized, stream, finalize, call, faults,
                   intact>>

(* finalize: three writes over the head of the file. *)
WriteLength ==
    /\ pc = "length"
    /\ length' = HeaderSize + Len(dt)
    /\ pc' = "magic"
    /\ UNCHANGED <<blocks, magic, unfinalized, stream, finalize, call, faults,
                   intact>>

WriteMagic ==
    /\ pc = "magic"
    /\ magic' = "MDF"
    /\ pc' = "flag"
    /\ UNCHANGED <<blocks, unfinalized, length, stream, finalize, call, faults,
                   intact>>

ClearFlag ==
    /\ pc = "flag"
    /\ unfinalized' = FALSE
    /\ pc' = "closed"
    /\ UNCHANGED <<blocks, magic, length, stream, finalize, call, faults, intact>>

(* The write that comes next puts down a part of its cells only.  The eight *)
(* bytes of each of the others lie in one page and are written or not.      *)
Pending == CASE pc = "record"  -> Record
             [] pc = "payload" -> Payload
             [] OTHER          -> << >>

CutShort ==
    \E n \in 0..Len(Pending) :
        /\ Pending # << >> => n < Len(Pending)
        /\ dt' = dt \o SubSeq(Pending, 1, n)
        /\ frame' = << >>
        /\ UNCHANGED <<head, vlsdOffset, finalize, canMsgCount, frames, intact>>

(* A write fails: the handler logs that and goes on; newWriter and finalize *)
(* give up.                                                                 *)
Fail ==
    /\ pc \notin {"idle", "closed", "crashed"}
    /\ faults < MaxFaults
    /\ faults' = faults + 1
    /\ pc' = IF pc \in {"record", "payload"} THEN "idle" ELSE "closed"
    /\ CutShort

(* The process is killed between two writes or inside one. *)
Crash ==
    /\ pc \notin {"closed", "crashed"}
    /\ pc' = "crashed"
    /\ CutShort
    /\ UNCHANGED faults

Next ==
    \/ WriteMetadata
    \/ Take \/ WriteRecord \/ WritePayload
    \/ Close \/ WriteLength \/ WriteMagic \/ ClearFlag
    \/ Fail \/ Crash

Spec == Init /\ [][Next]_vars

-----------------------------------------------------------------------------
(* The reader. *)

(* Parse and ReadDTData: an error, and nothing, if a block of the metadata is *)
(* missing or the length says more than there is; the rest of the file if it  *)
(* says nothing.                                                              *)
DTData ==
    IF blocks < Blocks \/ length > HeaderSize + Len(dt) THEN << >>
    ELSE IF length = HeaderSize THEN dt
    ELSE SubSeq(dt, 1, length - HeaderSize)

(* The length a payload's prefix at p announces. *)
LengthAt(d, p) == d[p] + Base * d[p + 1]

IsVLSD(d, p) == d[p] = RecordIDVLSD

(* An unknown ID ends the walk, and so does a prefix that is not all there.  *)
Ends(d, p) ==
    \/ p > Len(d)
    \/ d[p] \notin {RecordIDPrimary, RecordIDVLSD}
    \/ IsVLSD(d, p) /\ p + PrefixSize > Len(d)

(* Where the reader is and what it has: the primary records that are all    *)
(* there; of the payloads, raw the length of their stream, buf the data     *)
(* without the prefixes, and where in that the one at each offset of the    *)
(* stream begins.  collectVLSD and parseDG walk alike: one walk is both.    *)
Outset == [at |-> 1, whole |-> << >>, raw |-> 0, offsets |-> << >>, buf |-> << >>]

Pass(d, c) ==
    LET p     == c.at
        n     == LengthAt(d, p + 1)
        first == p + 1 + PrefixSize
    IN  IF IsVLSD(d, p)
        THEN [c EXCEPT !.at      = first + n,
                       !.raw     = @ + PrefixSize + n,
                       !.offsets = [r \in {c.raw} \cup DOMAIN @ |->
                                       IF r = c.raw THEN Len(c.buf) ELSE @[r]],
                       !.buf     = IF first + n - 1 > Len(d) THEN @
                                   ELSE @ \o SubSeq(d, first, first + n - 1)]
        ELSE [c EXCEPT !.at    = p + 1 + CANRecordSize,
                       !.whole = IF p + CANRecordSize > Len(d) THEN @ ELSE Append(@, p)]

(* The walk, record by record; no record is shorter than a cell. *)
Walk(d) ==
    LET after[k \in Nat] ==
            IF k = 0 THEN Outset
            ELSE LET c == after[k - 1] IN IF Ends(d, c.at) THEN c ELSE Pass(d, c)
    IN  after

Walked(d) == Walk(d)[Len(d)]

(* nil is << >>: the length tells whether that is all. *)
Lookup(c, rawOffset, n) ==
    IF rawOffset \in DOMAIN c.offsets /\ c.offsets[rawOffset] + n <= Len(c.buf)
    THEN SubSeq(c.buf, c.offsets[rawOffset] + 1, c.offsets[rawOffset] + n)
    ELSE << >>

(* parseDG: the entry of every primary record that is all there. *)
Read(d) ==
    LET c == Walked(d)
    IN  [i \in 1..Len(c.whole) |->
            LET p == c.whole[i]
            IN  [ID |-> d[p + 1], Length |-> d[p + 2],
                 Data |-> Lookup(c, d[p + 3], d[p + 2])]]

Entries == Read(DTData)

EntryOf(f) == [ID |-> f.ID, Length |-> Len(f.Data), Data |-> f.Data]

-----------------------------------------------------------------------------
(***************************************************************************)
(* Wherever the process is killed, the reader finds every frame that was   *)
(* appended before any write failed, with its data, and without a failure  *)
(* nothing more than the one being appended, perhaps without its data      *)
(* (README.md:78, "a crash still leaves a valid stream").                  *)
(***************************************************************************)
Recoverable ==
    /\ Len(Entries) >= intact
    /\ \A i \in 1..intact : Entries[i] = EntryOf(frames[i])
    /\ faults = 0 /\ Len(Entries) > intact =>
          /\ Len(Entries) = intact + 1
          /\ Entries[intact + 1] \in
                {[EntryOf(frames[intact + 1]) EXCEPT !.Data = d] :
                    d \in {<< >>, frames[intact + 1].Data}}

(***************************************************************************)
(* What a reader found once it finds again, whatever is written later,     *)
(* failed writes and the three of finalize included.                       *)
(***************************************************************************)
Stays(old, new) ==
    /\ Len(old) <= Len(new)
    /\ \A i \in DOMAIN old :
          IF old[i].Data = << >>
          THEN new[i].ID = old[i].ID /\ new[i].Length = old[i].Length
          ELSE new[i] = old[i]

ReadsStay ==
    [][\A old \in {DTData}, new \in {DTData'} : Stays(Read(old), Read(new))]_vars

(***************************************************************************)
(* A file that names itself finalized has the length of its data, and one  *)
(* that is not flagged unfinalized names itself finalized, also when       *)
(* finalize stopped half way.                                              *)
(***************************************************************************)
FinalizedIsComplete ==
    /\ magic = "MDF" => length = HeaderSize + Len(dt)
    /\ ~ unfinalized => magic = "MDF"

=============================================================================
