-------------------------------- MODULE Dbc --------------------------------
(***************************************************************************)
(* internal/parser/dbc: which signals of a message a frame holds.  A value *)
(* is the set of its one bits; the bit positions a signal is read from are *)
(* abstracted to the frame's data, which gives each signal's raw value.    *)
(*                                                                         *)
(*   descriptor  [Name, IsMultiplexer, IsMultiplexed, MultiplexerValue]    *)
(*   message     [Name, Signals], the signals in the order compile left    *)
(*   database    a function from identifiers to messages                   *)
(*   frame       [ID, Data], Data a function from signal names to values   *)
(***************************************************************************)
LOCAL INSTANCE Naturals
LOCAL INSTANCE Sequences
LOCAL INSTANCE SequencesExt

(* The value of the first of the signals at the positions I, if any. *)
FirstValue(I, sigs, Data) ==
    {Data[sigs[i].Name] : i \in {i \in I : \A j \in I : i <= j}}

TopMuxValue(sigs, Data) ==
    FirstValue({i \in DOMAIN sigs :
                   sigs[i].IsMultiplexer /\ ~ sigs[i].IsMultiplexed},
               sigs, Data)

NestedMuxValue(sigs, Data) ==
    FirstValue({i \in DOMAIN sigs :
                   /\ sigs[i].IsMultiplexer /\ sigs[i].IsMultiplexed
                   /\ sigs[i].MultiplexerValue \in TopMuxValue(sigs, Data)},
               sigs, Data)

(* A switch answers to the top switch, a leaf to the nested one if active.  *)
Included(s, sigs, Data) ==
    LET top    == TopMuxValue(sigs, Data)
        nested == NestedMuxValue(sigs, Data)
    IN  \/ ~ s.IsMultiplexed
        \/ s.MultiplexerValue \in
               (IF s.IsMultiplexer \/ nested = {} THEN top ELSE nested)

ParseSignals(db, frame) ==
    IF frame.ID \notin DOMAIN db
    THEN << >>
    ELSE LET message == db[frame.ID]
             Holds(s) == Included(s, message.Signals, frame.Data)
             held     == SelectSeq(message.Signals, Holds)
         IN  [i \in DOMAIN held |->
                 [Message |-> message.Name, Signal |-> held[i].Name,
                  Value |-> frame.Data[held[i].Name]]]

(* MultiParser: what each parser finds, one after the other. *)
ParseAll(parsers, frame) ==
    FlattenSeq([p \in DOMAIN parsers |-> ParseSignals(parsers[p], frame)])
=============================================================================
