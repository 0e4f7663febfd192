--------------------------- MODULE DataPortAudio ---------------------------
(***************************************************************************)
(* tiny::Data_port<T, Port_direction::Audio>: the mirror image of DataPort.*)
(* Here the reader is the audio thread and must be wait-free, so the       *)
(* reader owns slot `index` and marks it BUSY, and it is the writer that   *)
(* flips `index`, once the reader is out of its slot.                      *)
(***************************************************************************)
EXTENDS Integers

CONSTANTS Values,  \* the values of T that are written
          Initial, \* T{}
          Torn     \* the bytes of a T half way through a copy into it

VARIABLES index,   \* _control & MASK_INDEX: the reader's slot
          busy,    \* _control & FLAG_BUSY: the reader is inside its slot
          storage, \* _storage
          writing, \* the writer's program counter
          value,   \* the argument of the write under way
          curr,    \* the writer's copy of the control word
          slot,    \* the slot the read under way was given
          reading, \* the reader's program counter
          out      \* what the reader returned last

vars == <<index, busy, storage, writing, value, curr, slot, reading, out>>

\* index ^ MASK_INDEX.
Other(i) == 1 - i

Word == [index : {0, 1}, busy : BOOLEAN]
Loaded == [index |-> index, busy |-> busy]

Init == /\ index = 0 /\ busy = FALSE
        /\ storage = [i \in {0, 1} |-> Initial]
        /\ writing = "idle" /\ value = Initial /\ curr = Loaded
        /\ reading = "idle" /\ slot = 0 /\ out = Initial

-----------------------------------------------------------------------------
(* The reader, wait-free: read(). *)

ReadBegin ==
    /\ reading = "idle"
    /\ reading' = "copy"
    /\ slot' = index
    /\ busy' = TRUE
    /\ UNCHANGED <<index, storage, writing, value, curr, out>>

ReadCopy ==
    /\ reading = "copy"
    /\ reading' = "release"
    /\ out' = storage[slot]
    /\ UNCHANGED <<index, busy, storage, writing, value, curr, slot>>

ReadEnd ==
    /\ reading = "release"
    /\ reading' = "idle"
    /\ busy' = FALSE
    /\ UNCHANGED <<index, storage, writing, value, curr, slot, out>>

-----------------------------------------------------------------------------
(* The writer: write(value). *)

WriteLoad(v) ==
    /\ writing = "idle"
    /\ writing' = "copy"
    /\ value' = v
    /\ curr' = Loaded
    /\ UNCHANGED <<index, busy, storage, slot, reading, out>>

WriteTear ==
    /\ writing = "copy"
    /\ writing' = "tearing"
    /\ storage' = [storage EXCEPT ![Other(curr.index)] = Torn]
    /\ UNCHANGED <<index, busy, value, curr, slot, reading, out>>

WriteCopied ==
    /\ writing = "tearing"
    /\ writing' = "exchange"
    /\ storage' = [storage EXCEPT ![Other(curr.index)] = value]
    /\ UNCHANGED <<index, busy, value, curr, slot, reading, out>>

\* The exchange expects the loaded word with BUSY masked off, so it waits for
\* the reader to leave; a failure reloads the expected word.
WriteExchange ==
    /\ writing = "exchange"
    /\ IF Loaded = [curr EXCEPT !.busy = FALSE]
       THEN /\ index' = Other(curr.index) /\ busy' = FALSE
            /\ writing' = "idle"
            /\ UNCHANGED curr
       ELSE /\ curr' = Loaded
            /\ UNCHANGED <<index, busy, writing>>
    /\ UNCHANGED <<storage, value, slot, reading, out>>

-----------------------------------------------------------------------------
Writer == (\E v \in Values : WriteLoad(v)) \/ WriteTear \/ WriteCopied \/ WriteExchange
Reader == ReadBegin \/ ReadCopy \/ ReadEnd
Next == Writer \/ Reader

Spec == Init /\ [][Next]_vars

-----------------------------------------------------------------------------
TypeOK ==
    /\ index \in {0, 1} /\ busy \in BOOLEAN
    /\ storage \in [{0, 1} -> Values \cup {Torn}]
    /\ writing \in {"idle", "copy", "tearing", "exchange"}
    /\ value \in Values
    /\ curr \in Word /\ slot \in {0, 1}
    /\ reading \in {"idle", "copy", "release"}
    /\ out \in Values \cup {Torn}

\* The audio thread is never handed a half-copied T: the slot the writer fills
\* is not the one the audio thread is in, though `index` moves between them.
NeverTorn == out # Torn

\* The port is a latest-value register; the reader takes the value as it marks
\* its slot, since from then on the writer cannot flip `index`.
Abs == INSTANCE LatestValue WITH
    latest <- storage[index],
    taken <- IF reading = "copy" THEN storage[slot] ELSE out

\* data_port.hpp's "Reader sees latest value.": write and read implement the register.
Refines == Abs!LVSpec

=============================================================================
