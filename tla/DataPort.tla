------------------------------ MODULE DataPort ------------------------------
(***************************************************************************)
(* tiny::Data_port<T, Port_direction::Main>: a double buffer between one   *)
(* wait-free writer and one reader, arbitrated by one control word         *)
(* {index, BUSY, DIRTY}.  The writer owns slot `index`, the reader the     *)
(* other one; taking a fresh value flips `index`.                          *)
(*                                                                         *)
(* A slot access is a begin step and an end step, so that the other thread *)
(* can run in the middle of a copy of a T.                                 *)
(***************************************************************************)
EXTENDS Integers

CONSTANTS Values,  \* the values of T that are written
          Initial, \* T{}
          Torn     \* the bytes of a T half way through a copy into it

ASSUME DataPortAssumption == Initial \in Values /\ Torn \notin Values

VARIABLES index,   \* _control & MASK_INDEX: the writer's slot
          busy,    \* _control & FLAG_BUSY: the writer is inside its slot
          dirty,   \* _control & FLAG_DIRTY: a write has landed since the last read
          storage, \* _storage
          writing, \* the writer's program counter
          value,   \* the argument of the write under way
          slot,    \* the slot the write under way was given
          reading, \* the reader's program counter
          curr,    \* the reader's copy of the control word
          out      \* what the reader returned last

vars == <<index, busy, dirty, storage, writing, value, slot, reading, curr, out>>

\* index ^ MASK_INDEX.
Other(i) == 1 - i

\* A control word as the reader holds it.
Word == [index : {0, 1}, busy : BOOLEAN, dirty : BOOLEAN]
Loaded == [index |-> index, busy |-> busy, dirty |-> dirty]

Init == /\ index = 0 /\ busy = FALSE /\ dirty = FALSE
        /\ storage = [i \in {0, 1} |-> Initial]
        /\ writing = "idle" /\ value = Initial /\ slot = 0
        /\ reading = "idle" /\ curr = Loaded
        /\ out = Initial

-----------------------------------------------------------------------------
(* The writer: write(value). *)

\* fetch_or(FLAG_BUSY): the slot is fixed here.
WriteBegin(v) ==
    /\ writing = "idle"
    /\ writing' = "copy"
    /\ value' = v
    /\ slot' = index
    /\ busy' = TRUE
    /\ UNCHANGED <<index, dirty, storage, reading, curr, out>>

WriteTear ==
    /\ writing = "copy"
    /\ writing' = "tearing"
    /\ storage' = [storage EXCEPT ![slot] = Torn]
    /\ UNCHANGED <<index, busy, dirty, value, slot, reading, curr, out>>

WriteCopied ==
    /\ writing = "tearing"
    /\ writing' = "store"
    /\ storage' = [storage EXCEPT ![slot] = value]
    /\ UNCHANGED <<index, busy, dirty, value, slot, reading, curr, out>>

\* store(index | FLAG_DIRTY): clears BUSY in the same word.
WriteEnd ==
    /\ writing = "store"
    /\ writing' = "idle"
    /\ index' = slot /\ busy' = FALSE /\ dirty' = TRUE
    /\ UNCHANGED <<storage, value, slot, reading, curr, out>>

-----------------------------------------------------------------------------
(* The reader: read() and read_fresh(out), which differ only in what a     *)
(* clean word means: read() copies its own slot again, read_fresh returns  *)
(* false.                                                                  *)

ReadLoad ==
    /\ reading = "idle"
    /\ curr' = Loaded
    /\ reading' \in IF dirty THEN {"exchange"} ELSE {"copy", "idle"}
    /\ UNCHANGED <<index, busy, dirty, storage, writing, value, slot, out>>

\* Mutant: the next slot, without wrapping around.
Advanced(word) == [index |-> word.index + 1, busy |-> FALSE, dirty |-> FALSE]

\* The word the exchange writes: the other slot, neither BUSY nor DIRTY.
Flipped(word) == [index |-> Other(word.index), busy |-> FALSE, dirty |-> FALSE]

\* Mutant: the expected word keeps the BUSY bit it was loaded with.
ExchangeUnmasked ==
    /\ reading = "exchange"
    /\ IF Loaded = curr
       THEN /\ curr' = Flipped(curr)
            /\ index' = curr'.index /\ busy' = FALSE /\ dirty' = FALSE
            /\ reading' = "copy"
       ELSE /\ curr' = Loaded
            /\ UNCHANGED <<index, busy, dirty, reading>>
    /\ UNCHANGED <<storage, writing, value, slot, out>>

\* compare_exchange against the loaded word with BUSY masked off: it fails
\* while the writer is inside, and a failure reloads the expected word.
ReadExchange ==
    /\ reading = "exchange"
    /\ IF Loaded = [curr EXCEPT !.busy = FALSE]
       THEN /\ curr' = Flipped(curr)
            /\ index' = curr'.index /\ busy' = FALSE /\ dirty' = FALSE
            /\ reading' = "copy"
       ELSE /\ curr' = Loaded
            /\ UNCHANGED <<index, busy, dirty, reading>>
    /\ UNCHANGED <<storage, writing, value, slot, out>>

ReadCopy ==
    /\ reading = "copy"
    /\ out' = storage[Other(curr.index)]
    /\ reading' = "idle"
    /\ UNCHANGED <<index, busy, dirty, storage, writing, value, slot, curr>>

-----------------------------------------------------------------------------
Writer == (\E v \in Values : WriteBegin(v)) \/ WriteTear \/ WriteCopied \/ WriteEnd
Reader == ReadLoad \/ ReadExchange \/ ReadCopy
Next == Writer \/ Reader

Spec == Init /\ [][Next]_vars

\* A write that began runs on; the reader polls once per editor frame.  Nothing makes the writer write.
Fairness == WF_vars(WriteTear \/ WriteCopied \/ WriteEnd) /\ WF_vars(Reader)
FairSpec == Spec /\ Fairness

-----------------------------------------------------------------------------
TypeOK ==
    /\ index \in {0, 1} /\ busy \in BOOLEAN /\ dirty \in BOOLEAN
    /\ storage \in [{0, 1} -> Values \cup {Torn}]
    /\ writing \in {"idle", "copy", "tearing", "store"}
    /\ value \in Values /\ slot \in {0, 1}
    /\ reading \in {"idle", "exchange", "copy"}
    /\ curr \in Word
    /\ out \in Values \cup {Torn}

\* The reader's caller is never handed a T that is half one write and half
\* another, however its exchange falls against the writer's copy.
NeverTorn == out # Torn

\* The port is a latest-value register.  A value is current as soon as the
\* reader can no longer get an older one: from the moment the writer is inside
\* a slot already marked DIRTY, else from the store that sets DIRTY.
Abs == INSTANCE LatestValue WITH
    latest <- IF dirty THEN (IF writing = "idle" THEN storage[index] ELSE value)
                       ELSE storage[Other(index)],
    taken <- storage[Other(index)]

\* data_port.hpp's "Reader sees latest value.": write and read implement the register.
Refines == Abs!LVSpec

\* When the writer falls silent, the reader ends up with what it wrote last:
\* no write is stranded in the writer's slot behind a clean control word.
LastWriteArrives == <>[](writing = "idle") => <>[](out = value)

=============================================================================
