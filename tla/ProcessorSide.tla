--------------------------- MODULE ProcessorSide ---------------------------
(***************************************************************************)
(* tiny::state::Processor_side<T, Writers::Both>: the store, and the        *)
(* counter by which the pump knows that there is something to send.        *)
(*                                                                         *)
(* A block publishes, gives the staged pair back, and only then bumps      *)
(* `edits`.  Saves, pumps and session loads hold the mutex `_readers`; the *)
(* audio thread takes no lock, so it may be anywhere during any of them.   *)
(***************************************************************************)
EXTENDS Store

CONSTANT MaxEdits  \* bound: blocks that publish

ASSUME ProcessorAssumption == MaxEdits \in Nat

VARIABLES
    edits,     \* _edits
    lastSent,  \* _last_sent
    owed,      \* ~Block has published and not yet bumped `edits`
    call,      \* who holds `_readers`, and how far it is
    tag,       \* the counter the pump under way read
    pubs,      \* history: publications so far
    stamp,     \* history: the publication each slot holds
    out,       \* history: the last snapshot the wire took, its tag and its publication
    endedAt    \* history: publications made before the last session load returned

counters == <<edits, lastSent, owed>>
locked == <<call, tag>>
history == <<pubs, stamp, out, endedAt>>
outer == <<counters, locked, history>>
pvars == <<vars, outer>>

PInit ==
    /\ Init
    /\ edits = 0 /\ lastSent = 0 /\ owed = FALSE
    /\ call = "none" /\ tag = 0
    /\ pubs = 0 /\ stamp = [i \in 0 .. 2 |-> 0]
    /\ out = [gen |-> 0, pub |-> 0]
    /\ endedAt = 0

-----------------------------------------------------------------------------
(* The audio thread: Block{p} ... ~Block. *)

BeginBlock ==
    /\ ~owed /\ pubs < MaxEdits
    /\ AcquireNothing \/ AcquireStaged
    /\ UNCHANGED outer

ApplyBlock ==
    /\ ApplyReplace \/ ApplyStale \/ Refuse \/ ApplyMerge
    /\ UNCHANGED outer

\* Mutant: count the change when it is made rather than when it is published.
WriteCounted(c, x) ==
    /\ Mutate(c, x)
    /\ edits' = edits + 1
    /\ UNCHANGED <<lastSent, owed, locked, history>>

WriteBlock(c, x) ==
    /\ Mutate(c, x)
    /\ UNCHANGED outer

EndClean ==
    /\ FinishClean
    /\ UNCHANGED outer

PublishBlock ==
    /\ PublishExchange
    /\ pubs' = pubs + 1
    /\ stamp' = [stamp EXCEPT ![back] = pubs']
    /\ UNCHANGED <<counters, locked, out, endedAt>>

RecycleBlock ==
    /\ PublishRecycle
    /\ UNCHANGED outer

\* Access::finish returns; the counter comes after.
FinishBlock ==
    /\ Release
    /\ owed' = TRUE
    /\ UNCHANGED <<edits, lastSent, locked, history>>

Bump ==
    /\ owed
    /\ edits' = edits + 1 /\ owed' = FALSE
    /\ UNCHANGED <<vars, lastSent, locked, history>>

-----------------------------------------------------------------------------
(* The requester: edits, and session loads. *)

\* One requester at a time.
Loading == call \in {"loading", "filling"}

OnEdit ==
    /\ ~Loading
    /\ Request /\ request'.op = "patch"
    /\ UNCHANGED outer

EditStaged ==
    /\ ~Loading
    /\ Fill
    /\ UNCHANGED outer

OnSessionLoad ==
    /\ call = "none" /\ request = None
    /\ \E r \in Requests : r.op = "reset"
    /\ eras < MaxEra
    /\ call' = "loading"
    /\ UNCHANGED <<vars, counters, tag, history>>

\* reset_to spins in begin_fill with `_readers` held.
LoadBegin ==
    /\ call = "loading"
    /\ Request /\ request'.op = "reset"
    /\ call' = "filling"
    /\ UNCHANGED <<counters, tag, history>>

LoadStaged ==
    /\ call = "filling"
    /\ FillReplace
    /\ UNCHANGED outer

\* What was published and not yet sent is not to be sent.
LoadEnd ==
    /\ call = "filling" /\ request = None
    /\ lastSent' = edits
    /\ call' = "none" /\ endedAt' = pubs
    /\ UNCHANGED <<vars, edits, owed, tag, pubs, stamp, out>>

-----------------------------------------------------------------------------
(* The readers: pump and snapshot. *)

PumpBegin ==
    /\ call = "none"
    /\ edits # lastSent
    /\ Read
    /\ call' = "pumping" /\ tag' = edits
    /\ UNCHANGED <<counters, history>>

SnapshotBegin ==
    /\ call = "none"
    /\ SaveStaged \/ SavePublished
    /\ call' = "saving"
    /\ UNCHANGED <<counters, tag, history>>

\* The store's own steps inside either call.
ReadStep ==
    /\ RotateLoad \/ RotateExchange \/ Copy \/ SaveStagedEnd
    /\ UNCHANGED outer

SnapshotEnd ==
    /\ call = "saving" /\ reading = "idle"
    /\ call' = "none"
    /\ UNCHANGED <<vars, counters, tag, history>>

PumpRefused ==
    /\ call = "pumping" /\ reading = "idle"
    /\ call' = "none"
    /\ UNCHANGED <<vars, counters, tag, history>>

PumpSent ==
    /\ call = "pumping" /\ reading = "idle"
    /\ out' = [gen |-> tag, pub |-> stamp[front]]
    /\ lastSent' = tag /\ call' = "none"
    /\ UNCHANGED <<vars, edits, owed, tag, pubs, stamp, endedAt>>

-----------------------------------------------------------------------------
BlockNext == \/ BeginBlock \/ ApplyBlock \/ (\E w \in Writes : WriteBlock(w[1], w[2]))
             \/ EndClean \/ PublishBlock \/ RecycleBlock \/ FinishBlock \/ Bump
LoadNext == OnSessionLoad \/ LoadBegin \/ LoadStaged \/ LoadEnd
ReadNext == PumpBegin \/ SnapshotBegin \/ ReadStep \/ SnapshotEnd \/ PumpRefused \/ PumpSent

PNext == BlockNext \/ OnEdit \/ EditStaged \/ LoadNext \/ ReadNext

PSpec == PInit /\ [][PNext]_pvars

\* A block runs on once it began, and so does every call; a timer calls the
\* pump again and again, and a wire that is offered a snapshot for ever takes
\* one.  Nobody need begin a block, write, edit, load or save.
BlockRunsOn == WF_pvars(ApplyBlock \/ EndClean \/ PublishBlock \/ RecycleBlock \/ FinishBlock \/ Bump)
CallsRunOn == WF_pvars(EditStaged) /\ WF_pvars(LoadBegin \/ LoadStaged \/ LoadEnd)
              /\ WF_pvars(ReadStep) /\ WF_pvars(SnapshotEnd)
Pumped == SF_pvars(PumpBegin) /\ SF_pvars(PumpSent) /\ WF_pvars(PumpSent \/ PumpRefused)
PFairSpec == PSpec /\ BlockRunsOn /\ CallsRunOn /\ Pumped

-----------------------------------------------------------------------------
PTypeOK ==
    /\ TypeOK
    /\ edits \in 0 .. MaxEdits /\ lastSent \in 0 .. MaxEdits /\ tag \in 0 .. MaxEdits
    /\ owed \in BOOLEAN
    /\ call \in {"none", "loading", "filling", "pumping", "saving"}
    /\ pubs \in 0 .. MaxEdits /\ stamp \in [0 .. 2 -> 0 .. MaxEdits]
    /\ out \in [gen : 0 .. MaxEdits, pub : 0 .. MaxEdits]
    /\ endedAt \in 0 .. MaxEdits

\* "Publish, THEN bump the counter readers gate on, or a reader spends a
\* generation on a buffer the change is not in yet": the snapshot sent as
\* generation g holds at least g publications.
CarriesItsChange == out.pub >= out.gen

\* However often the wire refuses, the editor hears of every change that no
\* session load has overtaken.
EverythingSent == \A n \in 1 .. MaxEdits : pubs = n ~> out.pub >= n \/ endedAt >= n

\* A session load waits, with the readers' lock held, for whoever is inside the
\* staged pair; a save is only ever there under the same lock.  It returns.
LoadReturns == call = "loading" ~> call = "none"

=============================================================================
