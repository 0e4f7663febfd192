------------------------------- MODULE Store -------------------------------
(***************************************************************************)
(* tiny::state::Store<T, Writers::Both>: the document as the audio thread  *)
(* owns it.                                                                *)
(*                                                                         *)
(* Outbound, a triple buffer: the audio thread writes slot `back`, the     *)
(* reader copies slot `front`, and one atomic word {ready, fresh} is       *)
(* exchanged by both.  Inbound, one staged pair {expected, desired} behind *)
(* the four-state word `stage`.                                            *)
(*                                                                         *)
(* Three threads take the steps below: the audio thread (one Access per    *)
(* block), the requester (one at a time, the class requires) and the       *)
(* reader (one at a time, likewise).                                       *)
(***************************************************************************)
EXTENDS Integers, StateMerge

CONSTANTS Cells, Contents, \* T: a document gives each cell its contents
          Blank,           \* the contents of T{}
          None,            \* an empty std::optional
          Requests,        \* the calls the requester may make (see Patches, Resets)
          Writes,          \* the writes the processor may make: <<cell, contents>>
          Reads,           \* the calls the reader may make: "save", "read"
          MaxSeq,          \* bound: edit sequence numbers the requester uses
          MaxEra           \* bound: whole-document replacements in a behaviour

Docs == [Cells -> Contents]
Seqs == 0 .. MaxSeq

\* UINT32_MAX as `seen_rejected`: newer than any refusal.
Always == MaxSeq + 1

\* Calls of load_bytes and reset_to.
Patches == [op : {"patch"}, expected : Docs, desired : Docs, seq : 1 .. MaxSeq,
            apply : Applies, seen : Seqs]
Resets == [op : {"reset"}, desired : Docs, seq : Seqs, apply : {"Overwrite"}]

ASSUME StoreAssumption == /\ Blank \in Contents
                          /\ None \notin Docs \cup Requests \cup Contents
                          /\ MaxSeq \in Nat /\ MaxEra \in Nat
                          /\ Requests \subseteq Patches \cup Resets
                          /\ Writes \subseteq Cells \X Contents
                          /\ Reads \subseteq {"save", "read"}

VARIABLES
    storage,  \* _storage: three Published records
    back,     \* _back: the slot the audio thread writes
    ready,    \* _ready & MASK_INDEX
    fresh,    \* _ready & FLAG_DIRTY
    front,    \* _front: the slot the reader copies
    stage,    \* _stage
    staged,   \* _staged
    block,    \* the audio thread's program counter
    touched,  \* Access::_dirty
    applied,  \* Access::_applied
    prev,     \* the slot publish() got back from its exchange
    request,  \* the requester's call under way, or None
    was,      \* what begin_fill() returned
    sent,     \* the last sequence number a request carried
    reading,  \* the reader's program counter
    saving,   \* the reader's call is save(), not read()
    got,      \* the Published record the reader copied last
    saved,    \* what save() returned last
    eras,     \* history: whole-document replacements staged so far
    floor     \* history: `eras` when the save under way began

slots == <<storage, back, ready, fresh, front>>
inbox == <<stage, staged>>
audio == <<block, touched, applied, prev>>
requester == <<request, was, sent, eras>>
reader == <<reading, saving, got, saved, floor>>
vars == <<slots, inbox, audio, requester, reader>>

\* What is published together: the value, the highest patch merged in and the
\* highest refused; `era` is history, the last replacement `value` derives from.
Published == [value : Docs, applied : Seqs, rejected : Seqs, era : 0 .. MaxEra]

\* The staged patch; `moves` is history, what its authors set each cell to.
Staged == [desired : Docs, expected : Docs \cup {None}, seq : Seqs, apply : Applies,
           seen : 0 .. Always, era : 0 .. MaxEra, moves : [Cells -> Contents \cup {None}]]

IsReplace(s) == s.apply = "Overwrite" \/ s.expected = None

BlankDoc == [c \in Cells |-> Blank]
BlankPublished == [value |-> BlankDoc, applied |-> 0, rejected |-> 0, era |-> 0]

Init ==
    /\ storage = [i \in 0 .. 2 |-> BlankPublished]
    /\ back = 0 /\ ready = 1 /\ fresh = FALSE /\ front = 2
    /\ stage = "Empty"
    /\ staged = [desired |-> BlankDoc, expected |-> None, seq |-> 0, apply |-> "Merge",
                 seen |-> Always, era |-> 0, moves |-> BlankDoc]
    /\ block = "closed" /\ touched = FALSE /\ applied = FALSE /\ prev = 1
    /\ request = None /\ was = "Empty" /\ sent = 0 /\ eras = 0
    /\ reading = "idle" /\ saving = FALSE /\ floor = 0
    /\ got = BlankPublished /\ saved = [value |-> BlankDoc, era |-> 0]

-----------------------------------------------------------------------------
(* The audio thread: Access{store} ... ~Access. *)

\* acquire: nothing staged, or the requester or a save is inside the pair.
AcquireNothing ==
    /\ block = "closed" /\ stage # "Staged"
    /\ block' = "open" /\ touched' = FALSE /\ applied' = FALSE
    /\ UNCHANGED <<slots, inbox, prev, requester, reader>>

AcquireStaged ==
    /\ block = "closed" /\ stage = "Staged"
    /\ stage' = "Taking"
    /\ block' = "applying"
    /\ UNCHANGED <<slots, staged, touched, applied, prev, requester, reader>>

\* note_applied: a session load carries no sequence number and must not rewind the ack.
Acked(applied0) == IF staged.seq # 0 THEN staged.seq ELSE applied0

\* The rest of acquire: the patch is consumed and there is something to publish.
Consume(published) ==
    /\ block = "applying"
    /\ storage' = [storage EXCEPT ![back] = published]
    /\ block' = "open" /\ touched' = TRUE /\ applied' = TRUE
    /\ UNCHANGED <<back, ready, fresh, front, inbox, prev, requester, reader>>

ApplyReplace ==
    /\ IsReplace(staged)
    /\ Consume([storage[back] EXCEPT !.value = staged.desired, !.applied = Acked(@),
                                     !.era = staged.era])

\* Diffed before the requester heard of the latest refusal.
Stale == staged.seen < storage[back].rejected

\* Dropped: neither applied nor recorded as a refusal of its own.
ApplyStale ==
    /\ ~IsReplace(staged) /\ Stale
    /\ Consume(storage[back])

Contested == /\ staged.apply = "Retry"
             /\ Drifted(storage[back].value, staged.expected, staged.desired)

Refuse ==
    /\ ~IsReplace(staged) /\ ~Stale /\ Contested
    /\ Consume([storage[back] EXCEPT !.rejected = staged.seq])

ApplyMerge ==
    /\ ~IsReplace(staged) /\ ~Stale /\ ~Contested
    /\ Consume([storage[back] EXCEPT !.value = Merge(@, staged.expected, staged.desired),
                                     !.applied = Acked(@)])

\* Access::mutate(): the processor writes the document itself.
Mutate(c, x) ==
    /\ block = "open"
    /\ storage' = [storage EXCEPT ![back].value[c] = x]
    /\ touched' = TRUE
    /\ UNCHANGED <<back, ready, fresh, front, inbox, block, applied, prev, requester, reader>>

\* release(): nothing to publish, and so nothing was taken.
FinishClean ==
    /\ block = "open" /\ ~touched
    /\ block' = "closed"
    /\ UNCHANGED <<slots, inbox, touched, applied, prev, requester, reader>>

\* Mutant: the slot index is taken without its mask.
PublishUnmasked ==
    /\ block = "open" /\ touched
    /\ prev' = (IF fresh THEN ready + 4 ELSE ready) /\ ready' = back /\ fresh' = TRUE
    /\ block' = "recycling"
    /\ UNCHANGED <<storage, back, front, inbox, touched, applied, requester, reader>>

\* publish(): the exchange, then the copy that keeps the next block's slot current.
PublishExchange ==
    /\ block = "open" /\ touched
    /\ prev' = ready /\ ready' = back /\ fresh' = TRUE
    /\ block' = "recycling"
    /\ UNCHANGED <<storage, back, front, inbox, touched, applied, requester, reader>>

PublishRecycle ==
    /\ block = "recycling"
    /\ storage' = [storage EXCEPT ![prev] = storage[back]]
    /\ back' = prev
    /\ block' = "published"
    /\ UNCHANGED <<ready, fresh, front, inbox, touched, applied, prev, requester, reader>>

\* release(): the pair is free again only once its effect is published.
Release ==
    /\ block = "published"
    /\ stage' = IF applied THEN "Empty" ELSE stage
    /\ block' = "closed" /\ touched' = FALSE /\ applied' = FALSE
    /\ UNCHANGED <<slots, staged, prev, requester, reader>>

-----------------------------------------------------------------------------
(* The requester: load_bytes and reset_to. *)

\* Mutant: the pair is filled while it is being taken.
BeginFillHasty(r) ==
    /\ request = None
    /\ stage' = "Filling" /\ was' = stage
    /\ request' = r
    /\ UNCHANGED <<slots, staged, audio, sent, eras, reader>>

\* begin_fill spins while the pair is being taken.
BeginFill(r) ==
    /\ request = None
    /\ stage # "Taking"
    /\ stage' = "Filling" /\ was' = stage
    /\ request' = r
    /\ UNCHANGED <<slots, staged, audio, sent, eras, reader>>

\* Copy the request into the pair and mark it Staged.
EndFill(filled) ==
    /\ request # None
    /\ staged' = filled
    /\ stage' = "Staged"
    /\ request' = None
    /\ sent' = IF request.op = "patch" THEN request.seq ELSE sent
    /\ eras' = filled.era
    /\ UNCHANGED <<slots, audio, was, reader>>

\* reset_to, and load_bytes with Apply::Overwrite: whatever was staged is gone.
FillReplace ==
    /\ request # None /\ request.apply = "Overwrite"
    /\ EndFill([desired |-> request.desired, expected |-> None, seq |-> request.seq,
                apply |-> "Overwrite", seen |-> Always, era |-> eras + 1, moves |-> request.desired])

\* Whether a patch joins the staged one: always on top of a replacement, else
\* unless its author has heard of a refusal since the staged one was diffed.
Joins == was = "Staged" /\ (IsReplace(staged) \/ request.seen <= staged.seen)

IsPatch == request # None /\ request.apply # "Overwrite"

\* Mutant: take the new patch's whole document.
CoalesceWhole ==
    /\ IsPatch /\ Joins
    /\ EndFill([staged EXCEPT !.desired = request.desired,
                              !.seq = request.seq,
                              !.apply = Stricter(@, request.apply),
                              !.seen = IF request.seen < @ THEN request.seen ELSE @,
                              !.moves = Merge(@, request.expected, request.desired)])

\* Coalesce: this patch's moves onto what is staged, keeping the staged base.
FillCoalesce ==
    /\ IsPatch /\ Joins
    /\ EndFill([staged EXCEPT !.desired = Merge(@, request.expected, request.desired),
                              !.seq = request.seq,
                              !.apply = Stricter(@, request.apply),
                              !.seen = IF request.seen < @ THEN request.seen ELSE @,
                              !.moves = Merge(@, request.expected, request.desired)])

FillSupersede ==
    /\ IsPatch /\ ~Joins
    /\ EndFill([desired |-> request.desired, expected |-> request.expected, seq |-> request.seq,
                apply |-> request.apply, seen |-> request.seen, era |-> eras,
                moves |-> [c \in Cells |-> IF c \in Moved(request.expected, request.desired)
                                           THEN request.desired[c] ELSE None]])

-----------------------------------------------------------------------------
(* The reader: save and read_bytes. *)

SaveStaged ==
    /\ reading = "idle" /\ "save" \in Reads /\ stage = "Staged"
    /\ stage' = "Taking"
    /\ reading' = "staged" /\ saving' = TRUE /\ floor' = eras
    /\ UNCHANGED <<slots, staged, audio, requester, got, saved>>

\* Mutant: the pair is not given back.
SaveStagedForgets ==
    /\ reading = "staged"
    /\ saved' = [value |-> staged.desired, era |-> staged.era]
    /\ reading' = "idle"
    /\ UNCHANGED <<slots, inbox, audio, requester, saving, got, floor>>

SaveStagedEnd ==
    /\ reading = "staged"
    /\ saved' = [value |-> staged.desired, era |-> staged.era]
    /\ stage' = "Staged"
    /\ reading' = "idle"
    /\ UNCHANGED <<slots, staged, audio, requester, saving, got, floor>>

SavePublished ==
    /\ reading = "idle" /\ "save" \in Reads /\ stage # "Staged"
    /\ reading' = "rotate" /\ saving' = TRUE /\ floor' = eras
    /\ UNCHANGED <<slots, inbox, audio, requester, got, saved>>

Read ==
    /\ reading = "idle" /\ "read" \in Reads
    /\ reading' = "rotate" /\ saving' = FALSE
    /\ UNCHANGED <<slots, inbox, audio, requester, got, saved, floor>>

\* Mutant: exchange whether or not there is news.
RotateAlways ==
    /\ reading = "rotate"
    /\ reading' = "exchange"
    /\ UNCHANGED <<slots, inbox, audio, requester, saving, got, saved, floor>>

\* rotate(): only a word marked fresh is worth exchanging.
RotateLoad ==
    /\ reading = "rotate"
    /\ reading' = IF fresh THEN "exchange" ELSE "copy"
    /\ UNCHANGED <<slots, inbox, audio, requester, saving, got, saved, floor>>

\* Mutant: take the published slot without leaving one in its place.
RotateKeeps ==
    /\ reading = "exchange"
    /\ front' = ready /\ ready' = ready /\ fresh' = FALSE
    /\ reading' = "copy"
    /\ UNCHANGED <<storage, back, inbox, audio, requester, saving, got, saved, floor>>

RotateExchange ==
    /\ reading = "exchange"
    /\ front' = ready /\ ready' = front /\ fresh' = FALSE
    /\ reading' = "copy"
    /\ UNCHANGED <<storage, back, inbox, audio, requester, saving, got, saved, floor>>

Copy ==
    /\ reading = "copy"
    /\ got' = storage[front]
    /\ saved' = IF saving THEN [value |-> got'.value, era |-> got'.era] ELSE saved
    /\ reading' = "idle"
    /\ UNCHANGED <<slots, inbox, audio, requester, saving, floor>>

-----------------------------------------------------------------------------
Acquire == AcquireNothing \/ AcquireStaged \/ ApplyReplace \/ ApplyStale \/ Refuse \/ ApplyMerge
Publish == FinishClean \/ PublishExchange \/ PublishRecycle \/ Release
Audio == Acquire \/ (\E w \in Writes : Mutate(w[1], w[2])) \/ Publish

\* The calls a requester makes: sequence numbers only grow, and it cannot have
\* heard of a refusal of a patch it has not sent.
Request == \E r \in Requests :
              /\ r.apply = "Overwrite" => eras < MaxEra
              /\ IF r.op = "patch" THEN r.seq = sent + 1 /\ r.seen <= sent ELSE r.seq <= sent
              /\ BeginFill(r)
Fill == FillReplace \/ FillCoalesce \/ FillSupersede

Reader == SaveStaged \/ SaveStagedEnd \/ SavePublished \/ Read \/ RotateLoad \/ RotateExchange \/ Copy

Next == Audio \/ Request \/ Fill \/ Reader

Spec == Init /\ [][Next]_vars

\* A block the host opened is closed, a call the requester or the reader made
\* runs on.  Nothing makes the host call process, or anyone edit or save.
Fairness == /\ WF_vars(ApplyReplace \/ ApplyStale \/ Refuse \/ ApplyMerge \/ Publish)
            /\ WF_vars(Fill)
            /\ WF_vars(SaveStagedEnd \/ RotateLoad \/ RotateExchange \/ Copy)
FairSpec == Spec /\ Fairness

-----------------------------------------------------------------------------
SlotsOK == /\ storage \in [0 .. 2 -> Published] /\ fresh \in BOOLEAN
           /\ back \in 0 .. 2 /\ ready \in 0 .. 2 /\ front \in 0 .. 2
InboxOK == stage \in {"Empty", "Filling", "Staged", "Taking"} /\ staged \in Staged
AudioOK == /\ block \in {"closed", "applying", "open", "recycling", "published"}
           /\ touched \in BOOLEAN /\ applied \in BOOLEAN /\ prev \in 0 .. 2
RequesterOK == /\ request \in Requests \cup {None}
               /\ was \in {"Empty", "Filling", "Staged", "Taking"}
               /\ sent \in Seqs /\ eras \in 0 .. MaxEra
ReaderOK == /\ reading \in {"idle", "staged", "rotate", "exchange", "copy"} /\ saving \in BOOLEAN
            /\ got \in Published /\ saved \in [value : Docs, era : 0 .. MaxEra]
            /\ floor \in 0 .. MaxEra

TypeOK == SlotsOK /\ InboxOK /\ AudioOK /\ RequesterOK /\ ReaderOK

\* The slot the audio thread writes: its own, or the one its exchange handed it.
Writing == IF block = "recycling" THEN prev ELSE back

\* Three slots and no lock: whatever the order of the two exchanges, the audio
\* thread's slot, the published slot and the reader's slot stay three slots, so
\* no copy of a T is read while it is written.
SlotsApart == Writing # ready /\ Writing # front /\ ready # front

\* Who is inside the staged pair: the audio thread applying it, the requester
\* filling it, a save reading it.  Never two of them, though the audio thread
\* must not wait for the others and the word does not say who holds it.
StagedApart ==
    /\ ~(block = "applying" /\ request # None)
    /\ ~(block = "applying" /\ reading = "staged")
    /\ ~(request # None /\ reading = "staged")

\* The record published last.
Newest == IF fresh THEN storage[ready] ELSE storage[front]

\* The outbound half is a latest-value register of whole Published records:
\* value, applied and rejected travel together ("an ack can never run ahead of
\* the bytes it describes"), and a read gets the newest or what it got before.
Outbound == INSTANCE LatestValue WITH
    Values <- Published, Initial <- BlankPublished,
    latest <- Newest,
    taken <- storage[front],
    out <- got
Refines == Outbound!LVSpec

\* What a block applies is what the authors moved, no more and no less: a cell
\* that no staged patch moved keeps what the processor wrote there, whichever
\* document the patch was diffed from, and of two patches staged before a block
\* neither is dropped.  (A cell moved back to its base is no move.)
AppliesWhatWasMoved ==
    [][ApplyReplace \/ ApplyMerge =>
          LET before == storage[back].value
              after == storage'[back].value
          IN  \A c \in Cells :
                 IF staged.moves[c] = None
                 THEN after[c] = before[c]
                 ELSE \/ after[c] = staged.moves[c]
                      \/ ~IsReplace(staged) /\ staged.expected[c] = staged.moves[c]
      ]_vars

\* state_store.hpp on save(): "so a load followed by a save cannot persist the
\* old value".  A save that begins after a load returned answers that load or a
\* later one.
SaveSeesLoad == reading = "idle" /\ saving => saved.era >= floor

=============================================================================
