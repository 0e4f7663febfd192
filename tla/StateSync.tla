------------------------------ MODULE StateSync ------------------------------
(***************************************************************************)
(* The document protocol of tiny_state.hpp, Writers::Both: an Editor_side  *)
(* and a Processor_side, the wire down (edits), the wire up (snapshots),   *)
(* and a host that loads sessions.                                         *)
(*                                                                         *)
(* The editor shows what it did before the processor has it.  A gesture is *)
(* a function, kept and re-run until a snapshot's `applied` reaches the    *)
(* sequence number of the patch it went out in; a snapshot's `rejected`    *)
(* sends all that is outstanding out again.                                *)
(*                                                                         *)
(* A block is one step here, up to and including its publication (Store    *)
(* has its atomic steps, and shows that a reader gets whole publications,  *)
(* the newest first); the bump of the counter is another.                  *)
(***************************************************************************)
EXTENDS Integers, Sequences, FiniteSets, StateMerge

CONSTANTS Docs,          \* the documents
          BlankDoc,      \* T{}
          Effect(_, _),  \* a gesture, or a write of the processor's, as a function T -> T
          Gestures,      \* gestures a user may make, each once
          Writes,        \* writes the processor may make, each once
          Plans,         \* what a behaviour may hold: `policy`, the gestures made, each with
                         \* its Apply; `writes`, the processor's; `loads`, the documents the
                         \* host loads, and `resends`, those only the editor hears of (AAX)
          None,          \* an empty std::optional
          WireCap,       \* bound: messages a wire holds; it refuses more
          Always         \* UINT32_MAX; the sequence numbers stay below it

\* A patch as it travels; `carries` is history, the gestures in {base, next}.  A staged one may have no base.
Patch == [base : Docs, next : Docs, seq : Nat, apply : Applies, seen : Nat, carries : SUBSET Gestures]
Staged == [base : Docs \cup {None}, next : Docs, seq : Nat, apply : Applies, seen : Nat, carries : SUBSET Gestures]

ASSUME SyncAssumption == /\ BlankDoc \in Docs /\ None \notin Docs /\ None \notin Staged
                         /\ \A p \in Plans : /\ DOMAIN p.policy \subseteq Gestures
                                             /\ p.policy \in [DOMAIN p.policy -> Applies]
                                             /\ p.writes \subseteq Writes
                                             /\ p.loads \subseteq Docs /\ p.resends \subseteq Docs
                         /\ WireCap \in Nat \ {0} /\ Always \in Nat \ {0}

VARIABLES
    plan,         \* one of Plans
    proc,         \* the published record: value, applied, rejected
    staged,       \* the staged patch, or None
    edits, owed, lastSent,  \* _edits, the bump ~Block still owes, _last_sent
    down, up,     \* the wires
    confirmed, sentDoc, view,  \* _confirmed, _sent, _view
    pending,      \* _pending: outstanding gestures, oldest first
    gen, sentAt, seenRejected, resend, \* _gen, _sent_at, _seen_rejected, _resend
    load,         \* the host load under way: "none", "staged" or "taken"
    loading,      \* its document
    made,         \* history: gestures made
    landed,       \* history: gestures of patches the processor applied
    dropped,      \* history: gestures made before a load replaced their document
    written,      \* history: writes the processor has made
    loaded        \* history: documents loaded

processor == <<proc, staged, edits, owed, lastSent>>
editor == <<confirmed, sentDoc, view, pending, gen, sentAt, seenRejected, resend>>
host == <<load, loading, loaded>>
ghosts == <<made, landed, dropped, written>>
vars == <<plan, processor, down, up, editor, host, ghosts>>

Record == [value : Docs, applied : Nat, rejected : Nat]

Snapshot == [value : Docs, applied : Nat, rejected : Nat, gen : Nat]

\* seq = 0: not yet handed to the wire.
Attempt == [run : Gestures, seq : Nat]

Init ==
    /\ plan \in Plans
    /\ proc = [value |-> BlankDoc, applied |-> 0, rejected |-> 0]
    /\ staged = None
    /\ edits = 0 /\ owed = FALSE /\ lastSent = 0
    /\ down = <<>> /\ up = <<>>
    /\ confirmed = BlankDoc /\ sentDoc = BlankDoc /\ view = BlankDoc
    /\ pending = <<>>
    /\ gen = 0 /\ sentAt = 0 /\ seenRejected = 0 /\ resend = FALSE
    /\ load = "none" /\ loading = BlankDoc /\ loaded = {}
    /\ made = {} /\ landed = {} /\ dropped = {} /\ written = {}

-----------------------------------------------------------------------------
(* The processor: on_edit, begin_block ... ~Block, pump. *)

IsReplace(p) == p.apply = "Overwrite" \/ p.base = None

\* on_edit: the wire hands over its oldest patch.
Arrives(p) ==
    /\ down # <<>> /\ p = Head(down)
    /\ load # "staged"
    /\ down' = Tail(down)
    /\ UNCHANGED <<proc, edits, owed, lastSent, up, editor, host, ghosts>>

\* Mutant: a patch joins whatever is staged.
JoinsAny(p) == staged # None

\* Whether a patch joins the staged one or takes its place.
Joins(p) == staged # None /\ (IsReplace(staged) \/ p.seen <= staged.seen)

OnOverwrite(p) ==
    /\ p.apply = "Overwrite"
    /\ Arrives(p)
    /\ staged' = [p EXCEPT !.base = None, !.seen = Always]

OnCoalesce(p) ==
    /\ p.apply # "Overwrite" /\ Joins(p)
    /\ Arrives(p)
    /\ staged' = [staged EXCEPT !.next = Merge(@, p.base, p.next),
                                !.seq = p.seq,
                                !.apply = Stricter(@, p.apply),
                                !.seen = IF p.seen < @ THEN p.seen ELSE @,
                                !.carries = @ \cup p.carries]

OnSupersede(p) ==
    /\ p.apply # "Overwrite" /\ ~Joins(p)
    /\ Arrives(p)
    /\ staged' = p

OnEdit == \E p \in {down[i] : i \in 1 .. Len(down)} : OnOverwrite(p) \/ OnCoalesce(p) \/ OnSupersede(p)

\* A block that leaves `record` behind, or that and one write of the processor's.
Publishes(record) ==
    /\ ~owed /\ owed' = TRUE
    /\ \/ proc' = record /\ written' = written
       \/ \E w \in plan.writes \ written :
             /\ proc' = [record EXCEPT !.value = Effect(w, @)]
             /\ written' = written \cup {w}
    /\ UNCHANGED <<edits, lastSent, down, up, editor, host, made, dropped>>

\* A session load carries no sequence number and must not rewind the ack.
Acked(record) == IF staged.seq # 0 THEN [record EXCEPT !.applied = staged.seq] ELSE record

Takes == staged # None /\ staged' = None

BlockReplace ==
    /\ Takes /\ IsReplace(staged)
    /\ Publishes(Acked([proc EXCEPT !.value = staged.next]))
    /\ landed' = landed \cup staged.carries

\* Diffed before the editor heard of the latest refusal.
Stale == staged.seen < proc.rejected

\* Dropped: neither applied nor recorded as a refusal of its own.
BlockStale ==
    /\ Takes /\ ~IsReplace(staged) /\ Stale
    /\ Publishes(proc)
    /\ UNCHANGED landed

\* Mutant: contested bytes are written whatever the policy.
NeverContested == FALSE

Contested == staged.apply = "Retry" /\ Drifted(proc.value, staged.base, staged.next)

BlockRefuse ==
    /\ Takes /\ ~IsReplace(staged) /\ ~Stale /\ Contested
    /\ Publishes([proc EXCEPT !.rejected = staged.seq])
    /\ UNCHANGED landed

BlockMerge ==
    /\ Takes /\ ~IsReplace(staged) /\ ~Stale /\ ~Contested
    /\ Publishes(Acked([proc EXCEPT !.value = Merge(@, staged.base, staged.next)]))
    /\ landed' = landed \cup staged.carries

\* Nothing staged: a block publishes if the processor wrote.
BlockWrite ==
    /\ staged = None /\ Publishes(proc) /\ proc' # proc
    /\ UNCHANGED <<staged, landed>>

Bump ==
    /\ owed /\ owed' = FALSE /\ edits' = edits + 1
    /\ UNCHANGED <<proc, staged, lastSent, down, up, editor, host, ghosts>>

\* A session load holds the lock the pump takes.
Pump ==
    /\ edits # lastSent /\ load # "staged"
    /\ Len(up) < WireCap
    /\ up' = Append(up, [value |-> proc.value, applied |-> proc.applied,
                         rejected |-> proc.rejected, gen |-> edits])
    /\ lastSent' = edits
    /\ UNCHANGED <<proc, staged, edits, owed, down, editor, host, ghosts>>

-----------------------------------------------------------------------------
(* The editor: edit, flush, on_snapshot. *)

\* `gestures` run one after another on `doc`.
Replay(doc, gestures) ==
    LET done[i \in 0 .. Len(gestures)] == IF i = 0 THEN doc ELSE Effect(gestures[i].run, done[i - 1])
    IN  done[Len(gestures)]

Edit(g) ==
    /\ g \in DOMAIN plan.policy \ made
    /\ Effect(g, view) # view
    /\ view' = Effect(g, view)
    /\ pending' = Append(pending, [run |-> g, seq |-> 0])
    /\ made' = made \cup {g}
    /\ UNCHANGED <<processor, down, up, confirmed, sentDoc, gen, sentAt, seenRejected, resend,
                   host, landed, dropped, written>>

\* The gestures the wire has not had.
Unsent == {pending[i].run : i \in {j \in 1 .. Len(pending) : pending[j].seq = 0}}
Outstanding == {pending[i].run : i \in 1 .. Len(pending)}

\* One message, one policy: the strictest of its gestures'.
FlushPolicy ==
    IF resend \/ \E g \in Unsent : plan.policy[g] = "Overwrite" THEN "Overwrite"
    ELSE IF \E g \in Unsent : plan.policy[g] = "Retry" THEN "Retry" ELSE "Merge"

\* An Overwrite carries the whole view, and so every outstanding gesture.
Carried == IF FlushPolicy = "Overwrite" THEN Outstanding ELSE Unsent

\* Mutant: nothing is sent unless the view has moved.
FlushIfMoved ==
    /\ view # sentDoc
    /\ Len(down) < WireCap /\ sentAt + 1 < Always
    /\ down' = Append(down, [base |-> sentDoc, next |-> view, seq |-> sentAt + 1,
                             apply |-> FlushPolicy, seen |-> seenRejected, carries |-> Carried])
    /\ sentAt' = sentAt + 1
    /\ sentDoc' = view /\ resend' = FALSE
    /\ pending' = [i \in 1 .. Len(pending) |->
                      [pending[i] EXCEPT !.seq = IF @ = 0 THEN sentAt' ELSE @]]
    /\ UNCHANGED <<processor, up, confirmed, view, gen, seenRejected, host, ghosts>>

\* One patch {sent, view}; a wire that is full refuses it, and nothing changes.  (Bound: numbers stay below Always.)
Flush ==
    /\ resend \/ view # sentDoc
    /\ Len(down) < WireCap /\ sentAt + 1 < Always
    /\ down' = Append(down, [base |-> sentDoc, next |-> view, seq |-> sentAt + 1,
                             apply |-> FlushPolicy, seen |-> seenRejected, carries |-> Carried])
    /\ sentAt' = sentAt + 1
    /\ sentDoc' = view /\ resend' = FALSE
    /\ pending' = [i \in 1 .. Len(pending) |->
                      [pending[i] EXCEPT !.seq = IF @ = 0 THEN sentAt' ELSE @]]
    /\ UNCHANGED <<processor, up, confirmed, view, gen, seenRejected, host, ghosts>>

\* How many attempts from the front satisfy Test before one does not.
Leading(attempts, Test(_)) ==
    CHOOSE n \in 0 .. Len(attempts) :
        /\ \A i \in 1 .. n : Test(attempts[i])
        /\ n < Len(attempts) => ~Test(attempts[n + 1])

From(attempts, n) == SubSeq(attempts, n, Len(attempts))

\* What `applied` leaves outstanding.
Outlasting(applied) ==
    From(pending, 1 + Leading(pending, LAMBDA a : a.seq # 0 /\ a.seq <= applied))

\* A refusal not heard of before: everything outstanding goes out again.
Rearmed(attempts) == [i \in 1 .. Len(attempts) |-> [attempts[i] EXCEPT !.seq = 0]]

\* rebuild(): sent = replay(confirmed, accepted), view = replay(sent, the rest).
Rebuild(attempts) ==
    LET accepted == Leading(attempts, LAMBDA a : a.seq # 0)
    IN  /\ sentDoc' = Replay(confirmed', SubSeq(attempts, 1, accepted))
        /\ view' = Replay(sentDoc', From(attempts, accepted + 1))
        /\ pending' = attempts

\* Snapshots travel in order and wait in an inbox where the latest wins.
Poll(n) ==
    /\ up[n].gen > gen
    /\ gen' = up[n].gen
    /\ seenRejected' = IF up[n].rejected > seenRejected THEN up[n].rejected ELSE seenRejected
    /\ up' = From(up, n + 1)

OnSnapshot ==
    \E n \in 1 .. Len(up) :
        /\ Poll(n)
        /\ confirmed' = up[n].value
        /\ Rebuild(IF up[n].rejected > seenRejected THEN Rearmed(Outlasting(up[n].applied))
                   ELSE Outlasting(up[n].applied))
        /\ UNCHANGED <<processor, down, sentAt, resend, host, ghosts>>

-----------------------------------------------------------------------------
(* The host loads a session: the processor's half, then the editor's. *)

LoadStage(doc) ==
    /\ load = "none" /\ doc \in plan.loads \ loaded
    /\ staged' = [base |-> None, next |-> doc, seq |-> 0, apply |-> "Overwrite",
                  seen |-> Always, carries |-> {}]
    /\ load' = "staged" /\ loading' = doc /\ loaded' = loaded \cup {doc}
    /\ dropped' = made
    /\ UNCHANGED <<proc, edits, owed, lastSent, down, up, editor, made, landed, written>>

\* What is published and not yet sent is skipped.
LoadSkip ==
    /\ load = "staged" /\ load' = "taken"
    /\ lastSent' = edits
    /\ UNCHANGED <<proc, staged, edits, owed, down, up, editor, loading, loaded, ghosts>>

\* Editor_link::load: takes a waiting snapshot, then seeds every copy.
Seed(doc) ==
    /\ \/ up = <<>> /\ UNCHANGED <<up, gen, seenRejected>>
       \/ \E n \in 1 .. Len(up) : Poll(n)
    /\ confirmed' = doc /\ sentDoc' = doc /\ view' = doc
    /\ pending' = <<>>
    /\ dropped' = made
    /\ UNCHANGED <<processor, sentAt, made, landed, written>>

LoadSeed ==
    /\ load = "taken" /\ load' = "none"
    /\ Seed(loading) /\ resend' = FALSE
    /\ UNCHANGED <<down, loading, loaded>>

\* AAX: only the editor's half hears of the load; a patch that still waits in
\* the outbox, not yet in the algorithm's inbox, is cleared.
LoadResend(doc) ==
    /\ load = "none" /\ doc \in plan.resends \ loaded
    /\ Seed(doc) /\ resend' = TRUE
    /\ \/ down' = down
       \/ down # <<>> /\ down' = SubSeq(down, 1, Len(down) - 1)
    /\ loaded' = loaded \cup {doc}
    /\ UNCHANGED <<load, loading>>

-----------------------------------------------------------------------------
Block == BlockReplace \/ BlockStale \/ BlockRefuse \/ BlockMerge \/ BlockWrite
Steps == \/ OnEdit \/ Block \/ Bump \/ Pump
         \/ (\E g \in Gestures : Edit(g)) \/ Flush \/ OnSnapshot
         \/ (\E doc \in plan.loads : LoadStage(doc)) \/ LoadSkip \/ LoadSeed
         \/ (\E doc \in plan.resends : LoadResend(doc))
Next == Steps /\ UNCHANGED plan

Spec == Init /\ [][Next]_vars

\* The host calls process and delivers messages, the UI calls sync every frame
\* and the pump runs on a timer.  Nobody need edit, write or load.
Planned(A) == A /\ UNCHANGED plan
Fairness == /\ WF_vars(Planned(OnEdit)) /\ WF_vars(Planned(Bump)) /\ WF_vars(Planned(Pump))
            /\ WF_vars(Planned(BlockReplace \/ BlockStale \/ BlockRefuse \/ BlockMerge))
            /\ WF_vars(Planned(Flush)) /\ WF_vars(Planned(OnSnapshot))
            /\ WF_vars(Planned(LoadSkip)) /\ WF_vars(Planned(LoadSeed))
FairSpec == Spec /\ Fairness

-----------------------------------------------------------------------------
\* A window: attempts on the wire come first, in the order they were sent.
PendingOrdered ==
    \A i, j \in 1 .. Len(pending) :
        i < j => pending[j].seq = 0 \/ (pending[i].seq # 0 /\ pending[i].seq <= pending[j].seq)

TypeOK ==
    /\ plan \in Plans /\ proc \in Record
    /\ staged \in Staged \cup {None}
    /\ edits \in Nat /\ lastSent \in Nat /\ owed \in BOOLEAN
    /\ down \in Seq(Patch) /\ Len(down) <= WireCap
    /\ up \in Seq(Snapshot) /\ Len(up) <= WireCap
    /\ confirmed \in Docs /\ sentDoc \in Docs /\ view \in Docs
    /\ pending \in Seq(Attempt) /\ PendingOrdered
    /\ gen \in Nat /\ sentAt \in 0 .. Always - 1 /\ seenRejected \in Nat /\ resend \in BOOLEAN
    /\ load \in {"none", "staged", "taken"} /\ loading \in Docs /\ loaded \subseteq plan.loads \cup plan.resends
    /\ made \subseteq Gestures /\ landed \subseteq Gestures /\ dropped \subseteq Gestures
    /\ written \subseteq Writes

\* "A refusal never loses the edit": a gesture stays outstanding until a patch
\* that carries it has been applied.  The two watermarks say nothing of single
\* patches, and patches sent in ignorance of a refusal, coalesced with it or
\* superseding it all move them.
RetiredLanded == made \subseteq Outstanding \cup landed \cup dropped

\* The view is the confirmed document with what is outstanding run on it, and
\* `sent`, the base of the next patch, the same up to what the wire has had.
ViewIsReplay == view = Replay(confirmed, pending)

\* What is in flight and pending is well formed; no gesture is forgotten until a patch that carries it was applied; the
\* view is what is confirmed with what is pending on top.
LinkSound == TypeOK /\ RetiredLanded /\ ViewIsReplay

\* Every edit the user sees is confirmed in the end, and both sides hold the
\* same document.
Converges == <>[](pending = <<>> /\ view = proc.value)

=============================================================================
