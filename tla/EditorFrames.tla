----------------------------- MODULE EditorFrames -----------------------------
(***************************************************************************)
(* The editor's main thread: frames (tiny_view.hpp), the actions a frame   *)
(* pushes (action_queue.hpp), the undo history, and the two sources whose  *)
(* changes its steps take: the document through its Editor_link            *)
(* (tiny_state_link.hpp), and the view model in its Edit_store             *)
(* (edit_store.hpp).                                                       *)
(*                                                                         *)
(* What the processor makes of an edit is in StateSync.  Here a poll tells *)
(* how many of the edits it was sent have landed, or that it wrote the     *)
(* document itself and refused the rest.  The document and the view are    *)
(* one field each, so a merge of a change takes the new value.             *)
(***************************************************************************)
EXTENDS UndoHistory

CONSTANTS Ops,    \* what a user, a host or a processor does in a behaviour
          Plans,  \* bound: how often, at most; a function of Ops for each class of behaviours
          Loads   \* what a host load may move: sets of parameters and sources

Phases == {"closed",   \* no window
           "idle",     \* a window, between two frames
           "draw",     \* in on_draw
           "hide"}     \* in on_hide, the window about to go

VARIABLES
    plan,      \* one of Plans
    left,      \* of plan, what is left
    phase,
    fresh,     \* the last value used: no value comes twice
    e,         \* the editor
    heard,     \* history: the frame's first poll answered for all that was sent
    gaps       \* history: what the host changed in a way no step can tell

vars == <<plan, left, phase, fresh, e, heard, gaps>>

Sources == {"Document", "View"}

Init ==
    /\ plan \in Plans /\ left = plan
    /\ phase = "closed"
    /\ fresh = 0
    /\ e = [h |-> Blank,
            stream |-> Closed,
            queue |-> <<>>,                          \* _actions, as the editor pushed them
            params |-> [a \in Params |-> 0],         \* _ui_params
            touched |-> {}, misused |-> FALSE,       \* the host's view of the gestures
            view |-> 0, viewBase |-> 0,              \* Edit_store: _view.undoable, _baseline
            doc |-> 0, sentDoc |-> 0,                \* Editor_side: _view, _sent,
            confirmed |-> 0, docBase |-> 0,          \*   _confirmed, _baseline,
            pending |-> <<>>,                        \*   _pending
            wanted |-> FALSE]                        \* Editor_link: _commit_wanted
    /\ heard = FALSE /\ gaps = {}

-----------------------------------------------------------------------------
(* Editor_link, over an Editor_side. *)

\* A careful gesture only edits the document it was made for.
Effect(doc, g) == IF g.careful /\ doc # g.from THEN doc ELSE g.to
Replay(doc, gestures) == FoldLeft(Effect, doc, gestures)

SentOf(x) == SelectSeq(x.pending, LAMBDA g : g.sent)
Awaiting(x) == SentOf(x) # <<>>

Flush(x) ==
    IF x.sentDoc = x.doc THEN x
    ELSE [x EXCEPT !.sentDoc = x.doc,
                   !.pending = [i \in DOMAIN @ |-> [@[i] EXCEPT !.sent = TRUE]]]

\* A snapshot: the first n sent gestures have landed; or they have, then the
\* processor wrote `wrote`, and refused the others.
Poll(x, n, wrote) ==
    LET landed == Replay(x.confirmed, SubSeq(x.pending, 1, n))
        rest == SubSeq(x.pending, n + 1, Len(x.pending))
        rearmed == [i \in DOMAIN rest |-> [rest[i] EXCEPT !.sent = FALSE]]
        now == [x EXCEPT !.confirmed = IF wrote = None THEN landed ELSE wrote,
                         !.pending = IF wrote = None THEN rest ELSE rearmed]
        sent == Replay(now.confirmed, SentOf(now))
    IN  IF n = 0 /\ wrote = None THEN x
        ELSE [now EXCEPT !.sentDoc = sent,
                         !.doc = Replay(sent, SelectSeq(now.pending, LAMBDA g : ~g.sent))]

\* Editor_side::commit: one step for what the confirmed document has become since the last commit.
RecordDoc(x) == [x EXCEPT !.h = RecordState(@, "Document", x.docBase, x.confirmed), !.docBase = x.confirmed]

\* Mutant: what is local counts as well.
TryCommitAll(x) ==
    LET busy == x.pending # <<>>
        done == [x EXCEPT !.wanted = FALSE]
    IN  IF ~x.wanted \/ busy THEN x
        ELSE IF x.docBase # x.confirmed THEN RecordDoc(done)
        ELSE [done EXCEPT !.h = Settle(@, "Document")]

\* Held, only what was sent counts.  Nothing to record: what is held lands without.
TryCommit(x) ==
    LET busy == IF Holding(x.h, "Document") THEN Awaiting(x) ELSE x.pending # <<>>
        done == [x EXCEPT !.wanted = FALSE]
    IN  IF ~x.wanted \/ busy THEN x
        ELSE IF x.docBase # x.confirmed THEN RecordDoc(done)
        ELSE [done EXCEPT !.h = Settle(@, "Document")]

\* Held, new edits stay local: a confirmation must credit only the held step.
SendUnlessHeld(x) == IF Holding(x.h, "Document") THEN x ELSE Flush(x)
Sync(x, n, wrote) == TryCommit(SendUnlessHeld(Poll(x, n, wrote)))

\* What a frame's poll may hear, for the editor x.
Hears(x, n, wrote) ==
    /\ n \in 0 .. Len(SentOf(x))
    /\ \/ wrote = None /\ UNCHANGED fresh
       \/ wrote = fresh + 1 /\ fresh' = wrote /\ left.write > 0

Spent(op) == left' = [left EXCEPT ![op] = @ - 1]
SpentHearing(wrote) == IF wrote = None THEN left' = left ELSE Spent("write")

-----------------------------------------------------------------------------
(* The history and its sources. *)

\* commit_sources: what each has not committed goes into the step; the
\* document's waits while an edit the wire took is unconfirmed.
CommitSources(x, into) ==
    LET flushed == SendUnlessHeld(x)
        waits == Awaiting(flushed)
        records == ~waits /\ x.docBase # x.confirmed
        withDoc == IF records THEN WithState(into, "Document", x.docBase, x.confirmed) ELSE into
    IN  [editor |-> [flushed EXCEPT !.wanted = @ \/ waits,
                                    !.docBase = IF records THEN x.confirmed ELSE @,
                                    !.viewBase = x.view],
         step |-> IF x.viewBase = x.view THEN withDoc ELSE WithState(withDoc, "View", x.viewBase, x.view),
         waiting |-> IF waits THEN {"Document"} ELSE {}]

PushOutside(c) == [c.editor EXCEPT !.h = Outside(@, c.step, c.waiting)]
CommitOutside(x) == PushOutside(CommitSources(x, NoStep))

PushClosed(c, joining) == [c.editor EXCEPT !.h = Close(@, c.step, c.waiting, joining)]
CloseStep(x) ==
    LET closing == [x EXCEPT !.h = Closing(@)]
    IN  PushClosed(IF x.h.transaction THEN CommitSources(closing, ClosingStep(x.h))
                   ELSE [editor |-> closing, step |-> ClosingStep(x.h), waiting |-> {}],
                   x.h.joining)

OnEnd(x) ==
    IF x.h.active = 0 THEN x
    ELSE LET less == [x EXCEPT !.h.active = @ - 1]
         IN  IF less.h.active = 0 THEN CloseStep(less) ELSE less

ProcessActions(x, actions) ==
    FoldLeft(LAMBDA y, action : CASE action.kind = "start" -> [y EXCEPT !.h = OnStart(@, action.at)]
                                  [] action.kind = "set" -> [y EXCEPT !.h = OnSet(@, action.at, action.to)]
                                  [] action.kind = "end" -> OnEnd(y),
             [x EXCEPT !.h.values = x.params], actions)

ReplayParam(change, isUndo, a) == <<Start(a), Set(a, IF isUndo THEN change.from ELSE change.to), End(a)>>

\* Editor_side::apply_replay: a gesture like any other, and no step of its own.
ReplayDoc(x, to) ==
    [x EXCEPT !.doc = to, !.docBase = to,
              !.pending = IF x.doc = to THEN @
                          ELSE Append(@, [to |-> to, from |-> 0, careful |-> FALSE, sent |-> FALSE])]

\* apply: parameters through the queue, states through their sources.
Apply(x, step, isUndo) ==
    LET next(c) == IF isUndo THEN c.from ELSE c.to
        withParams == [x EXCEPT !.queue = FoldLeft(LAMBDA q, a : q \o ReplayParam(step.changes[a], isUndo, a),
                                                   <<>>, SetToSeq(DOMAIN step.changes))]
        withView == IF "View" \notin DOMAIN step.states THEN withParams
                    ELSE [withParams EXCEPT !.view = next(step.states["View"]),
                                            !.viewBase = next(step.states["View"])]
    IN  IF "Document" \notin DOMAIN step.states THEN withView
        ELSE ReplayDoc(withView, next(step.states["Document"]))

Applied(x) ==
    LET isUndo == x.h.deferred = "undo"
        stack == IF isUndo THEN x.h.undo ELSE x.h.redo
    IN  IF stack = <<>> THEN x
        ELSE Apply([x EXCEPT !.h = IF isUndo THEN Undone(@) ELSE Redone(@)], Last(stack), isUndo)

\* perform_actions: mid-gesture, or with a step not yet landed, the request is dropped.
Performed(x) ==
    IF x.h.held # None THEN x
    ELSE [Applied(x) EXCEPT !.h.openHostStep = 0, !.h.closedThisFrame = 0]

PerformActions(x) ==
    LET asked == [x EXCEPT !.queue = <<>>]
    IN  [(IF x.h.deferred = None \/ x.h.active # 0 \/ x.h.held # None THEN asked
          ELSE Performed(CommitOutside(asked)))
            EXCEPT !.h.deferred = None]

\* What the wrapper hears.  A transaction's own start and end are the history's.
Deliver(x, actions) ==
    FoldLeft(LAMBDA y, action :
                IF action.at = None THEN y
                ELSE CASE action.kind = "start" -> [y EXCEPT !.touched = @ \cup {action.at},
                                                            !.misused = @ \/ action.at \in y.touched]
                       [] action.kind = "set" -> [y EXCEPT !.params[action.at] = action.to,
                                                          !.misused = @ \/ action.at \notin y.touched]
                       [] action.kind = "end" -> [y EXCEPT !.touched = @ \ {action.at},
                                                          !.misused = @ \/ action.at \notin y.touched],
             x, actions)

\* Edit_store::end_frame.
CommitView(x) ==
    IF x.view = x.viewBase THEN x
    ELSE [x EXCEPT !.h = RecordState(@, "View", x.viewBase, x.view), !.viewBase = x.view]

\* What a replay pushed is normalized in its turn, and all is delivered.
HandOver(x, normal, replayed) ==
    [Deliver(x, normal.out \o replayed.out)
        EXCEPT !.queue = <<>>, !.stream = [replayed EXCEPT !.out = <<>>]]
WithReplay(x, normal) == HandOver(x, normal, Normalize([normal EXCEPT !.out = <<>>], x.queue))

\* resolve_frame up to its sync; `normal` is the stream with the frame's actions.
Resolved(x, normal) == WithReplay(PerformActions(ProcessActions(x, normal.out)), normal)

ResolveFrame(x, n, wrote) == [CommitView(Sync(x, n, wrote)) EXCEPT !.h = EndFrame(@)]

-----------------------------------------------------------------------------
(* Steps. *)

Can(op) == left[op] > 0 /\ Spent(op) /\ UNCHANGED <<plan, phase, heard, gaps>>

\* In on_draw, or in on_hide.
Drawing == phase \in {"draw", "hide"}

PushAction(op, action) ==
    /\ Drawing /\ Can(op)
    /\ e' = [e EXCEPT !.queue = Append(@, action)]

StartAt(a) == PushAction("start", Start(a)) /\ UNCHANGED fresh
SetAt(a) == PushAction("set", Set(a, fresh + 1)) /\ fresh' = fresh + 1
EndAt(a) == PushAction("end", End(a)) /\ UNCHANGED fresh

\* Undo_history::Actor
Begin ==
    /\ Drawing /\ Can("begin") /\ UNCHANGED fresh
    /\ LET outside == IF e.h.begun = 0 /\ e.h.active = 0 THEN CommitOutside(e) ELSE e
       IN  e' = [outside EXCEPT !.h.begun = @ + 1, !.queue = Append(@, Start(None))]

Finish ==
    /\ Drawing /\ Can("finish") /\ UNCHANGED fresh
    /\ e.h.begun > 0
    /\ e' = [e EXCEPT !.h.begun = @ - 1, !.queue = Append(@, End(None))]

Request(op) ==
    /\ Drawing /\ Can(op) /\ UNCHANGED fresh
    /\ e' = [e EXCEPT !.h.deferred = op]

\* Editor_actor::edit
EditDoc(careful) ==
    /\ Drawing /\ Can("edit") /\ fresh' = fresh + 1
    /\ e' = [e EXCEPT !.doc = fresh', !.pending = Append(@, [to |-> fresh', from |-> e.doc,
                                                            careful |-> careful, sent |-> FALSE])]

\* Editor_actor::commit
CommitDoc ==
    /\ Drawing /\ Can("commit") /\ UNCHANGED fresh
    /\ e' = TryCommit([e EXCEPT !.wanted = TRUE])

\* Edit_store::Handle::edit
EditView ==
    /\ Drawing /\ Can("look") /\ fresh' = fresh + 1
    /\ e' = [e EXCEPT !.view = fresh']

Amended(h, source, from, to) == IF from = to THEN h ELSE AmendHostState(h, source, from, to)

\* Editor_link::load and Edit_store's: every copy is the loaded one.
LoadStates(x, doc, view) ==
    [x EXCEPT !.h = Amended(Amended(Settle(@, "Document"), "Document", x.doc, doc), "View", x.view, view),
              !.wanted = FALSE, !.pending = <<>>,
              !.doc = doc, !.sentDoc = doc, !.confirmed = doc, !.docBase = doc,
              !.view = view, !.viewBase = view]

\* A host loads: parameters, then the document, then the view, into one step.
\* The first are `moved`; what waits in the wire is polled.
HostLoad(moved) ==
    /\ phase \in {"closed", "idle"}
    /\ left.load > 0 /\ Spent("load") /\ UNCHANGED <<plan, phase, heard>>
    /\ fresh' = fresh + 1
    /\ \E n \in {0, Len(SentOf(e))} :
        LET changes == [a \in moved \cap Params |-> [from |-> e.params[a], to |-> fresh']]
            pushed == [e EXCEPT !.h = PushHostLoad(@, changes),
                                !.params = [a \in Params |-> IF a \in moved THEN fresh' ELSE @[a]]]
        IN  \E polled \in {Poll(pushed, n, None)} :
               /\ e' = LoadStates(polled, IF "Document" \in moved THEN fresh' ELSE polled.doc,
                                  IF "View" \in moved THEN fresh' ELSE e.view)
               /\ gaps' = gaps \cup (IF MidGesture(e.h) THEN moved ELSE {})
                               \cup (IF e.docBase # polled.doc THEN {"Document"} ELSE {})
                               \cup (IF e.viewBase # e.view THEN {"View"} ELSE {})

OpenWindow ==
    /\ phase = "closed" /\ left.open > 0 /\ Spent("open") /\ phase' = "idle"
    /\ UNCHANGED <<plan, fresh, e, heard, gaps>>

\* run_frame, up to the draw.
BeginFrame(n, wrote) ==
    /\ phase = "idle" /\ phase' = "draw"
    /\ Hears(e, n, wrote) /\ SpentHearing(wrote)
    /\ e' = [Sync(e, n, wrote) EXCEPT !.queue = <<>>]
    /\ heard' = (n = Len(SentOf(e)))
    /\ UNCHANGED <<plan, gaps>>

\* ... and from there to its end; or, a window about to go, close_session.
FinishFrame(n, wrote) ==
    /\ \/ phase = "draw" /\ phase' = "idle"
       \/ phase = "hide" /\ phase' = "closed"
    /\ \E x \in {Resolved(e, IF phase = "hide" THEN CloseAll(Normalize(e.stream, e.queue))
                              ELSE Normalize(e.stream, e.queue))} :
           /\ Hears(x, n, wrote) /\ SpentHearing(wrote)
           /\ e' = ResolveFrame(x, n, wrote)
    /\ heard' = FALSE
    /\ UNCHANGED <<plan, gaps>>

Hide == phase = "idle" /\ phase' = "hide" /\ UNCHANGED <<plan, left, fresh, e, heard, gaps>>

Answers == {<<n, w>> : n \in 0 .. Len(e.pending), w \in {None, fresh + 1}}

Next ==
    \/ \E a \in Params : StartAt(a) \/ SetAt(a) \/ EndAt(a)
    \/ Begin \/ Finish \/ Request("undo") \/ Request("redo")
    \/ \E careful \in BOOLEAN : EditDoc(careful)
    \/ CommitDoc \/ EditView
    \/ \E moved \in Loads : HostLoad(moved)
    \/ OpenWindow \/ Hide
    \/ \E answer \in Answers : BeginFrame(answer[1], answer[2]) \/ FinishFrame(answer[1], answer[2])

Spec == Init /\ [][Next]_vars

\* Frames go on while there is a window, every draw returns, and a frame hears
\* in the end how the edits it sent fared.
BeginsHearing == phase = "idle" /\ phase' = "draw" /\ heard' = TRUE
Finishes == Drawing /\ phase' \in {"idle", "closed"}
Fairness == SF_phase(BeginsHearing) /\ WF_phase(Finishes)
FairSpec == Spec /\ Fairness

-----------------------------------------------------------------------------
Change == [from : Nat, to : Nat]
IsStep(step) == /\ step.changes \in [DOMAIN step.changes -> Change] /\ DOMAIN step.changes \subseteq Params
                /\ step.states \in [DOMAIN step.states -> Change] /\ DOMAIN step.states \subseteq Sources

\* An open step has actions of its own; a step waits for its sources, others
\* only behind it; the indices name steps.
TypeOK ==
    /\ plan \in Plans /\ left \in [Ops -> Nat] /\ phase \in Phases /\ fresh \in Nat /\ heard \in BOOLEAN
    /\ gaps \subseteq Params \cup Sources
    /\ e.params \in [Params -> 0 .. fresh] /\ e.touched \subseteq Params
    /\ {e.view, e.viewBase, e.doc, e.sentDoc, e.confirmed, e.docBase} \subseteq 0 .. fresh
    /\ \A s \in {e.h.undo, e.h.redo, e.h.behind} : \A i \in DOMAIN s : IsStep(s[i]) /\ ~IsEmpty(s[i])
    /\ (e.h.current = None) <=> (e.h.active = 0)
    /\ (e.h.held = None) <=> (e.h.waiting = {})
    /\ e.h.held # None => IsStep(e.h.held) /\ e.h.waiting = {"Document"}
    /\ e.h.held = None => e.h.behind = <<>>
    /\ e.h.closedThisFrame \in 0 .. Len(e.h.undo) /\ e.h.openHostStep \in 0 .. Len(e.h.undo)
    /\ phase = "closed" => e.queue = <<>>
    \* "History is capped by bytes, oldest first".
    /\ StackBytes(e.h.undo) <= Budget \/ Len(e.h.undo) = 1

\* Each step, oldest first: those on the stack, the held one, those behind it.
Line == e.h.undo \o (IF e.h.held = None THEN <<>> ELSE <<e.h.held>>) \o e.h.behind

ChangesOf(steps, k) ==
    LET Of(step) == IF k \in Params THEN step.changes ELSE step.states
        those == SelectSeq(steps, LAMBDA step : k \in DOMAIN Of(step))
    IN  [i \in DOMAIN those |-> Of(those[i])[k]]

\* Where k stands once what is open is taken back: an open gesture began there,
\* and the document and the view were last recorded there.
Stands(k) ==
    IF k \in Params THEN IF e.h.current # None /\ k \in DOMAIN e.h.current THEN e.h.current[k].from ELSE e.params[k]
    ELSE IF k \in DOMAIN e.h.currentStates THEN e.h.currentStates[k].from
    ELSE IF k = "Document" THEN e.docBase ELSE e.viewBase

Meets(line, k) ==
    /\ \A i \in 1 .. Len(line) - 1 : line[i].to = line[i + 1].from
    /\ line # <<>> => Last(line).to = Stands(k)

InOrder(k) ==
    /\ Meets(ChangesOf(Line, k), k)
    /\ LET line == Reverse(ChangesOf(e.h.redo, k))
       IN  e.h.held = None /\ line # <<>> =>
               /\ line[1].from = Stands(k)
               /\ \A i \in 1 .. Len(line) - 1 : line[i].to = line[i + 1].from

\* "Keeps its place after the held step": the steps tell the story of each
\* parameter, the document and the view in order, each step beginning where the
\* one before it ended, and the last ends where it stands.
StepsMeet == \A k \in (Params \cup Sources) \ gaps : InOrder(k)

\* ... which holds unless a transaction joins the held step past steps behind it.
StepsMeetInOrder == e.h.overtaken \/ StepsMeet

\* "A host gets one touch and one release per parameter, in order", "no
\* parameter stays touched for the host".
HostSeesGestures == ~e.misused /\ (phase = "closed" => e.touched = {})

\* A step that waits for the document lands, while there are frames.
HeldLands == (e.h.held # None) ~> (e.h.held = None \/ phase = "closed")

=============================================================================
