------------------------------ MODULE UndoHistory ------------------------------
(***************************************************************************)
(* edit_stream.hpp: what the editor pushed in a frame becomes what hosts   *)
(* and the undo history see, every set inside a start and an end of its    *)
(* own parameter.  An action without an address (at = None) starts or ends *)
(* a transaction.  Open gestures carry across frames.                      *)
(*                                                                         *)
(* undo_history.hpp: an Undo_history as a value, and its operations.  The  *)
(* sources of state it asks to commit, and the frames that drive it, are   *)
(* in EditorFrames.  All of it runs on the main thread.                    *)
(*                                                                         *)
(* A step is a map from parameters, and one from sources, to changes       *)
(* {from, to}.  An index into the undo stack is 0 when the optional is     *)
(* empty.                                                                  *)
(***************************************************************************)
EXTENDS Integers, Sequences, SequencesExt, FiniteSetsExt

CONSTANTS Params,  \* the parameters' addresses
          None,    \* an empty std::optional
          Budget   \* the state changes the undo stack may hold (_state_budget, in bytes)

Start(a) == [kind |-> "start", at |-> a, to |-> 0]
Set(a, v) == [kind |-> "set", at |-> a, to |-> v]
End(a) == [kind |-> "end", at |-> a, to |-> 0]

\* _depth, _touches, _starts, _implicit; `out` is what has been appended.
Closed == [depth |-> 0, touches |-> [a \in Params |-> 0], starts |-> [a \in Params |-> 0],
           implicit |-> <<>>, out |-> <<>>]

Emit(s, action) == [s EXCEPT !.out = Append(@, action)]

Touch(s, a) ==
    LET out == IF s.touches[a] = 0 THEN Emit(s, Start(a)) ELSE s
    IN  [out EXCEPT !.touches[a] = @ + 1]

Release(s, a) ==
    LET less == [s EXCEPT !.touches[a] = @ - 1]
    IN  IF s.touches[a] = 0 THEN s
        ELSE IF less.touches[a] = 0 THEN Emit(less, End(a)) ELSE less

ReleaseImplicit(s) == [FoldLeft(Release, s, s.implicit) EXCEPT !.implicit = <<>>]

Started(s, a) ==
    IF a = None THEN Emit([s EXCEPT !.depth = @ + 1], Start(None))
    ELSE Touch([s EXCEPT !.depth = @ + 1, !.starts[a] = @ + 1], a)

\* Mutant: a set inside another's gesture opens none of its own.
WasSetBare(s, action) ==
    IF s.depth > 0 THEN Emit(s, action)
    ELSE Emit(Emit(Emit(s, Start(action.at)), action), End(action.at))

WasSet(s, action) ==
    IF s.touches[action.at] > 0 THEN Emit(s, action)
    ELSE IF s.depth > 0 THEN Emit([Touch(s, action.at) EXCEPT !.implicit = Append(@, action.at)], action)
    ELSE Emit(Emit(Emit(s, Start(action.at)), action), End(action.at))

\* What was touched implicitly is released when nothing is open.
Settled(s) == IF s.depth = 0 THEN ReleaseImplicit(s) ELSE s

\* A stray end ends nothing.
Ended(s, a) ==
    IF s.depth = 0 \/ (a # None /\ s.starts[a] = 0) THEN s
    ELSE IF a = None THEN Emit(Settled([s EXCEPT !.depth = @ - 1]), End(None))
    ELSE Release(Settled([s EXCEPT !.depth = @ - 1, !.starts[a] = @ - 1]), a)

Normalize(s, actions) ==
    FoldLeft(LAMBDA t, action : CASE action.kind = "start" -> Started(t, action.at)
                                  [] action.kind = "set" -> WasSet(t, action)
                                  [] action.kind = "end" -> Ended(t, action.at),
             s, actions)

\* close_all: ends what is open, the transactions last.
CloseAll(s) ==
    LET addressed == FoldLeft(LAMBDA n, a : n + s.starts[a], 0, SetToSeq(Params))
        released == FoldLeft(LAMBDA t, a : FoldLeft(LAMBDA u, i : Release(u, a), t, [i \in 1 .. t.touches[a] |-> i]),
                             ReleaseImplicit(s), SetToSeq(Params))
    IN  [Closed EXCEPT !.out = released.out \o [i \in 1 .. s.depth - addressed |-> End(None)]]

-----------------------------------------------------------------------------
(* Undo_history.                                                           *)

NoChanges == <<>>
NoStep == [changes |-> NoChanges, states |-> NoChanges]
IsEmpty(step) == DOMAIN step.changes = {} /\ DOMAIN step.states = {}

Blank ==
    [undo |-> <<>>, redo |-> <<>>,
     current |-> None, currentStates |-> NoChanges,
     active |-> 0, transaction |-> FALSE, joining |-> FALSE, begun |-> 0,
     values |-> <<>>,
     openHostStep |-> 0, closedThisFrame |-> 0,
     held |-> None, waiting |-> {}, behind |-> <<>>,
     deferred |-> None, stateBytes |-> 0,
     overtaken |-> FALSE]  \* history: a step joined the held one past others behind it

\* Keeps the first `from` and takes the new `to`: add_state, and merge for parameters.
Joined(into, from) ==
    [k \in DOMAIN into \cup DOMAIN from |->
        [from |-> (IF k \in DOMAIN into THEN into ELSE from)[k].from,
         to |-> (IF k \in DOMAIN from THEN from ELSE into)[k].to]]

MergedSteps(into, step) == [changes |-> Joined(into.changes, step.changes),
                            states |-> Joined(into.states, step.states)]

WithState(step, source, from, to) ==
    [step EXCEPT !.states = Joined(@, source :> [from |-> from, to |-> to])]

Bytes(step) == Cardinality(DOMAIN step.states)
StackBytes(steps) == FoldLeft(LAMBDA n, step : n + Bytes(step), 0, steps)

\* Over the budget, the oldest steps go, but never the last one left.
Evicted(h) ==
    Min({k \in 0 .. Len(h.undo) : \/ k + 1 >= Len(h.undo)
                                  \/ h.stateBytes - StackBytes(SubSeq(h.undo, 1, k)) <= Budget})

Without(h, evicted) ==
    [h EXCEPT !.stateBytes = @ - StackBytes(SubSeq(h.undo, 1, evicted)),
              !.undo = SubSeq(@, evicted + 1, Len(@)),
              !.openHostStep = IF @ <= evicted THEN 0 ELSE @ - evicted,
              !.closedThisFrame = IF @ <= evicted THEN 0 ELSE @ - evicted]

Trim(h) == Without(h, Evicted(h))

Push(h, step) ==
    Trim([h EXCEPT !.undo = Append(@, step), !.redo = <<>>, !.stateBytes = @ + Bytes(step)])

ChangeStacked(h, i, step) ==
    Trim([h EXCEPT !.undo[i] = step, !.stateBytes = @ - Bytes(h.undo[i]) + Bytes(step)])

Holding(h, source) == h.held # None /\ source \in h.waiting
OnStack(h, i) == i \in 1 .. Len(h.undo)

Hold(h, step, waiting) ==
    [h EXCEPT !.held = IF @ = None THEN step ELSE MergedSteps(@, step),
              !.waiting = @ \cup waiting,
              !.overtaken = @ \/ (h.behind # <<>> /\ ~IsEmpty(step))]

\* Mutant: what closed behind the held step lands below it.
ReleaseUnder(h) ==
    LET after == FoldLeft(Push, h, h.behind)
    IN  [(IF IsEmpty(h.held) THEN after ELSE Push(after, h.held))
            EXCEPT !.held = None, !.waiting = {}, !.behind = <<>>]

\* The held step lands, then what closed behind it.
ReleaseHeld(h) ==
    [FoldLeft(Push, IF IsEmpty(h.held) THEN h ELSE Push(h, h.held), h.behind)
        EXCEPT !.held = None, !.waiting = {}, !.behind = <<>>]

Released(h) == IF h.waiting = {} THEN ReleaseHeld(h) ELSE h

Settle(h, source) == IF Holding(h, source) THEN Released([h EXCEPT !.waiting = @ \ {source}]) ELSE h

\* record_state, outside the commits of a closing step.
RecordState(h, source, from, to) ==
    IF Holding(h, source)
    THEN Released([h EXCEPT !.held = WithState(@, source, from, to), !.waiting = @ \ {source}])
    ELSE IF h.active > 0 /\ h.current # None
    THEN [h EXCEPT !.currentStates = Joined(@, source :> [from |-> from, to |-> to])]
    ELSE IF h.held = None /\ OnStack(h, h.closedThisFrame)
    THEN ChangeStacked(h, h.closedThisFrame, WithState(h.undo[h.closedThisFrame], source, from, to))
    ELSE LET own == WithState(NoStep, source, from, to)
             apart == [h EXCEPT !.openHostStep = 0]
         IN  IF h.held # None THEN [apart EXCEPT !.behind = Append(@, own)] ELSE Push(apart, own)

\* process_actions: a start, a set.  An end that closes the step is EditorFrames'.
OnStart(h, a) ==
    LET first == IF h.active > 0 THEN h
                 ELSE [h EXCEPT !.current = NoChanges, !.currentStates = NoChanges,
                                !.transaction = FALSE, !.joining = h.closedThisFrame # 0,
                                !.openHostStep = 0]
        opened == [first EXCEPT !.active = @ + 1]
    IN  IF a = None THEN [opened EXCEPT !.transaction = TRUE]
        ELSE IF a \in DOMAIN opened.current THEN opened
        ELSE [opened EXCEPT !.current = @ @@ a :> [from |-> h.values[a], to |-> h.values[a]]]

OnSet(h, a, v) ==
    LET known == [h EXCEPT !.values[a] = v]
    IN  IF h.current # None /\ a \in DOMAIN h.current THEN [known EXCEPT !.current[a].to = v] ELSE known

\* close_step, before its sources commit: the step, and what is left of the history.
ClosingStep(h) ==
    [changes |-> [a \in {b \in DOMAIN h.current : h.current[b].from # h.current[b].to} |-> h.current[a]],
     states |-> h.currentStates]

Closing(h) == [h EXCEPT !.current = None, !.currentStates = NoChanges, !.transaction = FALSE, !.joining = FALSE]

\* Where the step just pushed is.
ClosedNow(h) == [h EXCEPT !.closedThisFrame = Len(h.undo)]
OpenForHost(h) == [h EXCEPT !.openHostStep = Len(h.undo)]

\* close_step, once they have.
Close(h, step, waiting, joining) ==
    IF waiting # {} THEN Hold(h, step, waiting)
    ELSE IF IsEmpty(step) THEN h
    ELSE IF h.held # None THEN [h EXCEPT !.behind = Append(@, step)]
    ELSE IF joining /\ OnStack(h, h.closedThisFrame)
    THEN ChangeStacked(h, h.closedThisFrame, MergedSteps(h.undo[h.closedThisFrame], step))
    ELSE ClosedNow(Push(h, step))

\* commit_outside, once the sources have committed into `pre`.
Outside(h, pre, waiting) ==
    IF waiting # {} THEN Hold(h, pre, waiting)
    ELSE IF IsEmpty(pre) THEN h ELSE Push(h, pre)

EndFrame(h) == [h EXCEPT !.closedThisFrame = 0, !.joining = FALSE]

MidGesture(h) == h.active # 0 \/ h.current # None

\* A host's step lands on what is held, landed as it is.
LandHeld(h) == IF h.held = None THEN h ELSE ReleaseHeld(h)

\* push_host_load; `changes` is the diff.
PushHostLoad(h, changes) ==
    LET fresh == [h EXCEPT !.openHostStep = 0]
    IN  IF MidGesture(h) THEN fresh
        ELSE IF DOMAIN changes = {} THEN LandHeld(fresh)
        ELSE OpenForHost(Push(LandHeld(fresh), [NoStep EXCEPT !.changes = changes]))

AmendHostState(h, source, from, to) ==
    IF MidGesture(h) THEN h
    ELSE IF OnStack(h, h.openHostStep)
    THEN ChangeStacked(h, h.openHostStep, WithState(h.undo[h.openHostStep], source, from, to))
    ELSE OpenForHost(Push(LandHeld(h), WithState(NoStep, source, from, to)))

\* apply: the step moves to the other stack.
Undone(h) ==
    LET step == Last(h.undo)
    IN  [h EXCEPT !.undo = Front(@), !.redo = Append(@, step), !.stateBytes = @ - Bytes(step)]

Redone(h) ==
    LET step == Last(h.redo)
    IN  Trim([h EXCEPT !.redo = Front(@), !.undo = Append(@, step), !.stateBytes = @ + Bytes(step)])

=============================================================================
