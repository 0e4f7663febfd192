-------------------------------- MODULE Session --------------------------------
(***************************************************************************)
(* What a session holds, saved and loaded through each wrapper: the        *)
(* parameters, the document, the host bypass, and the editor's part of it, *)
(* the view and the window's size, which the Edit_store keeps              *)
(* (edit_store.hpp, edit_record.hpp, state_record.hpp,                     *)
(* state_adapter.cpp and the wrappers' save and load).                     *)
(*                                                                         *)
(* An instance has two halves that each hold the parameters and the        *)
(* document: the editor's (the host's values) and the processor's.  What   *)
(* passes between them is in the wrappers' modules and in StateSync; here  *)
(* an edit reaches both at once, a frame is one step, and the question is  *)
(* what a load leaves in them.  A VST3 host loads in three calls.          *)
(*                                                                         *)
(* A chunk is what its reader can tell apart: how many values it claims,   *)
(* the values, the bypass, the document's record, the editor's record, the *)
(* framework's keys of the editor map, and where it is damaged.  A value   *)
(* left out of a chunk and one written as no_value are both NoValue.       *)
(***************************************************************************)
EXTENDS UndoHistory

CONSTANT Budgets  \* bound: how many calls of each kind; a set of functions

VARIABLES
    left,     \* of the budget, what is left
    format,
    session,  \* the instance
    kept,     \* history: the chunk saved last, and what was in the session then
    load      \* the last call, if it was a load: its chunk, how far it is, and (history) the session before

sessionVars == <<left, format, session, kept, load>>

Formats == {"clap", "vst3", "auv2", "auv3", "aax", "web"}
Interface == {2}                  \* the parameters with Policy::Interface
Persistent == Params \ Interface  \* is_persistent
NumParams == Cardinality(Params)
NoValue == -1
Unreadable == -1    \* a record no load accepts
Preferred == 1      \* Sizing: a width stands for a size
MaxSize == 2

Half == [values |-> [p \in Params |-> 0], doc |-> 0, bypass |-> 0]
View == [undoable |-> 0, restored |-> 0]

-----------------------------------------------------------------------------
(* Edit_store. *)

Resized(s, w) == [s EXCEPT !.size = Min({w, MaxSize}), !.sizeSet = TRUE]

Publish(s) ==
    [s EXCEPT !.published = [version |-> 1, size |-> IF s.sizeSet THEN s.size ELSE None,
                             undoable |-> s.view.undoable, restored |-> s.view.restored]]

NewInstance ==
    Publish([editor |-> Half, processor |-> Half,
             untold |-> FALSE,                 \* the processor was not told what the host's values became
             view |-> View, viewBase |-> 0,
             size |-> Preferred, sizeBase |-> Preferred, sizeSet |-> FALSE,
             published |-> None,
             h |-> Blank])

Init ==
    /\ left \in Budgets
    /\ format \in Formats
    /\ session = NewInstance
    /\ kept = None /\ load = None

\* _commit_view and _commit_size, while a step closes.
Uncommitted(s) ==
    LET viewed == IF s.viewBase = s.view.undoable THEN NoStep
                  ELSE WithState(NoStep, "View", s.viewBase, s.view.undoable)
    IN  IF s.sizeBase = s.size THEN viewed ELSE WithState(viewed, "Size", s.sizeBase, s.size)

Committed(s) == [s EXCEPT !.viewBase = s.view.undoable, !.sizeBase = s.size]

CommitOutside(s) == [Committed(s) EXCEPT !.h = Outside(@, Uncommitted(s), {})]

\* A size that is nobody's step by now is just the size.
EndOfFrame(s) ==
    LET recorded == IF s.viewBase = s.view.undoable THEN s.h
                    ELSE RecordState(s.h, "View", s.viewBase, s.view.undoable)
    IN  Publish([Committed(s) EXCEPT !.h = EndFrame(recorded)])

\* decode_record_or_default
Part(record) == IF record \in {None, Unreadable} THEN 0 ELSE record

\* decode_edit_record: none of another version's.
Decoded(edit) == IF edit = None THEN None ELSE IF edit.version = 1 THEN edit ELSE None

Amended(h, source, from, to) == IF from = to THEN h ELSE AmendHostState(h, source, from, to)

\* Mutant: a session without a size keeps the one there is.
KeepsSize(s, isPreset, record, legacy) ==
    IF record # None /\ record.size # None THEN Resized(s, record.size)
    ELSE IF legacy # None THEN Resized(s, legacy) ELSE s

\* A session says the whole size, preferred when it has none; a preset says nothing of it.
LoadSize(s, isPreset, record, legacy) ==
    IF record # None /\ record.size # None THEN Resized(s, record.size)
    ELSE IF legacy # None THEN Resized(s, legacy)
    ELSE IF isPreset THEN s ELSE [s EXCEPT !.size = Preferred, !.sizeSet = FALSE]

\* A preset carries no view; a session without a record is from before there was one.
LoadView(s, isPreset, record) ==
    IF record # None THEN [undoable |-> Part(record.undoable), restored |-> Part(record.restored)]
    ELSE IF isPreset THEN s.view ELSE View

NoKeys == [size |-> None, name |-> FALSE]
\* A map that breaks off is dropped.
MapKeys(chunk) == IF chunk.broken = "map" THEN NoKeys ELSE chunk.keys

\* load_editor_state.  A preset's name among the keys makes the load a preset's.
LoadEditorState(s, chunk) ==
    LET isPreset == MapKeys(chunk).name
        record == Decoded(chunk.edit)
        sized == LoadSize(s, isPreset, record, MapKeys(chunk).size)
        view == LoadView(s, isPreset, record)
    IN  Publish([sized EXCEPT !.sizeBase = sized.size, !.view = view, !.viewBase = view.undoable,
                              !.h = Amended(@, "View", s.view.undoable, view.undoable)])

-----------------------------------------------------------------------------
(* Saves. *)

Saved(s) ==
    LET half == IF format = "vst3" THEN s.processor ELSE s.editor
    IN  [count |-> NumParams,
         vals |-> [p \in 1 .. NumParams + 1 |-> IF p \in Persistent THEN half.values[p] ELSE NoValue],
         bypass |-> IF format \in {"clap", "vst3", "aax"} THEN half.bypass ELSE None,
         doc |-> IF format = "web" THEN s.editor.doc ELSE s.processor.doc,
         edit |-> s.published,
         keys |-> [NoKeys EXCEPT !.size = s.published.size],
         broken |-> "no"]

\* What else a host may hold: an older build's session, a newer one's, one whose first parameter was not
\* persistent then, one whose view cannot be read, a preset's, one without its count, and damaged ones.
Older == [count |-> 2, vals |-> <<1, NoValue, NoValue, NoValue>>, bypass |-> None, doc |-> None, edit |-> None,
          keys |-> [NoKeys EXCEPT !.size = MaxSize + 1], broken |-> "no"]
Newer == [Older EXCEPT !.count = 4, !.vals = <<1, 1, 1, 1>>, !.doc = Unreadable, !.keys = NoKeys,
                       !.edit = [version |-> 2, size |-> None, undoable |-> 0, restored |-> 0]]
Narrower == [Older EXCEPT !.count = 3, !.vals[1] = NoValue, !.vals[3] = 1, !.keys = NoKeys, !.doc = 1,
                          !.edit = [version |-> 1, size |-> MaxSize + 1, undoable |-> Unreadable, restored |-> 1]]
Preset == [Older EXCEPT !.count = 3, !.vals[3] = 1, !.doc = 1, !.keys = [NoKeys EXCEPT !.name = TRUE]]
Foreign ==
    LET Bypassed(chunk) == [chunk EXCEPT !.bypass = IF format \in {"clap", "vst3", "aax"} THEN 1 ELSE None]
        session1 == Bypassed(Narrower)
    IN  {Older, Bypassed(Newer), session1, [session1 EXCEPT !.broken = "map"], [session1 EXCEPT !.broken = "values"]}
            \cup (IF format = "web" THEN {} ELSE {[Preset EXCEPT !.bypass = IF format = "vst3" THEN NoValue ELSE None]})
            \cup (IF format \in {"auv2", "auv3", "aax"} THEN {[session1 EXCEPT !.count = None]} ELSE {})

-----------------------------------------------------------------------------
(* Loads. *)

\* A preset's file, read by State_adapter; so is all that the web page loads.
Json(chunk) == format = "web" \/ (format \in {"clap", "auv2"} /\ chunk.keys.name)

Claimed(chunk) == IF chunk.count = None THEN 0 ELSE chunk.count

\* What a load sets p to, given what is stored; None: what it is stays.  By name, what is missing is the default.
ByName(stored, p) == IF p \in Interface THEN None ELSE IF stored = None THEN 0 ELSE stored

\* By position (CLAP, VST3, AAX): what the chunk ends before is the default.
ByPosition(chunk, stored, p) == IF p \in Interface THEN None ELSE IF p > chunk.count THEN 0 ELSE stored

\* The Audio Units' base classes set what is stored, interface parameters too; the AUv3 then resets those.
OverGlobals(chunk, stored, p) == IF chunk.count # None /\ p > chunk.count THEN 0 ELSE stored
OverTree(chunk, stored, p) == IF p \in Interface \/ p > Claimed(chunk) THEN 0 ELSE stored

Told(chunk, p) ==
    LET stored == IF chunk.vals[p] = NoValue THEN None ELSE chunk.vals[p]
    IN  IF Json(chunk) THEN ByName(stored, p)
        ELSE IF format = "auv2" THEN OverGlobals(chunk, stored, p)
        ELSE IF format = "auv3" THEN OverTree(chunk, stored, p)
        ELSE ByPosition(chunk, stored, p)

LoadValues(half, chunk) ==
    [half EXCEPT !.values = [p \in Params |-> IF Told(chunk, p) = None THEN @[p] ELSE Told(chunk, p)],
                 !.bypass = IF chunk.bypass \in {0, 1} THEN chunk.bypass ELSE @]

LoadHalf(half, chunk) == [LoadValues(half, chunk) EXCEPT !.doc = Part(chunk.doc)]

Diff(before, after) ==
    [p \in {q \in Params : before[q] # after[q]} |-> [from |-> before[p], to |-> after[p]]]

\* AUv2: the base class set the values; without a count nobody is told, and no step is pushed.
Countless(chunk) == format = "auv2" /\ chunk.count = None

\* The editor's parameters and document, one undo step.
LoadEditor(s, chunk) ==
    LET after == LoadHalf(s.editor, chunk)
        pushed == IF Countless(chunk) THEN s.h ELSE PushHostLoad(s.h, Diff(s.editor.values, after.values))
    IN  [s EXCEPT !.editor = after, !.h = Amended(pushed, "Document", s.editor.doc, after.doc)]

LoadProcessor(s, chunk) ==
    LET told == LoadHalf(s.processor, chunk)
        both == [told EXCEPT !.values = LoadValues(s.editor, chunk).values]  \* AUv2 tells it all there is
    IN  [s EXCEPT !.processor = IF Countless(chunk) THEN [told EXCEPT !.values = s.processor.values]
                                ELSE IF format = "auv2" /\ ~Json(chunk) THEN both ELSE told,
                  !.untold = Countless(chunk)]

\* What is refused before it changes anything.
Refused(chunk) ==
    \/ chunk.broken = "values" /\ format # "aax"
    \/ chunk.broken = "map" /\ format = "clap"
    \/ chunk.count = None /\ format = "aax"

Loaded(s, chunk) ==
    IF Refused(chunk) THEN s ELSE LoadEditorState(LoadEditor(LoadProcessor(s, chunk), chunk), chunk)

\* CompareActiveChunk: would this chunk be another than ours?
ChunksEqual(theirs, ours) ==
    /\ theirs.count = NumParams
    /\ \A p \in Params : theirs.vals[p] \in {NoValue, ours.vals[p]}
    /\ Part(theirs.doc) = Part(ours.doc)

-----------------------------------------------------------------------------
(* Frames: what the editor does in one, and its end. *)

Stepped(h, step) == Close(Closing([OnStart(h, None) EXCEPT !.active = 0]), step, {}, FALSE)

\* The editor sets a parameter, inside a gesture.
Knob(s, p, v) ==
    [s EXCEPT !.editor.values[p] = v, !.processor.values[p] = v,
              !.h = Stepped(@, [NoStep EXCEPT !.changes = p :> [from |-> s.editor.values[p], to |-> v]])]

\* ... edits the document, and commits.
Write(s, v) ==
    [s EXCEPT !.editor.doc = v, !.processor.doc = v,
              !.h = IF s.editor.doc = v THEN @ ELSE RecordState(@, "Document", s.editor.doc, v)]

\* ... asks for a size; inside a transaction, the size is part of its step.
Ask(s, w, inside) ==
    LET outside == CommitOutside(s)
        asked == Resized(IF inside THEN outside ELSE s, w)
    IN  IF inside THEN [Committed(asked) EXCEPT !.h = Stepped(@, Uncommitted(asked))] ELSE asked

Replayed(s, step, isUndo) ==
    LET next(c) == IF isUndo THEN c.from ELSE c.to
        ValuesOf(half) == [p \in Params |-> IF p \in DOMAIN step.changes THEN next(step.changes[p]) ELSE half.values[p]]
        State(source, now) == IF source \in DOMAIN step.states THEN next(step.states[source]) ELSE now
        ReplayHalf(half) == [half EXCEPT !.values = ValuesOf(half), !.doc = State("Document", @)]
        view == State("View", s.view.undoable)
        size == State("Size", s.size)
    IN  [s EXCEPT !.editor = ReplayHalf(@), !.processor = ReplayHalf(@),
                  !.view.undoable = view, !.viewBase = view,
                  !.size = size, !.sizeBase = size, !.sizeSet = @ \/ "Size" \in DOMAIN step.states]

\* What is uncommitted becomes a step first.
Undo(s) ==
    LET c == CommitOutside(s)
        back == IF c.h.undo = <<>> THEN c ELSE [Replayed(c, Last(c.h.undo), TRUE) EXCEPT !.h = Undone(@)]
    IN  [back EXCEPT !.h.openHostStep = 0]

Redo(s) ==
    LET c == CommitOutside(s)
        again == IF c.h.redo = <<>> THEN c ELSE [Replayed(c, Last(c.h.redo), FALSE) EXCEPT !.h = Redone(@)]
    IN  [again EXCEPT !.h.openHostStep = 0]

-----------------------------------------------------------------------------
(* Steps. *)

Resting == (IF load = None THEN "done" ELSE load.stage) = "done"

Call(kind) == left[kind] > 0 /\ left' = [left EXCEPT ![kind] = @ - 1] /\ UNCHANGED format

Frame(kind, drawn) == Resting /\ Call(kind) /\ session' = EndOfFrame(drawn) /\ load' = None /\ UNCHANGED kept

DrawParam(p) == Frame("edit", Knob(session, p, 1 - session.editor.values[p]))
DrawDoc == Frame("write", Write(session, 1 - session.editor.doc))
DrawView == Frame("look", [session EXCEPT !.view.undoable = 1 - @])
DrawTab == Frame("look", [session EXCEPT !.view.restored = 1 - @])
DrawSize(w, inside) == Frame("resize", Ask(session, w, inside))
UndoFrame == Frame("undo", Undo(session))
RedoFrame == Frame("undo", Redo(session))

HostDoes(kind, s) == Resting /\ Call(kind) /\ session' = s /\ load' = None /\ UNCHANGED kept

Automate(p) ==
    LET v == 1 - session.editor.values[p]
    IN  HostDoes("auto", [session EXCEPT !.editor.values[p] = v, !.processor.values[p] = v])
SetBypass ==
    LET b == 1 - session.editor.bypass
    IN  HostDoes("bypass", [session EXCEPT !.editor.bypass = b, !.processor.bypass = b])
\* guiSetSize, onSize: published with the next frame or load.
HostResizes(w) == format \in {"clap", "vst3"} /\ HostDoes("resize", Resized(session, w))

Contents(s) == [values |-> s.editor.values, doc |-> s.editor.doc, look |-> s.view.undoable]

Save ==
    /\ Resting /\ Call("save")
    /\ kept' = [chunk |-> Saved(session), was |-> Contents(session)]
    /\ load' = None /\ UNCHANGED session

Chunks == Foreign \cup IF kept = None THEN {} ELSE {kept.chunk}

Begin(chunk, stage) ==
    /\ Resting /\ Call("load") /\ UNCHANGED kept
    /\ load' = [chunk |-> chunk, stage |-> stage, before |-> Contents(session)]

Load(chunk) ==
    /\ format # "vst3"
    /\ Begin(chunk, "done")
    /\ session' = Loaded(session, chunk)

\* VST3: Audio_effect::setState, Controller::setComponentState with the same chunk, Controller::setState.
SetState(chunk) ==
    /\ format = "vst3"
    /\ Begin(chunk, "processor")
    /\ session' = IF Refused(chunk) THEN session ELSE LoadProcessor(session, chunk)

SetComponentState ==
    /\ load # None /\ load.stage = "processor"
    /\ load' = [load EXCEPT !.stage = "component"]
    /\ session' = IF Refused(load.chunk) THEN session ELSE LoadEditor(session, load.chunk)
    /\ UNCHANGED <<left, format, kept>>

SetControllerState ==
    /\ load # None /\ load.stage = "component"
    /\ load' = [load EXCEPT !.stage = "done"]
    /\ session' = IF load.chunk.broken = "map" THEN session ELSE LoadEditorState(session, load.chunk)
    /\ UNCHANGED <<left, format, kept>>

Next ==
    \/ \E p \in Params : DrawParam(p) \/ Automate(p)
    \/ DrawDoc \/ DrawView \/ DrawTab \/ UndoFrame \/ RedoFrame
    \/ \E w \in {Preferred, MaxSize + 1} : HostResizes(w) \/ (\E inside \in BOOLEAN : DrawSize(w, inside))
    \/ SetBypass \/ Save
    \/ \E chunk \in Chunks : Load(chunk) \/ SetState(chunk)
    \/ SetComponentState \/ SetControllerState

-----------------------------------------------------------------------------

HalfOK(half) == half \in [values : [Params -> 0 .. 1], doc : 0 .. 1, bypass : 0 .. 1]
TypeOK ==
    /\ left \in [DOMAIN left -> Nat] /\ format \in Formats
    /\ HalfOK(session.editor) /\ HalfOK(session.processor)
    /\ session.view \in [undoable : 0 .. 1, restored : 0 .. 1] /\ session.viewBase \in 0 .. 1
    /\ {session.size, session.sizeBase} \subseteq 1 .. MaxSize /\ session.sizeSet \in BOOLEAN
    /\ load # None => load.stage \in {"processor", "component", "done"}

\* Nothing of the load was refused.
Whole == load.chunk.broken = "no" /\ ~Refused(load.chunk)
Done == load # None /\ load.stage = "done"

\* Between two calls of its host the processor and the editor hold the same parameters, document and bypass,
\* whichever chunk was loaded, and of a damaged one neither half takes what the other refuses.
HalvesAgree == Resting /\ ~session.untold => session.editor = session.processor

\* A chunk the plug-in saved itself brings back what was saved, the absence of a size included, and a save
\* after it gives that chunk again.
RestoresWhatItSaved ==
    Done /\ kept # None /\ load.chunk = kept.chunk =>
        /\ Saved(session) = kept.chunk
        /\ [Contents(session) EXCEPT !.values = Restrict(@, Persistent)]
               = [kept.was EXCEPT !.values = Restrict(@, Persistent)]

\* A session leaves nothing of the one before it: what it does not say, of parameters it has never heard of, the
\* document, the view or the size, is what a new instance holds.  A value said to be none of its own is the
\* exception, except in a file that is read by name.
NothingLeftOver ==
    Done /\ Whole /\ ~load.chunk.keys.name /\ load.chunk.count # None =>
        LET chunk == load.chunk
            record == Decoded(chunk.edit)
        IN  /\ \A p \in Persistent :
                   session.editor.values[p] = IF p > chunk.count THEN 0
                                              ELSE IF chunk.vals[p] # NoValue THEN chunk.vals[p]
                                              ELSE IF format = "web" THEN 0 ELSE load.before.values[p]
            /\ session.editor.doc = Part(chunk.doc)
            /\ session.view = IF record = None THEN View
                              ELSE [undoable |-> Part(record.undoable), restored |-> Part(record.restored)]
            /\ session.sizeSet = (chunk.keys.size # None \/ (record # None /\ record.size # None))
            /\ ~session.sizeSet => session.size = Preferred

\* A load is one undo step: the undo after it takes back the parameters, the document and the view together,
\* and the redo brings them again, whatever was on the stack and whichever calls the load came in.
OneStep ==
    Done /\ Whole /\ ~Countless(load.chunk) /\ Contents(session) # load.before =>
        LET back == EndOfFrame(Undo(session))
        IN  /\ Contents(back) = load.before /\ back.processor.values = load.before.values
            /\ Contents(Redo(back)) = Contents(session)

\* The steps on the stack tell the story of the view and of the document in order, up to what they are now.
StepsMeet ==
    \A k \in {"Document", "View"} :
        LET steps == SelectSeq(session.h.undo, LAMBDA step : k \in DOMAIN step.states)
            now == IF k = "View" THEN session.view.undoable ELSE session.editor.doc
        IN  \A i \in DOMAIN steps :
                steps[i].states[k].to = IF i = Len(steps) THEN now ELSE steps[i + 1].states[k].from

\* AAX: after a load the host's compare light is off.
CompareLightOff ==
    Done /\ format = "aax" /\ load.chunk.count = NumParams => ChunksEqual(load.chunk, Saved(session))

=============================================================================
