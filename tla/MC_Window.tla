----------------------------- MODULE MC_Window -----------------------------
(* The editor's window: what the user does at it, the field it is typed     *)
(* into, the dialogs it asks for, its own life, and the thread that watches *)
(* Windows' theme.  A behaviour is about one of them.                       *)
EXTENDS PointerInput, SequenceTheorems, WellFoundedInduction, TLAPS

CONSTANTS f1, f2, Fields, Requests, MaxSheetWaits, Platforms, Opened, Editions, MaxChanges

VARIABLES subject,
          fieldOn, place, asked, finished, fields, up, closes, answers,
          dialogsOn, asking, hostWindow, tasks, kind, named, at, waits, sheet, modals, ended, buffer, shared,
          answered, toldOf, late,
          host, platform, cur, native, placed, context, detached, link, wanted, dead, due, foreground, editor, session,
          visible, unit, setup, gone, lapses,
          theme, changes, armed, signal, hevent, stop, thread, opening, read, dark, raced, early

Field == INSTANCE TextField WITH platform <- fieldOn, open <- fields
Dialog == INSTANCE Dialogs WITH platform <- dialogsOn, view <- asking, host <- hostWindow, answers <- answered, told <- toldOf
Life == INSTANCE ViewLife WITH Views <- Opened, open <- session
Watcher == INSTANCE DarkModeWatcher WITH view <- opening

Touches == [win |-> {}, mac |-> {}, ios |-> {f1, f2}, web |-> {f1}]
Events == [win |-> 2, mac |-> 3, ios |-> 2, web |-> 3]
Recognizers == [win |-> {"down", "drag"}, mac |-> {"down", "drag"},
                ios |-> {"over", "down", "dwell", "drag"}, web |-> {"down", "drag"}]

\* Every wrapper on the systems its format is for.
Builds == ({"clap", "vst3", "aax"} \X {"win", "mac", "mac13"}) \cup ({"auv2"} \X {"mac", "mac13"})
          \cup ({"auv3"} \X {"mac", "mac13", "ios"}) \cup {<<"web", "web">>}

field == <<fieldOn, place, asked, finished, fields, up, closes, answers>>
dialogs == <<dialogsOn, asking, hostWindow, tasks, kind, named, at, waits, sheet, modals, ended, buffer, shared,
             answered, toldOf, late>>
life == <<host, platform, cur, native, placed, context, detached, link, wanted, dead, due, foreground, editor, session,
          visible, unit, setup, gone, lapses>>
watcher == <<theme, changes, armed, signal, hevent, stop, thread, opening, read, dark, raced, early>>

MCInit == /\ Init /\ Field!Init /\ Dialog!Init /\ Life!Init /\ Watcher!Init
          /\ subject \in {"input", "field", "dialogs", "life", "watcher"}
          \* What a behaviour is not about starts in one way.
          /\ subject = "input" \/ (view = "mac" /\ uses = "down")
          /\ subject = "field" \/ fieldOn = "win"
          /\ subject = "dialogs" \/ (dialogsOn = "win" /\ \A r \in Requests : kind[r] = "ask")
          /\ subject = "life" \/ platform = "web"
          /\ subject = "watcher" \/ theme

MCNext == /\ UNCHANGED subject
          /\ \/ subject = "input" /\ Next /\ UNCHANGED <<field, dialogs, life, watcher>>
             \/ subject = "field" /\ Field!Next /\ UNCHANGED <<vars, dialogs, life, watcher>>
             \/ subject = "dialogs" /\ Dialog!Next /\ UNCHANGED <<vars, field, life, watcher>>
             \/ subject = "life" /\ Life!Next /\ UNCHANGED <<vars, field, dialogs, watcher>>
             \/ subject = "watcher" /\ Watcher!Next /\ UNCHANGED <<vars, field, dialogs, life>>

allVars == <<subject, vars, field, dialogs, life, watcher>>

MCSpec == MCInit /\ [][MCNext]_allVars

\* The type invariants of the five.
WindowTyped == TypeOK /\ Field!TypeOK /\ Dialog!TypeOK /\ Life!TypeOK /\ Watcher!TypeOK

\* No press, drag or hover outlasts the pointer that made it, and the editor hears of each drag's end.
GesturesEnd == PressEnds /\ NothingHovers

\* Whoever opened a native text field or a dialog is answered, once, and with its own answer.
AsksAnswered == Field!FieldsAnswer /\ Dialog!DialogsAnswer

\* Every one of them fires exactly once, on every path, and never after the task manager's shutdown.
FiresOnce == Dialog!FiresOnce

\* The editor hears of its life in order, however its host leads it, and gets frames while it is shown and no others.
EditorIsTold == Life!EditorIsTold /\ Life!FramesFollow

\* The theme's watcher ends with its view, and the editor has the theme's colours.
WatcherEnds == Watcher!WatcherEnds

-----------------------------------------------------------------------------
(* Proofs.  PointerInput: whatever is held in a frame's queue or by a        *)
(* recognizer has its pointer still down, or its release behind it.          *)

\* A set of naturals that is not empty has a least element: the proofs here use it where a pen would use induction.
LEMMA LeastNatural ==
    ASSUME NEW T \in SUBSET Nat, T # {}
    PROVE  \E m \in T : \A k \in T : m <= k
<1> DEFINE R == {ss \in Nat \X Nat : ss[1] < ss[2]}
<1>1. IsWellFoundedOn(R, Nat)
  BY NatLessThanWellFounded, Zenon DEF OpToRel
<1>2. \A x, y \in Nat : x < y => <<x, y>> \in R
  OBVIOUS
<1> HIDE DEF R
<1>3. PICK m \in T : \A k \in T : ~(<<k, m>> \in R)
  BY <1>1, WFMin
<1>4. \A k \in T : ~(k < m)
  BY <1>2, <1>3, Zenon
<1> QED BY <1>4

\* So what holds of 0, and of n + 1 when of n, holds of all up to N.
LEMMA Climbs ==
    ASSUME NEW N \in Nat, NEW T, 0 \in T, \A n \in 0 .. N - 1 : n \in T => n + 1 \in T
    PROVE  0 .. N \subseteq T
<1> SUFFICES ASSUME 0 .. N \ T # {} PROVE FALSE
  OBVIOUS
<1>1. 0 .. N \ T \in SUBSET Nat
  OBVIOUS
<1>2. PICK m \in 0 .. N \ T : \A k \in 0 .. N \ T : m <= k
  BY <1>1, LeastNatural
<1>3. m # 0 /\ m - 1 \in 0 .. N - 1 /\ m - 1 \in T
  BY <1>2
<1> QED BY <1>2, <1>3

Pushed == [kind : {"Move", "Enter", "Exit", "Down", "Up", "Cancel", "Click", "Lost"}, tag : Tags \cup {None},
           pos : Places, button : Buttons \cup {None}]

\* What is still to be processed: a frame takes all there is, and nothing comes while it draws.
Queue == IF drawing THEN list ELSE events

\* A press a recognizer takes, and what makes good for it.
Grabs(e) == e.kind = "Down" /\ e.button = "left"
Frees(e, t) == e.kind \in {"Up", "Cancel", "Lost"} /\ e.tag = t

\* A pointer whose release the view will be told of, or will miss.  A page tells the first press and the last release.
Holds(t) == IF Is("web") THEN world[t].told # {} ELSE "left" \in world[t].told
Ends(t) == Holds(t) \/ \E j \in 1 .. Len(Queue) : Frees(Queue[j], t)

InputTyped == TypeOK /\ events \in Seq(Pushed) /\ list \in Seq(Pushed)
              /\ (drawing => events = <<>>) /\ (~drawing => list = <<>>)

WorldInv ==
    \A t \in Tags : /\ world[t].told \subseteq world[t].buttons
                    /\ Is("web") => world[t].told = world[t].buttons
                    /\ Is("ios") => IF world[t].at = "away" THEN world[t].buttons = {} ELSE world[t].told = {"left"}

\* A press in the queue has its end behind it, or is held; and before the next of its pointer there is one.  Likewise
\* a touch that moved.
QueueInv ==
    /\ \A i \in 1 .. Len(Queue) : Grabs(Queue[i]) \/ (Is("ios") /\ Queue[i].kind = "Move") =>
          /\ Queue[i].tag \in Tags
          /\ Holds(Queue[i].tag) \/ \E j \in i + 1 .. Len(Queue) : Frees(Queue[j], Queue[i].tag)
    /\ \A i, j \in 1 .. Len(Queue) : i < j /\ Grabs(Queue[i]) /\ Grabs(Queue[j]) /\ Queue[i].tag = Queue[j].tag
          => \E k \in i + 1 .. j - 1 : Frees(Queue[k], Queue[i].tag)
    /\ Is("ios") => missed = {} /\ \A i \in 1 .. Len(Queue) : Queue[i].kind \notin {"Lost", "Enter", "Exit"}

\* The pointer that drags ends, or its release was missed; a press of the same comes after that only.
DragInv ==
    /\ drag.tag = None => drag = NoDrag
    /\ uses # "drag" => drag = NoDrag
    /\ drag.tag # None => drag.tag \in missed \/ Ends(drag.tag)
    /\ drag.tag # None => \A j \in 1 .. Len(Queue) : Grabs(Queue[j]) /\ Queue[j].tag = drag.tag
          => drag.tag \in missed \/ \E k \in 1 .. j - 1 : Frees(Queue[k], drag.tag)
    /\ dragging => drag.on \/ orphaned
    /\ ~twice

DownInv ==
    /\ uses # "down" => ~down.on
    /\ down.on => down.tag \in Tags /\ (down.tag \in missed \/ Ends(down.tag))

\* A finger over the control ends; one that may come to dwell has its end in this very frame.
HoverInv == Is("ios") =>
    /\ over.on => over.tag \in Tags /\ Ends(over.tag)
    /\ (uses # "over" => ~over.on) /\ (uses # "dwell" => ~dwell.armed)
    /\ ~dwell.on
    /\ dwell.armed => drawing /\ \E j \in 1 .. Len(list) : list[j].kind \in {"Up", "Cancel"}
    /\ \A t \in Tags : Holds(t) => \E o \in pointerOrigins : o.tag = t
    /\ drawing => \A i \in 1 .. Len(list) : list[i].kind = "Move" /\ (\A o \in held : o.tag # list[i].tag)
          => \E j \in i + 1 .. Len(list) : list[j].kind \in {"Up", "Cancel"}

InputInv == InputTyped /\ WorldInv /\ QueueInv /\ DragInv /\ DownInv /\ HoverInv

LEMMA InputIsSound == InputInv => GesturesEnd
<1> SUFFICES ASSUME InputInv PROVE GesturesEnd
  OBVIOUS
<1> USE DEF InputInv, InputTyped
<1>1. ASSUME Settled, NothingHeld PROVE Queue = <<>> /\ \A t \in Tags : ~Ends(t)
  <2>1. Queue = <<>> /\ Len(Queue) = 0
    BY <1>1 DEF Settled, Queue
  <2>2. \A t \in Tags : world[t].told = {}
    BY <1>1 DEF NothingHeld, WorldInv
  <2> QED BY <2>1, <2>2 DEF Ends, Holds
<1>2. ASSUME Settled, NothingHeld, missed = {} PROVE ~down.on /\ drag = NoDrag /\ (dragging => orphaned)
  <2>1. ~down.on
    BY <1>1, <1>2 DEF DownInv
  <2>2. drag.tag = None
    BY <1>1, <1>2 DEF DragInv, TypeOK
  <2>3. drag = NoDrag /\ ~drag.on
    BY <2>2 DEF DragInv, NoDrag
  <2> QED BY <2>1, <2>3 DEF DragInv
<1>3. ASSUME Is("ios"), Settled, NothingHeld PROVE ~over.on /\ ~dwell.on /\ ~dwell.armed
  BY <1>1, <1>3 DEF HoverInv, Settled
<1> QED BY <1>2, <1>3 DEF GesturesEnd, PressEnds, NothingHovers, DragInv

\* What a callback may push.  What the view was holding it still holds, or its end is pushed; a press that a recognizer
\* takes, and a touch's move, are of a pointer held from now on; the press's was not held, and there is one at most.
Fair(tag, es) ==
    /\ \A t \in Tags : Holds(t) => Holds(t)' \/ \E j \in 1 .. Len(es) : Frees(es[j], t)
    /\ \A i \in 1 .. Len(es) : Grabs(es[i]) \/ (Is("ios") /\ es[i].kind = "Move") =>
          es[i].tag \in Tags /\ Holds(es[i].tag)'
    /\ \A i \in 1 .. Len(es) : Grabs(es[i]) => ~Holds(es[i].tag)
    /\ \A i, j \in 1 .. Len(es) : Grabs(es[i]) /\ Grabs(es[j]) => i = j
    /\ tag \in Tags \/ \A i \in 1 .. Len(es) : es[i].kind # "Down"

\* And a finger's: it is among the held pointers from its press on.
Touched(tag, es) ==
    /\ \A i \in 1 .. Len(es) : es[i].kind \notin {"Lost", "Enter", "Exit"}
    /\ \A t \in Tags : Holds(t)' =>
          \/ Holds(t) /\ (t # tag \/ ~Lifts(es))
          \/ t = tag /\ ~Lifts(es) /\ \E i \in 1 .. Len(es) : es[i].kind = "Down"

LEMMA PushKeeps ==
    ASSUME InputInv, NEW tag, NEW es \in Seq(Pushed), push(tag, es), Fair(tag, es), Is("ios") => Touched(tag, es),
           captured' \in BOOLEAN, WorldInv',
           world' \in [Tags -> [at : Places \cup {"away"}, buttons : SUBSET Buttons, told : SUBSET Buttons]],
           binder' \in [left : Places \cup {None}, right : Places \cup {None}, mouseIn : BOOLEAN]
    PROVE  InputInv'
<1> USE DEF InputInv, InputTyped
<1>u. /\ ~drawing /\ drawing' = drawing /\ list' = list /\ held' = held /\ view' = view /\ uses' = uses /\ slop' = slop
      /\ over' = over /\ down' = down /\ dwell' = dwell /\ drag' = drag /\ missed' = missed /\ dragging' = dragging
      /\ orphaned' = orphaned /\ twice' = twice /\ events' = events \o es
      /\ Len(events) + Len(es) <= MaxEvents[view]
  BY DEF push, frame, recognizers, ghosts
<1>1. /\ events' \in Seq(Pushed) /\ Len(events') = Len(events) + Len(es) /\ Len(events) \in Nat /\ Len(es) \in Nat
      /\ \A i \in 1 .. Len(events) : events'[i] = events[i]
      /\ \A i \in 1 .. Len(es) : events'[Len(events) + i] = es[i]
  BY <1>u, ConcatProperties
<1> DEFINE n == Len(Queue) m == Len(es)
<1>2. /\ n \in Nat /\ m \in Nat /\ Len(Queue') = n + m
      /\ \A i \in 1 .. n : Queue'[i] = Queue[i]
      /\ \A i \in 1 .. m : Queue'[n + i] = es[i]
      /\ \A i \in 1 .. n + m : i \notin 1 .. n => i - n \in 1 .. m /\ i = n + (i - n) /\ Queue'[i] = es[i - n]
  <2>1. /\ n \in Nat /\ m \in Nat /\ Len(Queue') = n + m
        /\ \A i \in 1 .. n : Queue'[i] = Queue[i]
        /\ \A i \in 1 .. m : Queue'[n + i] = es[i]
    BY <1>u, <1>1 DEF Queue
  <2> HIDE DEF n, m
  <2>2. \A i \in 1 .. n + m : i \notin 1 .. n => i - n \in 1 .. m /\ i = n + (i - n)
    BY <2>1
  <2> QED BY <2>1, <2>2
<1>3. n = Len(Queue)
  OBVIOUS
<1>q. Is("ios")' = Is("ios")
  BY <1>u DEF Is
<1>f. /\ \A t \in Tags : Holds(t) => Holds(t)' \/ \E j \in 1 .. m : Frees(es[j], t)
      /\ \A i \in 1 .. m : Grabs(es[i]) \/ (Is("ios") /\ es[i].kind = "Move") => es[i].tag \in Tags /\ Holds(es[i].tag)'
      /\ \A i \in 1 .. m : Grabs(es[i]) => ~Holds(es[i].tag)
      /\ \A i, j \in 1 .. m : Grabs(es[i]) /\ Grabs(es[j]) => i = j
      /\ tag \in Tags \/ \A i \in 1 .. m : es[i].kind # "Down"
  BY DEF Fair
<1> HIDE DEF n, m
\* What was freed, or held, is.
<1>4. ASSUME NEW t \in Tags, NEW a \in Nat, Holds(t) \/ \E j \in a + 1 .. n : Frees(Queue[j], t), a <= n
      PROVE  Holds(t)' \/ \E j \in a + 1 .. n + m : Frees(Queue'[j], t)
  <2>1. CASE Holds(t)
    <3>1. SUFFICES ASSUME NEW j \in 1 .. m, Frees(es[j], t) PROVE \E k \in a + 1 .. n + m : Frees(Queue'[k], t)
      BY <2>1, <1>f
    <3>2. n + j \in a + 1 .. n + m
      BY <1>2, <1>4
    <3> QED BY <3>1, <3>2, <1>2
  <2>2. CASE \E j \in a + 1 .. n : Frees(Queue[j], t)
    <3>1. PICK j \in a + 1 .. n : Frees(Queue[j], t)
      BY <2>2
    <3>2. j \in 1 .. n /\ j \in a + 1 .. n + m
      BY <1>2, <1>4
    <3> QED BY <3>1, <3>2, <1>2
  <2> QED BY <2>1, <2>2, <1>4
<1>5. ASSUME NEW t \in Tags, Ends(t) PROVE Ends(t)'
  <2>1. Holds(t) \/ \E j \in 0 + 1 .. n : Frees(Queue[j], t)
    BY <1>5, <1>3 DEF Ends
  <2>a. 0 \in Nat /\ 0 <= n
    BY <1>2
  <2>2. Holds(t)' \/ \E j \in 0 + 1 .. n + m : Frees(Queue'[j], t)
    BY <2>1, <2>a, <1>4, Zenon
  <2> QED BY <2>2, <1>2 DEF Ends
<1>6. TypeOK' /\ InputTyped'
  <2>1. pointerOrigins' \subseteq [tag : Tags, pos : Places]
    <3>1. Presses(es, tag) \subseteq [tag : Tags, pos : Places]
      BY <1>f DEF Presses, m
    <3> QED BY <3>1 DEF push, TypeOK
  <2> QED BY <2>1, <1>u, <1>1, Zenon DEF TypeOK
<1>7. QueueInv'
  <2>1. ASSUME NEW i \in 1 .. n + m, Grabs(Queue'[i]) \/ (Is("ios") /\ Queue'[i].kind = "Move")
        PROVE  \E t \in Tags : /\ t = Queue'[i].tag
                               /\ Holds(t)' \/ \E j \in i + 1 .. n + m : Frees(Queue'[j], t)
    <3>1. CASE i \in 1 .. n
      <4>1. Queue'[i] = Queue[i]
        BY <3>1, <1>2
      <4>2. Queue[i].tag \in Tags /\ (Holds(Queue[i].tag) \/ \E j \in i + 1 .. n : Frees(Queue[j], Queue[i].tag))
        BY <2>1, <3>1, <4>1, <1>3 DEF QueueInv
      <4>3. i \in Nat /\ i <= n
        BY <3>1, <1>2
      <4>4. PICK t \in Tags : t = Queue[i].tag
        BY <4>2
      <4>5. Holds(t) \/ \E j \in i + 1 .. n : Frees(Queue[j], t)
        BY <4>2, <4>4
      <4>6. Holds(t)' \/ \E j \in i + 1 .. n + m : Frees(Queue'[j], t)
        BY <4>3, <4>5, <1>4
      <4> QED BY <4>1, <4>4, <4>6
    <3>2. CASE i \notin 1 .. n
      <4>1. PICK k \in 1 .. m : Queue'[i] = es[k]
        BY <3>2, <1>2
      <4>2. es[k].tag \in Tags /\ Holds(es[k].tag)'
        BY <4>1, <2>1, <1>f
      <4> QED BY <4>1, <4>2
    <3> QED BY <3>1, <3>2
  <2>2. ASSUME NEW i \in 1 .. n + m, NEW j \in 1 .. n + m, i < j, Grabs(Queue'[i]), Grabs(Queue'[j]),
               Queue'[i].tag = Queue'[j].tag
        PROVE  \E k \in i + 1 .. j - 1 : Frees(Queue'[k], Queue'[i].tag)
    <3>1. CASE j \in 1 .. n
      <4>1. i \in 1 .. n /\ Queue'[i] = Queue[i] /\ Queue'[j] = Queue[j]
        BY <3>1, <2>2, <1>2
      <4>2. PICK k \in i + 1 .. j - 1 : Frees(Queue[k], Queue[i].tag)
        BY <4>1, <3>1, <2>2, <1>3 DEF QueueInv
      <4>3. k \in 1 .. n
        BY <4>1, <3>1, <1>2
      <4> QED BY <4>1, <4>2, <4>3, <1>2
    <3>2. CASE j \notin 1 .. n /\ i \in 1 .. n
      <4>1. Queue'[i] = Queue[i] /\ Queue'[j] = es[j - n] /\ j - n \in 1 .. m
        BY <3>2, <1>2
      <4>2. ~Holds(Queue[i].tag)
        BY <4>1, <2>2, <1>f
      <4>3. PICK k \in i + 1 .. n : Frees(Queue[k], Queue[i].tag)
        BY <4>1, <4>2, <2>2, <3>2, <1>3 DEF QueueInv
      <4>4. k \in 1 .. n /\ k \in i + 1 .. j - 1
        BY <3>2, <1>2
      <4> QED BY <4>1, <4>3, <4>4, <1>2
    <3>3. CASE j \notin 1 .. n /\ i \notin 1 .. n
      <4>1. i - n = j - n
        BY <3>3, <2>2, <1>2, <1>f
      <4> QED BY <4>1, <2>2, <1>2
    <3> QED BY <3>1, <3>2, <3>3
  <2>3. Is("ios") => missed' = {} /\ \A i \in 1 .. n + m : Queue'[i].kind \notin {"Lost", "Enter", "Exit"}
    <3> SUFFICES ASSUME Is("ios") PROVE missed' = {} /\ \A i \in 1 .. n + m : Queue'[i].kind \notin {"Lost", "Enter", "Exit"}
      OBVIOUS
    <3>1. missed' = {} /\ \A i \in 1 .. n : Queue[i].kind \notin {"Lost", "Enter", "Exit"}
      BY <1>3, <1>u DEF QueueInv
    <3>2. \A i \in 1 .. m : es[i].kind \notin {"Lost", "Enter", "Exit"}
      BY DEF Touched, m
    <3> QED BY <3>1, <3>2, <1>2
  <2>4. Len(Queue') = n + m
    BY <1>2
  <2>5. \A i \in 1 .. n + m : Grabs(Queue'[i]) \/ (Is("ios") /\ Queue'[i].kind = "Move") =>
          /\ Queue'[i].tag \in Tags
          /\ (Holds(Queue[i].tag) \/ \E j \in i + 1 .. Len(Queue) : Frees(Queue[j], Queue[i].tag))'
    BY <2>1, <2>4
  <2> HIDE DEF Queue
  <2> QED BY <2>2, <2>3, <2>4, <2>5, <1>q DEF QueueInv
<1>8. DragInv'
  <2>1. ASSUME drag.tag # None PROVE drag.tag \in missed \/ Ends(drag.tag)'
    <3>1. PICK t \in Tags : t = drag.tag /\ (t \in missed \/ Ends(t))
      BY <2>1 DEF DragInv, TypeOK
    <3>2. t \in missed \/ Ends(t)'
      BY <3>1, <1>5
    <3> QED BY <3>1, <3>2, <1>u
  <2>2. ASSUME drag.tag # None, NEW j \in 1 .. n + m, Grabs(Queue'[j]), Queue'[j].tag = drag.tag
        PROVE  drag.tag \in missed \/ \E k \in 1 .. j - 1 : Frees(Queue'[k], drag.tag)
    <3>1. CASE j \in 1 .. n
      <4>1. Queue'[j] = Queue[j]
        BY <3>1, <1>2
      <4>2. drag.tag \in missed \/ \E k \in 1 .. j - 1 : Frees(Queue[k], drag.tag)
        BY <4>1, <3>1, <2>2, <1>3 DEF DragInv
      <4>3. \A k \in 1 .. j - 1 : k \in 1 .. n
        BY <3>1, <1>2
      <4> QED BY <4>2, <4>3, <1>2
    <3>2. CASE j \notin 1 .. n
      <4>1. j - n \in 1 .. m /\ Queue'[j] = es[j - n]
        BY <3>2, <1>2
      <4>a. ~Holds(drag.tag)
        BY <4>1, <2>2, <1>f
      <4>2. drag.tag \in missed \/ \E k \in 1 .. n : Frees(Queue[k], drag.tag)
        BY <4>a, <2>2, <1>3 DEF DragInv, Ends
      <4>3. \A k \in 1 .. n : k \in 1 .. j - 1
        BY <3>2, <1>2
      <4> QED BY <4>2, <4>3, <1>2
    <3> QED BY <3>1, <3>2
  <2> QED BY <2>1, <2>2, <1>2, <1>u DEF DragInv
<1>9. DownInv'
  BY <1>5, <1>u DEF DownInv
<1>10. HoverInv'
  <2> SUFFICES ASSUME Is("ios") PROVE HoverInv'
    BY <1>q DEF HoverInv
  <2>1. ASSUME NEW t \in Tags, Holds(t)' PROVE \E o \in pointerOrigins' : o.tag = t
    <3>1. CASE Holds(t) /\ (t # tag \/ ~Lifts(es))
      <4>1. PICK o \in pointerOrigins : o.tag = t
        BY <3>1 DEF HoverInv
      <4> QED BY <3>1, <4>1 DEF push
    <3>2. CASE t = tag /\ ~Lifts(es) /\ \E i \in 1 .. Len(es) : es[i].kind = "Down"
      <4>1. PICK i \in 1 .. Len(es) : es[i].kind = "Down"
        BY <3>2
      <4>2. es[i] \in Pushed
        BY <4>1
      <4>3. [tag |-> tag, pos |-> es[i].pos] \in Presses(es, tag)
        BY <4>1, <4>2 DEF Presses, Pushed
      <4> QED BY <3>2, <4>3 DEF push
    <3> QED BY <2>1, <3>1, <3>2 DEF Touched
  <2>2. ASSUME over.on PROVE over.tag \in Tags /\ Ends(over.tag)'
    <3>1. PICK t \in Tags : t = over.tag /\ Ends(t)
      BY <2>2 DEF HoverInv
    <3>2. Ends(t)'
      BY <3>1, <1>5
    <3> QED BY <3>1, <3>2, <1>u
  <2> QED BY <2>1, <2>2, <1>u, <1>q DEF HoverInv
<1> QED BY <1>6, <1>7, <1>8, <1>9, <1>10

\* The sequences a callback pushes, by what is in them.
Has(es, e) == \E i \in 1 .. Len(es) : es[i] = e

LEMMA HasOne ==
    ASSUME NEW a \in Pushed
    PROVE  <<a>> \in Seq(Pushed) /\ (\A e : Has(<<a>>, e) <=> e = a) /\ Len(<<a>>) = 1 /\ <<a>>[1] = a
BY DEF Has

LEMMA HasNone == <<>> \in Seq(Pushed) /\ \A e : ~Has(<<>>, e)
BY DEF Has

LEMMA HasBoth ==
    ASSUME NEW s \in Seq(Pushed), NEW r \in Seq(Pushed)
    PROVE  s \o r \in Seq(Pushed) /\ \A e : Has(s \o r, e) <=> Has(s, e) \/ Has(r, e)
<1>1. /\ s \o r \in Seq(Pushed) /\ Len(s \o r) = Len(s) + Len(r) /\ Len(s) \in Nat /\ Len(r) \in Nat
      /\ \A i \in 1 .. Len(s) : (s \o r)[i] = s[i]
      /\ \A i \in 1 .. Len(r) : (s \o r)[Len(s) + i] = r[i]
  BY ConcatProperties
<1>2. ASSUME NEW e, Has(s, e) PROVE Has(s \o r, e)
  BY <1>1, <1>2 DEF Has
<1>3. ASSUME NEW e, Has(r, e) PROVE Has(s \o r, e)
  <2>1. PICK i \in 1 .. Len(r) : r[i] = e
    BY <1>3 DEF Has
  <2>2. Len(s) + i \in 1 .. Len(s) + Len(r)
    BY <1>1
  <2> QED BY <1>1, <2>1, <2>2 DEF Has
<1>4. ASSUME NEW e, Has(s \o r, e) PROVE Has(s, e) \/ Has(r, e)
  <2>1. PICK i \in 1 .. Len(s) + Len(r) : (s \o r)[i] = e
    BY <1>1, <1>4 DEF Has
  <2>2. CASE i \in 1 .. Len(s)
    BY <1>1, <2>1, <2>2 DEF Has
  <2>3. CASE i \notin 1 .. Len(s)
    <3>1. i - Len(s) \in 1 .. Len(r) /\ i = Len(s) + (i - Len(s))
      BY <1>1, <2>3
    <3>2. (s \o r)[i] = r[i - Len(s)]
      BY <1>1, <3>1, Zenon
    <3> QED BY <2>1, <3>1, <3>2 DEF Has
  <2> QED BY <2>2, <2>3
<1> QED BY <1>1, <1>2, <1>3, <1>4

LEMMA EventTyped ==
    ASSUME NEW k \in {"Move", "Enter", "Exit", "Down", "Up", "Cancel", "Click", "Lost"}, NEW t \in Tags \cup {None},
           NEW p \in Places, NEW b \in Buttons \cup {None}
    PROVE  /\ Event(k, t, p) \in Pushed /\ Event(k, t, p).kind = k /\ Event(k, t, p).tag = t
           /\ Pressing(k, t, b, p) \in Pushed /\ Pressing(k, t, b, p).kind = k /\ Pressing(k, t, b, p).tag = t
           /\ Pressing(k, t, b, p).button = b
BY DEF Event, Pressing, Pushed

WorldTyped == world \in [Tags -> [at : Places \cup {"away"}, buttons : SUBSET Buttons, told : SUBSET Buttons]]
BinderTyped == binder \in [left : Places \cup {None}, right : Places \cup {None}, mouseIn : BOOLEAN]

\* A callback of a desktop or a page that pushes no press.
LEMMA QuietKeeps ==
    ASSUME InputInv, ~Is("ios"), NEW tag, NEW es \in Seq(Pushed), push(tag, es),
           captured' \in BOOLEAN, WorldInv', WorldTyped', BinderTyped',
           \A e : Has(es, e) => e.kind # "Down",
           \A t \in Tags : Holds(t) => Holds(t)' \/ \E e : Has(es, e) /\ Frees(e, t)
    PROVE  InputInv'
<1>1. \A i \in 1 .. Len(es) : Has(es, es[i])
  BY DEF Has
<1>2. \A t \in Tags : Holds(t) => Holds(t)' \/ \E j \in 1 .. Len(es) : Frees(es[j], t)
  BY DEF Has
<1>3. Fair(tag, es)
  BY <1>1, <1>2 DEF Fair, Grabs
<1> QED BY <1>3, PushKeeps DEF WorldTyped, BinderTyped

\* And one that pushes one, of a pointer that was not held.
LEMMA PressKeeps ==
    ASSUME InputInv, ~Is("ios"), NEW tag \in Tags, NEW s \in Seq(Pushed), NEW d \in Pushed, push(tag, s \o <<d>>),
           captured' \in BOOLEAN, WorldInv', WorldTyped', BinderTyped',
           \A e : Has(s, e) => e.kind # "Down", d.tag = tag,
           Grabs(d) => ~Holds(tag) /\ Holds(tag)',
           \A t \in Tags : Holds(t) => Holds(t)'
    PROVE  InputInv'
<1> DEFINE es == s \o <<d>>
<1>1. /\ es \in Seq(Pushed) /\ Len(es) = Len(s) + 1 /\ Len(s) \in Nat
      /\ \A i \in 1 .. Len(s) : es[i] = s[i]
      /\ es[Len(s) + 1] = d
  BY ConcatProperties, HasOne
<1>2. \A i \in 1 .. Len(s) : Has(s, s[i])
  BY DEF Has
<1> HIDE DEF es
<1>3. \A i \in 1 .. Len(es) : Grabs(es[i]) => i = Len(s) + 1 /\ es[i] = d
  <2> SUFFICES ASSUME NEW i \in 1 .. Len(es), Grabs(es[i]) PROVE i = Len(s) + 1 /\ es[i] = d
    OBVIOUS
  <2>1. i \notin 1 .. Len(s)
    BY <1>1, <1>2 DEF Grabs
  <2> QED BY <1>1, <2>1
<1>4. Fair(tag, es)
  BY <1>1, <1>3 DEF Fair
<1> QED BY <1>1, <1>4, PushKeeps DEF WorldTyped, BinderTyped, es

\* Where a pointer is does not say what it holds.
LEMMA AtKeeps ==
    ASSUME InputInv, NEW t \in Tags, NEW p \in Places \cup {"away"}, world' = At(t, p), view' = view
    PROVE  /\ WorldTyped' /\ (\A s \in Tags : Holds(s)' = Holds(s))
           /\ (Is("ios") => (p = "away" <=> world[t].at = "away")) => WorldInv'
<1>1. WorldTyped /\ WorldInv
  BY DEF InputInv, InputTyped, TypeOK, WorldTyped
<1>2. WorldTyped'
  BY <1>1 DEF WorldTyped, At
<1>3. \A s \in Tags : /\ world'[s].told = world[s].told /\ world'[s].buttons = world[s].buttons
                      /\ s # t => world'[s].at = world[s].at
                      /\ s = t => world'[s].at = p
  BY <1>1 DEF WorldTyped, At
<1>4. (\A s \in Tags : Holds(s)' = Holds(s))
  BY <1>3 DEF Holds, Is
<1>5. ASSUME Is("ios") => (p = "away" <=> world[t].at = "away") PROVE WorldInv'
  BY <1>1, <1>3, <1>5 DEF WorldInv, Is
<1> QED BY <1>2, <1>4, <1>5

LEMMA KeepsView == ASSUME NEW t, NEW es, push(t, es) PROVE view' = view /\ \A v : Is(v)' = Is(v)
BY DEF push, Is

LEMMA WinMouseMoveKeeps ==
    ASSUME InputInv, NEW p \in Places \cup {"away"}, WinMouseMove(p)
    PROVE  InputInv'
<1>1. Mouse \in Tags /\ world' = At(Mouse, p) /\ captured' = captured /\ captured \in BOOLEAN /\ ~Is("ios") /\ BinderTyped
  BY DEF WinMouseMove, Tags, InputInv, InputTyped, TypeOK, Is, BinderTyped
<1> DEFINE q == IF p = "away" THEN "out" ELSE p
           full == Enters(Mouse, q) \o <<Event("Move", Mouse, q)>>
<1>2. full \in Seq(Pushed) /\ \A e : Has(full, e) => e.kind # "Down"
  <2>1. q \in Places
    BY DEF Places
  <2>2. /\ Event("Move", Mouse, q) \in Pushed /\ Event("Move", Mouse, q).kind = "Move"
        /\ Event("Enter", Mouse, q) \in Pushed /\ Event("Enter", Mouse, q).kind = "Enter"
    BY <1>1, <2>1, EventTyped
  <2>3. Enters(Mouse, q) \in Seq(Pushed) /\ \A e : Has(Enters(Mouse, q), e) => e.kind = "Enter"
    BY <2>2, HasOne, HasNone DEF Enters
  <2>4. /\ <<Event("Move", Mouse, q)>> \in Seq(Pushed)
        /\ \A e : Has(<<Event("Move", Mouse, q)>>, e) <=> e = Event("Move", Mouse, q)
    BY <2>2, HasOne, Zenon
  <2>5. full \in Seq(Pushed) /\ \A e : Has(full, e) <=> Has(Enters(Mouse, q), e) \/ Has(<<Event("Move", Mouse, q)>>, e)
    BY <2>3, <2>4, HasBoth, Zenon
  <2> HIDE DEF full
  <2> QED BY <2>2, <2>3, <2>4, <2>5, Zenon
<1>3. PICK es \in Seq(Pushed) : push(Mouse, es) /\ BinderTyped' /\ \A e : Has(es, e) => e.kind # "Down"
  <2>1. CASE captured \/ p # "away"
    <3>1. push(Mouse, full) /\ binder' = [binder EXCEPT !.mouseIn = TRUE]
      BY <2>1 DEF WinMouseMove
    <3>2. BinderTyped'
      BY <1>1, <3>1 DEF BinderTyped
    <3> HIDE DEF full
    <3> QED BY <1>2, <3>1, <3>2
  <2>2. CASE ~(captured \/ p # "away")
    <3>1. push(Mouse, <<>>) /\ binder' = binder
      BY <2>2 DEF WinMouseMove
    <3> QED BY <1>1, <3>1, HasNone DEF BinderTyped
  <2> QED BY <2>1, <2>2
<1>4. view' = view
  BY <1>3, KeepsView
<1>5. WorldTyped' /\ WorldInv' /\ \A s \in Tags : Holds(s)' = Holds(s)
  BY <1>1, <1>4, AtKeeps
<1> QED BY <1>1, <1>3, <1>5, QuietKeeps

LEMMA HasThen ==
    ASSUME NEW a \in Pushed, NEW b \in Pushed, NEW c
    PROVE  /\ <<a>> \o (IF c THEN <<b>> ELSE <<>>) \in Seq(Pushed)
           /\ Has(<<a>> \o (IF c THEN <<b>> ELSE <<>>), a)
           /\ \A e : Has(<<a>> \o (IF c THEN <<b>> ELSE <<>>), e) => e = a \/ e = b
<1> DEFINE s == IF c THEN <<b>> ELSE <<>>
<1>1. s \in Seq(Pushed) /\ \A e : Has(s, e) => e = b
  BY HasOne, HasNone
<1>2. <<a>> \in Seq(Pushed) /\ \A e : Has(<<a>>, e) <=> e = a
  BY HasOne, Zenon
<1> HIDE DEF s
<1>3. <<a>> \o s \in Seq(Pushed) /\ \A e : Has(<<a>> \o s, e) <=> Has(<<a>>, e) \/ Has(s, e)
  BY <1>1, <1>2, HasBoth, Zenon
<1>4. <<a>> \o s \in Seq(Pushed) /\ Has(<<a>> \o s, a) /\ \A e : Has(<<a>> \o s, e) => e = a \/ e = b
  BY <1>1, <1>2, <1>3, Zenon
<1> QED BY <1>4 DEF s

\* A button of the desktop's mouse goes down, heard or not, and up.
LEMMA PressedKeeps ==
    ASSUME InputInv, Is("win") \/ Is("mac"), NEW t \in Tags, NEW b \in Buttons, NEW hears \in BOOLEAN,
           Pressed(t, b, hears), view' = view
    PROVE  /\ WorldTyped' /\ WorldInv' /\ (\A s \in Tags : Holds(s) => Holds(s)')
           /\ hears /\ b = "left" => Holds(t)'
<1>1. WorldTyped /\ WorldInv /\ ~Is("web") /\ ~Is("ios") /\ ~Is("web")' /\ ~Is("ios")'
  BY DEF InputInv, InputTyped, TypeOK, WorldTyped, Is
<1>2. WorldTyped'
  BY <1>1 DEF WorldTyped, Pressed
<1>3. \A s \in Tags : /\ world'[s].buttons = IF s = t THEN world[s].buttons \cup {b} ELSE world[s].buttons
                      /\ world'[s].told = IF s = t /\ hears THEN world[s].told \cup {b} ELSE world[s].told
  BY <1>1 DEF WorldTyped, Pressed
<1>4. WorldInv'
  BY <1>1, <1>3 DEF WorldInv
<1> QED BY <1>1, <1>2, <1>3, <1>4 DEF Holds

LEMMA LiftedKeeps ==
    ASSUME InputInv, ~Is("ios"), NEW t \in Tags, NEW b \in Buttons, Lifted(t, b), view' = view
    PROVE  /\ WorldTyped' /\ WorldInv' /\ (\A s \in Tags : s # t /\ Holds(s) => Holds(s)')
           /\ Is("web") /\ world[t].buttons # {b} /\ Holds(t) => Holds(t)'
           /\ ~Is("web") /\ "left" \in world[t].told /\ b # "left" => Holds(t)'
<1>1. WorldTyped /\ WorldInv /\ Is("web")' = Is("web") /\ ~Is("ios")'
  BY DEF InputInv, InputTyped, TypeOK, WorldTyped, Is
<1>2. WorldTyped'
  BY <1>1 DEF WorldTyped, Lifted
<1>3. \A s \in Tags : /\ world'[s].buttons = IF s = t THEN world[s].buttons \ {b} ELSE world[s].buttons
                      /\ world'[s].told = IF s = t THEN world[s].told \ {b} ELSE world[s].told
  BY <1>1 DEF WorldTyped, Lifted
<1>4. WorldInv'
  BY <1>1, <1>3 DEF WorldInv
<1>5. Is("web") /\ world[t].buttons # {b} /\ Holds(t) => Holds(t)'
  BY <1>1, <1>3 DEF Holds, WorldInv
<1> QED BY <1>1, <1>2, <1>3, <1>4, <1>5 DEF Holds

LEMMA PlaceIn == ASSUME InputInv, NEW t \in Tags PROVE Place(t) \in Places
<1>1. world[t].at \in Places \cup {"away"}
  BY DEF InputInv, InputTyped, TypeOK
<1> QED BY <1>1 DEF Place, Places

LEMMA WinButtonDownKeeps ==
    ASSUME InputInv, NEW b \in Buttons, NEW double \in BOOLEAN, WinButtonDown(b, double)
    PROVE  InputInv'
<1> DEFINE d == Pressing("Down", Mouse, b, Place(Mouse))
<1>1. /\ Mouse \in Tags /\ Is("win") /\ ~Is("ios") /\ ~Is("web") /\ captured \in BOOLEAN /\ BinderTyped
      /\ b \notin world[Mouse].buttons /\ Pressed(Mouse, b, Hears) /\ WorldInv
  BY DEF WinButtonDown, Tags, InputInv, InputTyped, TypeOK, Is, BinderTyped
<1>2. Hears \in BOOLEAN
  BY <1>1 DEF Hears
<1>3. Place(Mouse) \in Places /\ d \in Pushed /\ d.kind = "Down" /\ d.tag = Mouse /\ d.button = b
  BY <1>1, PlaceIn, EventTyped
<1>4. "left" \notin world[Mouse].told \/ b # "left"
  BY <1>1 DEF WorldInv
<1> HIDE DEF d
<1>5. CASE Hears
  <2>1. push(Mouse, <<d>>) /\ binder' = [binder EXCEPT ![b] = Place(Mouse)] /\ captured' = (captured \/ ~double)
    BY <1>5 DEF WinButtonDown, d
  <2>2. view' = view /\ captured' \in BOOLEAN /\ BinderTyped'
    <3>1. BinderTyped'
      BY <1>1, <1>3, <2>1 DEF BinderTyped, Buttons
    <3> QED BY <1>1, <2>1, <3>1, KeepsView, Zenon
  <2>3. /\ WorldTyped' /\ WorldInv' /\ (\A s \in Tags : Holds(s) => Holds(s)')
        /\ b = "left" => Holds(Mouse)'
    BY <1>1, <1>2, <1>5, <2>2, PressedKeeps
  <2>4. Grabs(d) => ~Holds(Mouse) /\ Holds(Mouse)'
    BY <1>1, <1>3, <1>4, <2>3 DEF Grabs, Holds
  <2>5. <<>> \in Seq(Pushed) /\ push(Mouse, <<>> \o <<d>>) /\ \A e : Has(<<>>, e) => e.kind # "Down"
    <3>1. <<>> \o <<d>> = <<d>>
      BY <1>3
    <3> QED BY <2>1, <3>1, HasNone
  <2> QED BY <1>1, <1>3, <2>2, <2>3, <2>4, <2>5, PressKeeps
<1>6. CASE ~Hears
  <2>1. push(Mouse, <<>>) /\ binder' = binder /\ captured' = captured
    BY <1>6 DEF WinButtonDown
  <2>2. view' = view
    BY <2>1, KeepsView
  <2>3. WorldTyped' /\ WorldInv' /\ (\A s \in Tags : Holds(s) => Holds(s)')
    BY <1>1, <1>2, <2>2, PressedKeeps
  <2>4. BinderTyped'
    BY <1>1, <2>1 DEF BinderTyped
  <2> QED BY <1>1, <2>1, <2>3, <2>4, HasNone, QuietKeeps
<1> QED BY <1>5, <1>6

LEMMA WinButtonUpKeeps ==
    ASSUME InputInv, NEW b \in Buttons, WinButtonUp(b)
    PROVE  InputInv'
<1> DEFINE p == Place(Mouse)
           u == Pressing("Up", Mouse, b, p)
           c == Pressing("Click", Mouse, b, p)
           l == Pressing("Lost", Mouse, b, p)
<1>1. /\ Mouse \in Tags /\ Is("win") /\ ~Is("ios") /\ ~Is("web") /\ captured \in BOOLEAN /\ BinderTyped
      /\ Lifted(Mouse, b)
  BY DEF WinButtonUp, Tags, InputInv, InputTyped, TypeOK, Is, BinderTyped
<1>2. /\ u \in Pushed /\ u.kind = "Up" /\ u.tag = Mouse /\ c \in Pushed /\ c.kind = "Click"
      /\ l \in Pushed /\ l.kind = "Lost" /\ l.tag = Mouse
  BY <1>1, PlaceIn, EventTyped
<1>3. PICK es \in Seq(Pushed) : /\ push(Mouse, es) /\ captured' \in BOOLEAN /\ BinderTyped'
                                /\ \A e : Has(es, e) => e.kind # "Down"
                                /\ b \in world[Mouse].told => \E e : Has(es, e) /\ Frees(e, Mouse)
  <2>1. CASE Hears
    <3>1. /\ push(Mouse, <<u>> \o (IF binder[b] = p THEN <<c>> ELSE <<>>))
          /\ binder' = [binder EXCEPT ![b] = None] /\ captured' = FALSE
      BY <2>1 DEF WinButtonUp
    <3>2. BinderTyped'
      BY <1>1, <3>1 DEF BinderTyped, Buttons
    <3> HIDE DEF u, c
    <3> DEFINE es == <<u>> \o (IF binder[b] = p THEN <<c>> ELSE <<>>)
    <3>3. es \in Seq(Pushed) /\ Has(es, u) /\ \A e : Has(es, e) => e = u \/ e = c
      BY <1>2, HasThen
    <3>4. push(Mouse, es) /\ Frees(u, Mouse)
      BY <1>2, <3>1 DEF Frees
    <3> HIDE DEF es
    <3> QED BY <1>2, <3>1, <3>2, <3>3, <3>4
  <2>2. CASE ~Hears
    <3>1. push(Mouse, IF b \in world[Mouse].told THEN <<l>> ELSE <<>>) /\ binder' = binder /\ captured' = captured
      BY <2>2 DEF WinButtonUp
    <3>2. BinderTyped'
      BY <1>1, <3>1 DEF BinderTyped
    <3> HIDE DEF l
    <3>3. CASE b \in world[Mouse].told
      <4>1. Frees(l, Mouse)
        BY <1>2 DEF Frees
      <4> QED BY <1>1, <1>2, <3>1, <3>2, <3>3, <4>1, HasOne
    <3>4. CASE b \notin world[Mouse].told
      BY <1>1, <3>1, <3>2, <3>4, HasNone
    <3> QED BY <3>3, <3>4
  <2> QED BY <2>1, <2>2
<1>4. view' = view
  BY <1>3, KeepsView
<1>5. /\ WorldTyped' /\ WorldInv' /\ (\A s \in Tags : s # Mouse /\ Holds(s) => Holds(s)')
      /\ "left" \in world[Mouse].told /\ b # "left" => Holds(Mouse)'
  BY <1>1, <1>4, LiftedKeeps
<1>6. \A s \in Tags : Holds(s) => Holds(s)' \/ \E e : Has(es, e) /\ Frees(e, s)
  BY <1>1, <1>3, <1>5 DEF Holds
<1> QED BY <1>1, <1>3, <1>5, <1>6, QuietKeeps

\* The invariant does not speak of the capture.
LEMMA WinCaptureLostKeeps == InputInv /\ WinCaptureLost => InputInv'
<1> SUFFICES ASSUME InputInv, WinCaptureLost PROVE InputInv'
  OBVIOUS
<1>1. /\ view' = view /\ world' = world /\ binder' = binder /\ events' = events /\ pointerOrigins' = pointerOrigins
      /\ drawing' = drawing /\ list' = list /\ held' = held /\ uses' = uses /\ slop' = slop /\ over' = over
      /\ down' = down /\ dwell' = dwell /\ drag' = drag /\ missed' = missed /\ dragging' = dragging
      /\ orphaned' = orphaned /\ twice' = twice
  BY DEF WinCaptureLost, stream, frame, recognizers, ghosts
<1>2. Queue' = Queue /\ \A v : Is(v)' = Is(v)
  BY <1>1 DEF Queue, Is
<1>3. InputTyped'
  <2>0. captured' \in BOOLEAN
    BY DEF WinCaptureLost
  <2>a. TypeOK
    BY DEF InputInv, InputTyped
  <2>b. view' \in Views /\ captured' \in BOOLEAN /\ slop' \in BOOLEAN
    BY <1>1, <2>0, <2>a, Zenon DEF TypeOK
  <2>1. TypeOK'
    BY <1>1, <2>a, <2>b DEF TypeOK
  <2> QED BY <1>1, <2>1 DEF InputInv, InputTyped
<1>4. WorldInv'
  BY <1>1, <1>2 DEF WorldInv, InputInv
<1>5. \A t : Holds(t)' = Holds(t) /\ Ends(t)' = Ends(t)
  BY <1>1, <1>2 DEF Holds, Ends
<1>6. QueueInv'
  BY <1>1, <1>2, <1>5 DEF QueueInv, InputInv, Holds
<1>7. DragInv'
  BY <1>1, <1>2, <1>5 DEF DragInv, InputInv, Ends, Holds
<1>8. DownInv' /\ HoverInv'
  BY <1>1, <1>2, <1>5 DEF DownInv, HoverInv, InputInv, Ends, Holds
<1> QED BY <1>3, <1>4, <1>6, <1>7, <1>8 DEF InputInv
LEMMA MacMouseKeeps ==
    ASSUME InputInv, NEW p \in Places \cup {"away"}, MacMouse(p)
    PROVE  InputInv'
<1> DEFINE q == IF p = "away" THEN "out" ELSE p
           es == IF world[Mouse].buttons # {} THEN <<Event("Move", Mouse, q)>>
                 ELSE IF p = "away" THEN <<Event("Exit", Mouse, "out")>>
                 ELSE IF world[Mouse].at = "away" THEN <<Event("Enter", Mouse, p)>>
                 ELSE <<Event("Move", Mouse, p)>>
<1>1. /\ Mouse \in Tags /\ world' = At(Mouse, p) /\ captured' = captured /\ captured \in BOOLEAN /\ ~Is("ios")
      /\ push(Mouse, es) /\ BinderTyped /\ binder' = binder
  BY DEF MacMouse, Tags, InputInv, InputTyped, TypeOK, Is, BinderTyped
<1>2. \E k \in {"Move", "Enter", "Exit"}, r \in Places : es = <<Event(k, Mouse, r)>>
  <2>1. q \in Places /\ (p # "away" => p \in Places) /\ "out" \in Places
    BY DEF Places
  <2> HIDE DEF q
  <2> QED BY <2>1
<1>3. es \in Seq(Pushed) /\ \A e : Has(es, e) => e.kind # "Down"
  <2>1. PICK k \in {"Move", "Enter", "Exit"}, r \in Places : es = <<Event(k, Mouse, r)>>
    BY <1>2
  <2>2. Event(k, Mouse, r) \in Pushed /\ Event(k, Mouse, r).kind # "Down"
    BY <1>1, EventTyped
  <2> HIDE DEF es
  <2> QED BY <2>1, <2>2, HasOne
<1> HIDE DEF es
<1>4. view' = view /\ BinderTyped'
  BY <1>1, KeepsView DEF BinderTyped
<1>5. WorldTyped' /\ WorldInv' /\ \A s \in Tags : Holds(s)' = Holds(s)
  BY <1>1, <1>4, AtKeeps
<1> QED BY <1>1, <1>3, <1>4, <1>5, QuietKeeps

LEMMA MacMouseDownKeeps ==
    ASSUME InputInv, NEW b \in Buttons, NEW ctrl \in BOOLEAN, MacMouseDown(b, ctrl)
    PROVE  InputInv'
<1> DEFINE d == Pressing("Down", Mouse, IF ctrl THEN "right" ELSE b, Place(Mouse))
<1>1. /\ Mouse \in Tags /\ Is("mac") /\ ~Is("ios") /\ ~Is("web") /\ captured \in BOOLEAN /\ BinderTyped
      /\ b \notin world[Mouse].buttons /\ Pressed(Mouse, b, TRUE) /\ WorldInv
      /\ captured' = captured /\ binder' = binder /\ push(Mouse, <<d>>)
  BY DEF MacMouseDown, Tags, InputInv, InputTyped, TypeOK, Is, BinderTyped
<1>2. d \in Pushed /\ d.kind = "Down" /\ d.tag = Mouse /\ (d.button = "left" => b = "left")
  <2>1. (IF ctrl THEN "right" ELSE b) \in Buttons \cup {None}
    BY DEF Buttons
  <2> QED BY <1>1, <2>1, PlaceIn, EventTyped
<1> HIDE DEF d
<1>3. view' = view /\ BinderTyped'
  BY <1>1, KeepsView DEF BinderTyped
<1>4. WorldTyped' /\ WorldInv' /\ (\A s \in Tags : Holds(s) => Holds(s)') /\ (b = "left" => Holds(Mouse)')
  BY <1>1, <1>3, PressedKeeps
<1>5. Grabs(d) => ~Holds(Mouse) /\ Holds(Mouse)'
  BY <1>1, <1>2, <1>4 DEF Grabs, Holds, WorldInv
<1>6. <<>> \in Seq(Pushed) /\ push(Mouse, <<>> \o <<d>>) /\ \A e : Has(<<>>, e) => e.kind # "Down"
  <2>1. <<>> \o <<d>> = <<d>>
    BY <1>2
  <2> QED BY <1>1, <2>1, HasNone
<1> QED BY <1>1, <1>2, <1>3, <1>4, <1>5, <1>6, PressKeeps

LEMMA MacMouseUpKeeps ==
    ASSUME InputInv, NEW b \in Buttons, NEW ctrl \in BOOLEAN, NEW clicks \in BOOLEAN, MacMouseUp(b, ctrl, clicks)
    PROVE  InputInv'
<1> DEFINE button == IF ctrl THEN "right" ELSE b
           u == Pressing("Up", Mouse, button, Place(Mouse))
           c == Pressing("Click", Mouse, button, Place(Mouse))
           es == <<u>> \o (IF clicks THEN <<c>> ELSE <<>>)
<1>1. /\ Mouse \in Tags /\ Is("mac") /\ ~Is("ios") /\ ~Is("web") /\ captured \in BOOLEAN /\ BinderTyped
      /\ Lifted(Mouse, b) /\ captured' = captured /\ binder' = binder /\ push(Mouse, es)
  BY DEF MacMouseUp, Tags, InputInv, InputTyped, TypeOK, Is, BinderTyped
<1>2. u \in Pushed /\ u.kind = "Up" /\ u.tag = Mouse /\ c \in Pushed /\ c.kind = "Click"
  <2>1. button \in Buttons \cup {None}
    BY DEF Buttons
  <2> HIDE DEF button
  <2> QED BY <1>1, <2>1, PlaceIn, EventTyped
<1> HIDE DEF u, c
<1>3. es \in Seq(Pushed) /\ Has(es, u) /\ \A e : Has(es, e) => e = u \/ e = c
  BY <1>2, HasThen
<1> HIDE DEF es
<1>4. view' = view /\ BinderTyped'
  BY <1>1, KeepsView DEF BinderTyped
<1>5. WorldTyped' /\ WorldInv' /\ (\A s \in Tags : s # Mouse /\ Holds(s) => Holds(s)')
  BY <1>1, <1>4, LiftedKeeps
<1>6. (\A e : Has(es, e) => e.kind # "Down") /\ \A s \in Tags : Holds(s) => Holds(s)' \/ \E e : Has(es, e) /\ Frees(e, s)
  BY <1>2, <1>3, <1>5 DEF Frees
<1> QED BY <1>1, <1>3, <1>4, <1>5, <1>6, QuietKeeps

\* A callback of a touch pushes one event.
LEMMA TouchKeeps ==
    ASSUME InputInv, Is("ios"), NEW tag, NEW e \in Pushed, push(tag, <<e>>), e.kind \notin {"Lost", "Enter", "Exit"},
           captured' = captured, binder' = binder, WorldInv', WorldTyped',
           \A t \in Tags : Holds(t) => Holds(t)' \/ Frees(e, t),
           Grabs(e) => ~Holds(tag),
           Grabs(e) \/ e.kind = "Move" => e.tag = tag /\ Holds(tag)',
           Grabs(e) \/ e.kind \in {"Move", "Down"} => tag \in Tags,
           \A t \in Tags : Holds(t)' => \/ Holds(t) /\ (t # tag \/ e.kind \notin {"Up", "Cancel"})
                                        \/ t = tag /\ e.kind = "Down"
    PROVE  InputInv'
<1>1. <<e>> \in Seq(Pushed) /\ Len(<<e>>) = 1 /\ \A i \in 1 .. 1 : i = 1 /\ <<e>>[i] = e
  BY HasOne
<1> DEFINE es == <<e>>
<1>2. es \in Seq(Pushed) /\ push(tag, es) /\ Len(es) = 1 /\ es[1] = e /\ 1 \in 1 .. 1 /\ \A i \in 1 .. 1 : i = 1 /\ es[i] = e
  BY <1>1
<1> HIDE DEF es
<1>3. Fair(tag, es)
  BY <1>2 DEF Fair
<1>4. Touched(tag, es)
  BY <1>2 DEF Touched, Lifts
<1>5. captured' \in BOOLEAN /\ BinderTyped'
  BY DEF InputInv, InputTyped, TypeOK, BinderTyped
<1> QED BY <1>2, <1>3, <1>4, <1>5, PushKeeps DEF WorldTyped, BinderTyped

LEMMA FingersIn == ASSUME InputInv, NEW t \in Fingers[view] PROVE t \in Tags
<1>1. view \in Views
  BY DEF InputInv, InputTyped, TypeOK
<1> QED BY <1>1 DEF Tags

LEMMA TouchesBeganKeeps ==
    ASSUME InputInv, NEW t \in Fingers[view], NEW p \in Places, TouchesBegan(t, p)
    PROVE  InputInv'
<1> DEFINE e == Pressing("Down", t, "left", p)
<1>1. /\ t \in Tags /\ Is("ios") /\ ~Is("web") /\ world[t].at = "away" /\ push(t, <<e>>) /\ captured' = captured /\ binder' = binder
      /\ world' = [world EXCEPT ![t] = [at |-> p, buttons |-> {"left"}, told |-> {"left"}]] /\ WorldTyped /\ WorldInv
  BY FingersIn DEF TouchesBegan, InputInv, InputTyped, TypeOK, Is, WorldTyped
<1>2. e \in Pushed /\ e.kind = "Down" /\ e.tag = t /\ e.button = "left"
  BY <1>1, EventTyped DEF Buttons
<1> HIDE DEF e
<1>3. Is("ios")' /\ ~Is("web")'
  BY <1>1, KeepsView
<1>4. WorldTyped'
  BY <1>1 DEF WorldTyped, Buttons
<1>5. \A s \in Tags : world'[s] = IF s = t THEN [at |-> p, buttons |-> {"left"}, told |-> {"left"}] ELSE world[s]
  BY <1>1 DEF WorldTyped
<1>6. WorldInv'
  <2>1. p # "away"
    BY DEF Places
  <2> QED BY <1>1, <1>3, <1>5, <2>1 DEF WorldInv
<1>7. ~Holds(t) /\ Holds(t)' /\ \A s \in Tags : s # t => (Holds(s)' <=> Holds(s))
  BY <1>1, <1>3, <1>5 DEF Holds, WorldInv
<1> QED BY <1>1, <1>2, <1>4, <1>6, <1>7, TouchKeeps

LEMMA TouchesMovedKeeps ==
    ASSUME InputInv, NEW t \in Fingers[view], NEW p \in Places, TouchesMoved(t, p)
    PROVE  InputInv'
<1> DEFINE e == Event("Move", t, p)
<1>1. /\ t \in Tags /\ Is("ios") /\ ~Is("web") /\ world[t].at # "away" /\ push(t, <<e>>) /\ captured' = captured /\ binder' = binder
      /\ world' = At(t, p) /\ WorldInv
  BY FingersIn DEF TouchesMoved, InputInv, InputTyped, TypeOK, Is
<1>2. e \in Pushed /\ e.kind = "Move" /\ e.tag = t
  BY <1>1, EventTyped
<1> HIDE DEF e
<1>3. p # "away"
  BY DEF Places
<1>4. WorldTyped' /\ WorldInv' /\ \A s \in Tags : Holds(s)' = Holds(s)
  BY <1>1, <1>3, KeepsView, AtKeeps
<1>5. Holds(t)
  BY <1>1 DEF Holds, WorldInv
<1> QED BY <1>1, <1>2, <1>4, <1>5, TouchKeeps DEF Grabs

LEMMA TouchesEndedKeeps ==
    ASSUME InputInv, NEW t \in Fingers[view], NEW k \in {"Up", "Cancel"}, TouchesEnded(t, k)
    PROVE  InputInv'
<1> DEFINE e == Pressing(k, t, IF k = "Up" THEN "left" ELSE None, world[t].at)
<1>1. /\ t \in Tags /\ Is("ios") /\ ~Is("web") /\ world[t].at # "away" /\ push(t, <<e>>) /\ captured' = captured /\ binder' = binder
      /\ world' = [world EXCEPT ![t] = Released] /\ WorldTyped /\ WorldInv
  BY FingersIn DEF TouchesEnded, InputInv, InputTyped, TypeOK, Is, WorldTyped
<1>2. e \in Pushed /\ e.kind = k /\ e.tag = t
  <2>1. world[t].at \in Places
    BY <1>1 DEF WorldTyped
  <2>2. (IF k = "Up" THEN "left" ELSE None) \in Buttons \cup {None}
    BY DEF Buttons
  <2> QED BY <1>1, <2>1, <2>2, EventTyped
<1> HIDE DEF e
<1>3. Is("ios")' /\ ~Is("web")'
  BY <1>1, KeepsView
<1>4. WorldTyped'
  BY <1>1 DEF WorldTyped, Released
<1>5. \A s \in Tags : world'[s] = IF s = t THEN Released ELSE world[s]
  BY <1>1 DEF WorldTyped
<1>6. WorldInv'
  BY <1>1, <1>3, <1>5 DEF WorldInv, Released
<1>7. ~Holds(t)' /\ Frees(e, t) /\ \A s \in Tags : s # t => (Holds(s)' <=> Holds(s))
  BY <1>1, <1>2, <1>3, <1>5 DEF Holds, Frees, Released
<1> QED BY <1>1, <1>2, <1>4, <1>6, <1>7, TouchKeeps DEF Grabs

LEMMA HandleTapKeeps ==
    ASSUME InputInv, NEW t \in Fingers[view] \cup {None}, NEW p \in Places, HandleTap(t, p)
    PROVE  InputInv'
<1> DEFINE e == Pressing("Click", t, "left", p)
<1>1. /\ t \in Tags \cup {None} /\ Is("ios") /\ push(t, <<e>>) /\ captured' = captured /\ binder' = binder /\ world' = world
      /\ WorldTyped /\ WorldInv
  BY FingersIn DEF HandleTap, InputInv, InputTyped, TypeOK, WorldTyped
<1>2. e \in Pushed /\ e.kind = "Click"
  BY <1>1, EventTyped DEF Buttons
<1> HIDE DEF e
<1>3. \A v : Is(v)' = Is(v)
  BY <1>1, KeepsView
<1>4. WorldTyped' /\ WorldInv' /\ \A s \in Tags : Holds(s)' = Holds(s)
  BY <1>1, <1>3 DEF WorldTyped, WorldInv, Holds
<1> QED BY <1>1, <1>2, <1>4, TouchKeeps DEF Grabs

LEMMA HandleLongPressKeeps ==
    ASSUME InputInv, NEW t \in Fingers[view], NEW p \in Places, HandleLongPress(t, p)
    PROVE  InputInv'
<1> DEFINE e == Pressing("Down", t, "right", p)
<1>1. /\ t \in Tags /\ Is("ios") /\ push(t, <<e>>) /\ captured' = captured /\ binder' = binder /\ world' = world
      /\ WorldTyped /\ WorldInv /\ world[t].at # "away" /\ ~Is("web")
  BY FingersIn DEF HandleLongPress, InputInv, InputTyped, TypeOK, WorldTyped, Is
<1>2. e \in Pushed /\ e.kind = "Down" /\ e.button = "right" /\ e.tag = t
  BY <1>1, EventTyped DEF Buttons
<1> HIDE DEF e
<1>3. \A v : Is(v)' = Is(v)
  BY <1>1, KeepsView
<1>4. WorldTyped' /\ WorldInv' /\ \A s \in Tags : Holds(s)' = Holds(s)
  BY <1>1, <1>3 DEF WorldTyped, WorldInv, Holds
<1> QED BY <1>1, <1>2, <1>4, TouchKeeps DEF Grabs

LEMMA WebPointerMoveKeeps ==
    ASSUME InputInv, NEW t \in {Mouse} \cup Fingers[view], NEW p \in Places \cup {"away"}, WebPointerMove(t, p)
    PROVE  InputInv'
<1> DEFINE q == IF p = "away" THEN "out" ELSE p
           m == Event("Move", t, q)
           x == Event("Exit", t, q)
           n == Event("Enter", t, q)
           full == Enters(t, q) \o <<m>>
<1>1. /\ t \in Tags /\ world' = At(t, p) /\ captured' = captured /\ captured \in BOOLEAN /\ ~Is("ios") /\ BinderTyped
  BY FingersIn DEF WebPointerMove, Tags, InputInv, InputTyped, TypeOK, Is, BinderTyped
<1>2. /\ m \in Pushed /\ m.kind = "Move" /\ x \in Pushed /\ x.kind = "Exit" /\ n \in Pushed /\ n.kind = "Enter"
  <2>1. q \in Places
    BY DEF Places
  <2> HIDE DEF q
  <2> QED BY <1>1, <2>1, EventTyped
<1>3. Enters(t, q) \in Seq(Pushed) /\ \A e : Has(Enters(t, q), e) => e = n
  <2> HIDE DEF n
  <2>1. Enters(t, q) = IF binder.mouseIn THEN <<>> ELSE <<n>>
    BY DEF Enters, n
  <2> HIDE DEF q
  <2> QED BY <1>2, <2>1, HasOne, HasNone
<1>4. PICK es \in Seq(Pushed) : push(t, es) /\ BinderTyped' /\ \A e : Has(es, e) => e.kind # "Down"
  <2>1. CASE p = "away" /\ world[t].buttons = {}
    <3>1. push(t, <<x>>) /\ binder' = [binder EXCEPT !.mouseIn = FALSE]
      BY <2>1 DEF WebPointerMove
    <3>2. BinderTyped'
      BY <1>1, <3>1 DEF BinderTyped
    <3> HIDE DEF x
    <3> QED BY <1>2, <3>1, <3>2, HasOne
  <2>2. CASE ~(p = "away" /\ world[t].buttons = {})
    <3>1. push(t, full) /\ binder' = [binder EXCEPT !.mouseIn = TRUE]
      BY <2>2 DEF WebPointerMove
    <3>2. BinderTyped'
      BY <1>1, <3>1 DEF BinderTyped
    <3> HIDE DEF m, n, q
    <3>3. <<m>> \in Seq(Pushed) /\ \A e : Has(<<m>>, e) <=> e = m
      BY <1>2, HasOne, Zenon
    <3>4. full \in Seq(Pushed) /\ \A e : Has(full, e) <=> Has(Enters(t, q), e) \/ Has(<<m>>, e)
      BY <1>3, <3>3, HasBoth, Zenon
    <3> HIDE DEF full
    <3>5. \A e : Has(full, e) => e.kind # "Down"
      BY <1>2, <1>3, <3>3, <3>4
    <3> QED BY <3>1, <3>2, <3>4, <3>5
  <2> QED BY <2>1, <2>2
<1>5. view' = view
  BY <1>4, KeepsView
<1>6. WorldTyped' /\ WorldInv' /\ \A s \in Tags : Holds(s)' = Holds(s)
  BY <1>1, <1>5, AtKeeps
<1> QED BY <1>1, <1>4, <1>6, QuietKeeps

LEMMA WebPointerDownKeeps ==
    ASSUME InputInv, NEW t \in {Mouse} \cup Fingers[view], NEW b \in Buttons, NEW p \in Places \cup {"away"},
           WebPointerDown(t, b, p)
    PROVE  InputInv'
<1> DEFINE q == IF p = "away" THEN "out" ELSE p
           d == Pressing("Down", t, b, q)
           m == Event("Move", t, q)
           n == Event("Enter", t, q)
           s == IF t = Mouse THEN <<>> ELSE <<n>>
<1>1. /\ t \in Tags /\ captured' = captured /\ captured \in BOOLEAN /\ Is("web") /\ ~Is("ios") /\ BinderTyped
      /\ WorldTyped /\ WorldInv
      /\ world' = [world EXCEPT ![t].at = p, ![t].buttons = @ \cup {b}, ![t].told = @ \cup {b}]
  BY FingersIn DEF WebPointerDown, Tags, InputInv, InputTyped, TypeOK, Is, BinderTyped, WorldTyped
<1>2. q \in Places
  BY DEF Places
<1>3. /\ d \in Pushed /\ d.kind = "Down" /\ d.tag = t /\ m \in Pushed /\ m.kind = "Move" /\ n \in Pushed /\ n.kind = "Enter"
  <2> HIDE DEF q
  <2> QED BY <1>1, <1>2, EventTyped
<1>4. PICK es : push(t, es)
  BY DEF WebPointerDown
<1>5. Is("web")' /\ ~Is("ios")'
  BY <1>1, <1>4, KeepsView
<1>6. WorldTyped'
  BY <1>1 DEF WorldTyped
<1>7. \A r \in Tags : /\ world'[r].buttons = IF r = t THEN world[r].buttons \cup {b} ELSE world[r].buttons
                      /\ world'[r].told = IF r = t THEN world[r].told \cup {b} ELSE world[r].told
  BY <1>1 DEF WorldTyped
<1>8. WorldInv'
  BY <1>1, <1>5, <1>7 DEF WorldInv
<1>a. Holds(t)' /\ (world[t].buttons = {} => ~Holds(t))
  <2>a. world'[t].told = world[t].told \cup {b}
    BY <1>1, <1>7
  <2>1. b \in world'[t].told
    BY <2>a
  <2> QED BY <1>1, <1>5, <2>1 DEF Holds, WorldInv
<1>b. \A r \in Tags : r # t /\ Holds(r) => Holds(r)'
  BY <1>1, <1>5, <1>7 DEF Holds
<1>9. /\ (\A r \in Tags : Holds(r) => Holds(r)') /\ Holds(t)'
      /\ world[t].buttons = {} => ~Holds(t)
  BY <1>a, <1>b
<1>10. CASE world[t].buttons = {}
  <2>1. push(t, s \o <<d>>) /\ binder' = [binder EXCEPT !.left = IF b = "left" THEN q ELSE @, !.mouseIn = TRUE]
    BY <1>10 DEF WebPointerDown
  <2> HIDE DEF q
  <2>2. BinderTyped'
    BY <1>1, <1>2, <2>1 DEF BinderTyped
  <2> HIDE DEF d, n
  <2>3. s \in Seq(Pushed) /\ \A e : Has(s, e) => e.kind # "Down"
    BY <1>3, HasOne, HasNone
  <2> HIDE DEF s
  <2> QED BY <1>1, <1>3, <1>6, <1>8, <1>9, <1>10, <2>1, <2>2, <2>3, PressKeeps
<1>11. CASE world[t].buttons # {}
  <2>1. push(t, <<m>>) /\ binder' = binder
    BY <1>11 DEF WebPointerDown
  <2>2. BinderTyped'
    BY <1>1, <2>1 DEF BinderTyped
  <2> HIDE DEF m
  <2>3. <<m>> \in Seq(Pushed) /\ \A e : Has(<<m>>, e) => e.kind # "Down"
    BY <1>3, HasOne
  <2> QED BY <1>1, <1>6, <1>8, <1>9, <2>1, <2>2, <2>3, QuietKeeps
<1> QED BY <1>10, <1>11

LEMMA WebPointerUpKeeps ==
    ASSUME InputInv, NEW t \in {Mouse} \cup Fingers[view], NEW b \in Buttons, WebPointerUp(t, b)
    PROVE  InputInv'
<1> DEFINE p == Place(t)
           u == Pressing("Up", t, b, p)
           c == Pressing("Click", t, b, p)
           x == Event("Exit", t, p)
           m == Event("Move", t, p)
           clicks == IF b = "left" THEN binder.left = p ELSE TRUE
           goes == t # Mouse \/ world[t].at = "away"
           first == <<u>> \o (IF clicks THEN <<c>> ELSE <<>>)
           last == IF goes THEN <<x>> ELSE <<>>
<1>1. /\ t \in Tags /\ captured' = captured /\ captured \in BOOLEAN /\ Is("web") /\ ~Is("ios") /\ BinderTyped
      /\ WorldTyped /\ WorldInv
  BY FingersIn DEF WebPointerUp, Tags, InputInv, InputTyped, TypeOK, Is, BinderTyped, WorldTyped
<1>2. /\ u \in Pushed /\ u.kind = "Up" /\ u.tag = t /\ c \in Pushed /\ c.kind = "Click"
      /\ x \in Pushed /\ x.kind = "Exit" /\ m \in Pushed /\ m.kind = "Move"
  <2>1. p \in Places
    BY <1>1, PlaceIn
  <2> HIDE DEF p
  <2> QED BY <1>1, <2>1, EventTyped
<1>3. CASE world[t].buttons # {b}
  <2>1. Lifted(t, b) /\ push(t, <<m>>) /\ binder' = binder
    BY <1>3 DEF WebPointerUp
  <2>2. view' = view /\ BinderTyped'
    BY <1>1, <2>1, KeepsView DEF BinderTyped
  <2>3. WorldTyped' /\ WorldInv' /\ \A s \in Tags : Holds(s) => Holds(s)'
    BY <1>1, <1>3, <2>1, <2>2, LiftedKeeps
  <2> HIDE DEF m
  <2>4. <<m>> \in Seq(Pushed) /\ \A e : Has(<<m>>, e) => e.kind # "Down"
    BY <1>2, HasOne
  <2> QED BY <1>1, <2>1, <2>2, <2>3, <2>4, QuietKeeps
<1>4. CASE world[t].buttons = {b}
  <2>1. /\ world' = [world EXCEPT ![t] = IF goes THEN Released ELSE [@ EXCEPT !.buttons = {}, !.told = {}]]
        /\ push(t, <<u>> \o (IF clicks THEN <<c>> ELSE <<>>) \o (IF goes THEN <<x>> ELSE <<>>))
        /\ binder' = [binder EXCEPT !.left = IF b = "left" THEN None ELSE @, !.mouseIn = ~goes]
    BY <1>4 DEF WebPointerUp
  <2>a. push(t, first \o last)
    BY <2>1
  <2>2. Is("web")' /\ ~Is("ios")'
    BY <1>1, <2>a, KeepsView
  <2>3. BinderTyped'
    <3>1. goes \in BOOLEAN
      OBVIOUS
    <3> HIDE DEF goes
    <3> QED BY <1>1, <2>1, <3>1 DEF BinderTyped
  <2>4. /\ \A s \in Tags : s # t => world'[s] = world[s]
        /\ world'[t].buttons = {} /\ world'[t].told = {}
        /\ WorldTyped'
    BY <1>1, <2>1 DEF WorldTyped, Released
  <2>5. WorldInv' /\ \A s \in Tags : s # t /\ Holds(s) => Holds(s)'
    BY <1>1, <2>2, <2>4 DEF WorldInv, Holds
  <2> HIDE DEF u, c, x
  <2>6. first \in Seq(Pushed) /\ Has(first, u) /\ \A e : Has(first, e) => e = u \/ e = c
    <3> HIDE DEF clicks
    <3> QED BY <1>2, HasThen
  <2>7. last \in Seq(Pushed) /\ \A e : Has(last, e) => e = x
    <3> HIDE DEF goes
    <3> QED BY <1>2, HasOne, HasNone
  <2> DEFINE es == first \o last
  <2> HIDE DEF first, last
  <2>8. es \in Seq(Pushed) /\ \A e : Has(es, e) <=> Has(first, e) \/ Has(last, e)
    BY <2>6, <2>7, HasBoth, Zenon
  <2>9. push(t, es)
    BY <2>a
  <2> HIDE DEF es
  <2>10. Has(es, u) /\ (\A e : Has(es, e) => e.kind # "Down")
    BY <1>2, <2>6, <2>7, <2>8
  <2>11. \A s \in Tags : Holds(s) => Holds(s)' \/ \E e : Has(es, e) /\ Frees(e, s)
    BY <1>2, <2>5, <2>10 DEF Frees
  <2> QED BY <1>1, <2>3, <2>4, <2>5, <2>8, <2>9, <2>10, <2>11, QuietKeeps
<1> QED BY <1>3, <1>4

LEMMA WebPointerCancelKeeps ==
    ASSUME InputInv, NEW t \in {Mouse} \cup Fingers[view], WebPointerCancel(t)
    PROVE  InputInv'
<1> DEFINE u == Event("Cancel", t, Place(t))
           x == Event("Exit", t, Place(t))
<1>1. /\ t \in Tags /\ captured' = captured /\ captured \in BOOLEAN /\ Is("web") /\ ~Is("ios") /\ BinderTyped
      /\ WorldTyped /\ WorldInv /\ world' = [world EXCEPT ![t] = Released] /\ push(t, <<u, x>>)
      /\ binder' = [binder EXCEPT !.left = None, !.mouseIn = FALSE]
  BY FingersIn DEF WebPointerCancel, Tags, InputInv, InputTyped, TypeOK, Is, BinderTyped, WorldTyped
<1>2. /\ u \in Pushed /\ u.kind = "Cancel" /\ u.tag = t /\ x \in Pushed /\ x.kind = "Exit"
  BY <1>1, PlaceIn, EventTyped
<1> DEFINE es == <<u, x>>
<1> HIDE DEF u, x
<1>3. es \in Seq(Pushed) /\ Has(es, u) /\ \A e : Has(es, e) => e = u \/ e = x
  BY <1>2 DEF Has
<1>4. push(t, es)
  BY <1>1
<1> HIDE DEF es
<1>5. Is("web")' /\ ~Is("ios")'
  BY <1>1, <1>4, KeepsView
<1>6. BinderTyped'
  BY <1>1 DEF BinderTyped
<1>7. WorldTyped' /\ \A s \in Tags : world'[s] = IF s = t THEN Released ELSE world[s]
  BY <1>1 DEF WorldTyped, Released
<1>8. WorldInv' /\ \A s \in Tags : s # t /\ Holds(s) => Holds(s)'
  BY <1>1, <1>5, <1>7 DEF WorldInv, Holds, Released
<1>9. (\A e : Has(es, e) => e.kind # "Down") /\ \A s \in Tags : Holds(s) => Holds(s)' \/ \E e : Has(es, e) /\ Frees(e, s)
  BY <1>2, <1>3, <1>8 DEF Frees
<1> QED BY <1>1, <1>3, <1>4, <1>6, <1>7, <1>8, <1>9, QuietKeeps

\* Of a frame's consolidation: what is kept is in the order of the stream, and all but moves is kept.
Keeps(es, i) ==
    \/ es[i].kind # "Move"
    \/ ~ \E j \in i + 1 .. Len(es) : es[j].kind = "Move" /\ es[j].tag = es[i].tag
Kept(es, i, v) == IF Keeps(es, i) THEN Append(v, es[i]) ELSE v
Consolidates(f, es, N) == f = [i \in 0 .. N |-> IF i = 0 THEN <<>> ELSE Kept(es, i, f[i - 1])]

LEMMA ConsolidationExists == ASSUME NEW es, NEW N \in Nat PROVE \E f : Consolidates(f, es, N)
<1> DEFINE P(n) == \E f : Consolidates(f, es, n)
<1> USE DEF Consolidates
<1> DEFINE T == {n \in 0 .. N : P(n)}
<1>1. P(0)
  <2> DEFINE f == [i \in 0 .. 0 |-> <<>>]
  <2>1. f = [i \in 0 .. 0 |-> IF i = 0 THEN <<>> ELSE Kept(es, i, f[i - 1])]
    OBVIOUS
  <2> HIDE DEF f
  <2> QED BY <2>1
<1>2. ASSUME NEW n \in 0 .. N - 1, P(n) PROVE P(n + 1)
  <2>1. PICK f : f = [i \in 0 .. n |-> IF i = 0 THEN <<>> ELSE Kept(es, i, f[i - 1])]
    BY <1>2, Zenon
  <2> DEFINE g == [i \in 0 .. n + 1 |-> IF i = n + 1 THEN Kept(es, n + 1, f[n]) ELSE f[i]]
  <2>2. \A i \in 0 .. n : g[i] = f[i]
    OBVIOUS
  <2>3. g = [i \in 0 .. n + 1 |-> IF i = 0 THEN <<>> ELSE Kept(es, i, g[i - 1])]
    <3>1. ASSUME NEW i \in 0 .. n + 1
          PROVE  g[i] = IF i = 0 THEN <<>> ELSE Kept(es, i, g[i - 1])
      <4>1. CASE i = n + 1
        <5>1. g[n + 1] = Kept(es, n + 1, f[n]) /\ g[n] = f[n]
          BY <2>2
        <5>2. i # 0 /\ i - 1 = n
          BY <4>1
        <5> HIDE DEF g
        <5> QED BY <4>1, <5>1, <5>2
      <4>2. CASE i # n + 1
        <5>1. i \in 0 .. n /\ (i # 0 => i - 1 \in 0 .. n)
          BY <4>2
        <5>2. f[i] = IF i = 0 THEN <<>> ELSE Kept(es, i, f[i - 1])
          BY <2>1, <5>1
        <5>3. g[i] = f[i] /\ (i # 0 => g[i - 1] = f[i - 1])
          BY <2>2, <5>1
        <5> HIDE DEF g
        <5> QED BY <5>2, <5>3
      <4> QED BY <4>1, <4>2
    <3>2. g = [i \in 0 .. n + 1 |-> g[i]]
      OBVIOUS
    <3> HIDE DEF g
    <3> QED BY <3>1, <3>2
  <2> HIDE DEF g
  <2> QED BY <2>3
<1> HIDE DEF P
<1>3. 0 \in T /\ \A n \in 0 .. N - 1 : n \in T => n + 1 \in T
  BY <1>1, <1>2
<1>4. N \in T
  <2> HIDE DEF T
  <2>1. 0 .. N \subseteq T
    BY <1>3, Climbs
  <2> QED BY <2>1
<1>5. P(N)
  BY <1>4
<1> QED BY <1>5 DEF P

\* r is what of the first n events is kept, h where each of it was.
Picks(h, r, es, n) ==
    /\ r \in Seq(Pushed) /\ Len(r) <= n
    /\ \A i \in 1 .. Len(r) : h[i] \in 1 .. n /\ r[i] = es[h[i]]
    /\ \A i, j \in 1 .. Len(r) : i < j => h[i] < h[j]
    /\ \A k \in 1 .. n : es[k].kind # "Move" => \E i \in 1 .. Len(r) : h[i] = k

LEMMA PicksMore ==
    ASSUME NEW es \in Seq(Pushed), NEW n \in 0 .. Len(es) - 1, NEW r, NEW h, Picks(h, r, es, n)
    PROVE  \E g : Picks(g, Kept(es, n + 1, r), es, n + 1)
<1>1. /\ r \in Seq(Pushed) /\ Len(r) <= n /\ Len(r) \in Nat /\ n + 1 \in 1 .. Len(es) /\ es[n + 1] \in Pushed /\ n \in Nat
      /\ \A i \in 1 .. Len(r) : h[i] \in 1 .. n /\ r[i] = es[h[i]]
      /\ \A i, j \in 1 .. Len(r) : i < j => h[i] < h[j]
      /\ \A k \in 1 .. n : es[k].kind # "Move" => \E i \in 1 .. Len(r) : h[i] = k
  BY DEF Picks
<1>2. CASE Keeps(es, n + 1)
  <2> DEFINE s == Append(r, es[n + 1])
             m == Len(r)
             g == [i \in 1 .. m + 1 |-> IF i = m + 1 THEN n + 1 ELSE h[i]]
  <2>1. s \in Seq(Pushed) /\ Len(s) = m + 1 /\ s[m + 1] = es[n + 1] /\ \A i \in 1 .. m : s[i] = r[i]
    BY <1>1
  <2>2. g[m + 1] = n + 1 /\ \A i \in 1 .. m : g[i] = h[i]
    BY <1>1
  <2>3. \A i \in 1 .. m + 1 : i = m + 1 \/ i \in 1 .. m
    BY <1>1
  <2> HIDE DEF s, g
  <2>4. \A i \in 1 .. m + 1 : g[i] \in 1 .. n + 1 /\ s[i] = es[g[i]]
    <3> SUFFICES ASSUME NEW i \in 1 .. m + 1 PROVE g[i] \in 1 .. n + 1 /\ s[i] = es[g[i]]
      OBVIOUS
    <3>1. CASE i = m + 1
      BY <3>1, <1>1, <2>1, <2>2
    <3>2. CASE i # m + 1
      <4>1. i \in 1 .. m /\ g[i] = h[i] /\ s[i] = r[i]
        BY <3>2, <2>1, <2>2, <2>3
      <4>2. h[i] \in 1 .. n /\ r[i] = es[h[i]]
        BY <4>1, <1>1
      <4> QED BY <4>1, <4>2, <1>1
    <3> QED BY <3>1, <3>2
  <2> m \in Nat
    BY <1>1
  <2>m. m = Len(r)
    OBVIOUS
  <2> HIDE DEF m
  <2>5. \A i, j \in 1 .. m + 1 : i < j => g[i] < g[j]
    <3> SUFFICES ASSUME NEW i \in 1 .. m + 1, NEW j \in 1 .. m + 1, i < j PROVE g[i] < g[j]
      OBVIOUS
    <3>1. i \in 1 .. m /\ g[i] = h[i] /\ h[i] \in 1 .. n
      BY <1>1, <2>2, <2>m
    <3>2. CASE j = m + 1
      BY <3>1, <3>2, <2>2, <1>1
    <3>3. CASE j # m + 1
      <4>1. j \in 1 .. m /\ g[j] = h[j]
        BY <3>3, <2>2
      <4> QED BY <3>1, <4>1, <1>1, <2>m
    <3> QED BY <3>2, <3>3
  <2>6. \A k \in 1 .. n + 1 : es[k].kind # "Move" => \E i \in 1 .. m + 1 : g[i] = k
    <3> SUFFICES ASSUME NEW k \in 1 .. n + 1, es[k].kind # "Move" PROVE \E i \in 1 .. m + 1 : g[i] = k
      OBVIOUS
    <3>1. CASE k = n + 1
      BY <3>1, <1>1, <2>2
    <3>2. CASE k # n + 1
      <4>0. k \in 1 .. n
        BY <3>2, <1>1
      <4>1. PICK i \in 1 .. m : h[i] = k
        BY <4>0, <1>1, <2>m
      <4> QED BY <4>1, <2>2
    <3> QED BY <3>1, <3>2
  <2>7. Kept(es, n + 1, r) = s
    BY <1>2 DEF Kept, s
  <2>8. m + 1 <= n + 1
    BY <1>1, <2>m
  <2>9. Picks(g, s, es, n + 1)
    BY <2>1, <2>4, <2>5, <2>6, <2>8 DEF Picks
  <2> QED BY <2>7, <2>9
<1>3. CASE ~Keeps(es, n + 1)
  <2>1. Kept(es, n + 1, r) = r /\ es[n + 1].kind = "Move"
    BY <1>3 DEF Kept, Keeps
  <2>2. \A k \in 1 .. n + 1 : es[k].kind # "Move" => \E i \in 1 .. Len(r) : h[i] = k
    <3> SUFFICES ASSUME NEW k \in 1 .. n + 1, es[k].kind # "Move" PROVE \E i \in 1 .. Len(r) : h[i] = k
      OBVIOUS
    <3>1. k \in 1 .. n
      BY <1>1, <2>1
    <3> QED BY <3>1, <1>1
  <2>3. \A i \in 1 .. Len(r) : h[i] \in 1 .. n + 1
    BY <1>1
  <2>4. Len(r) <= n + 1
    BY <1>1
  <2>5. Picks(h, r, es, n + 1)
    BY <1>1, <2>2, <2>3, <2>4 DEF Picks
  <2> QED BY <2>1, <2>5
<1> QED BY <1>2, <1>3

LEMMA Consolidated == ASSUME NEW es \in Seq(Pushed) PROVE \E h : Picks(h, consolidate_moves(es), es, Len(es))
<1> DEFINE N == Len(es)
<1> DEFINE Upto[n \in 0 .. N] == IF n = 0 THEN <<>> ELSE Kept(es, n, Upto[n - 1])
<1>1. Upto = [n \in 0 .. N |-> IF n = 0 THEN <<>> ELSE Kept(es, n, Upto[n - 1])]
  <2>1. \E f : Consolidates(f, es, N)
    BY ConsolidationExists
  <2> QED BY <2>1, Zenon DEF Consolidates
<1>2. consolidate_moves(es) = Upto[N]
  BY Zenon DEF consolidate_moves, Kept, Keeps
<1> HIDE DEF Upto
<1>3. N \in Nat
  OBVIOUS
<1> HIDE DEF N
<1> DEFINE T == {n \in 0 .. N : \E h : Picks(h, Upto[n], es, n)}
<1>4. 0 \in T
  <2>1. Upto[0] = <<>>
    BY <1>1, <1>3
  <2>2. Picks(<<>>, <<>>, es, 0)
    BY DEF Picks
  <2> QED BY <1>3, <2>1, <2>2
<1>5. ASSUME NEW n \in 0 .. N - 1, n \in T PROVE n + 1 \in T
  <2>1. n + 1 \in 0 .. N /\ n + 1 # 0 /\ (n + 1) - 1 = n /\ n \in 0 .. Len(es) - 1
    BY <1>3 DEF N
  <2>2. Upto[n + 1] = Kept(es, n + 1, Upto[n])
    <3>1. Upto[n + 1] = Kept(es, n + 1, Upto[(n + 1) - 1])
      BY <1>1, <2>1, Zenon
    <3> QED BY <2>1, <3>1
  <2>3. PICK h : Picks(h, Upto[n], es, n)
    BY <1>5
  <2>4. \E g : Picks(g, Upto[n + 1], es, n + 1)
    BY <2>1, <2>2, <2>3, PicksMore
  <2> QED BY <2>1, <2>4
<1>6. N \in T
  <2> HIDE DEF T
  <2>1. 0 .. N \subseteq T
    BY <1>3, <1>4, <1>5, Climbs
  <2> QED BY <1>3, <2>1
<1> QED BY <1>2, <1>6 DEF N

\* A frame takes the queue: each end behind a press, a touch's move or a drag is kept behind it.
LEMMA ConsumeKeeps == InputInv /\ consume => InputInv'
<1> SUFFICES ASSUME InputInv, consume PROVE InputInv'
  OBVIOUS
<1> USE DEF InputInv, InputTyped
<1>u. /\ ~drawing /\ drawing' = TRUE /\ list' = consolidate_moves(events) /\ held' = pointerOrigins /\ events' = <<>>
      /\ view' = view /\ world' = world /\ captured' = captured /\ binder' = binder /\ pointerOrigins' = pointerOrigins
      /\ uses' = uses /\ slop' = slop /\ over' = over
      /\ down' = down /\ dwell' = dwell /\ drag' = drag /\ missed' = missed /\ dragging' = dragging
      /\ orphaned' = orphaned /\ twice' = twice
  BY DEF consume, recognizers, ghosts
<1> DEFINE n == Len(events) m == Len(list')
<1>1. PICK h : Picks(h, list', events, n)
  BY <1>u, Consolidated
<1>2. /\ n \in Nat /\ m \in Nat /\ m <= n /\ list' \in Seq(Pushed) /\ Queue = events /\ Queue' = list'
      /\ \A i \in 1 .. m : h[i] \in 1 .. n /\ Queue'[i] = Queue[h[i]]
      /\ \A i, j \in 1 .. m : i < j => h[i] < h[j]
      /\ \A k \in 1 .. n : Queue[k].kind # "Move" => \E i \in 1 .. m : h[i] = k
      /\ Len(Queue) = n /\ Len(Queue') = m
  BY <1>1, <1>u DEF Picks, Queue
<1>3. \A v : Is(v)' = Is(v)
  BY <1>u DEF Is
<1>4. \A t : Holds(t)' = Holds(t)
  BY <1>u, <1>3 DEF Holds
<1> HIDE DEF n, m
<1>5. ASSUME NEW i \in 1 .. m, NEW j \in 1 .. m, h[i] < h[j] PROVE i < j
  <2>1. ~(j < i) /\ i # j
    BY <1>2, <1>5
  <2> QED BY <2>1
\* What frees a pointer is kept where it was among the rest.
<1>6. ASSUME NEW k \in 1 .. n, NEW t, Frees(Queue[k], t) PROVE \E i \in 1 .. m : h[i] = k /\ Frees(Queue'[i], t)
  <2>1. Queue[k].kind # "Move"
    BY <1>6 DEF Frees
  <2> QED BY <1>2, <1>6, <2>1
<1>7. ASSUME NEW t, Ends(t) PROVE Ends(t)'
  <2>1. CASE Holds(t)
    BY <1>4, <2>1 DEF Ends
  <2>2. CASE \E k \in 1 .. n : Frees(Queue[k], t)
    <3>1. \E i \in 1 .. m : Frees(Queue'[i], t)
      BY <2>2, <1>6
    <3> QED BY <3>1, <1>2 DEF Ends
  <2> QED BY <1>2, <1>7, <2>1, <2>2 DEF Ends
<1>8. InputTyped'
  <2>0. TypeOK
    OBVIOUS
  <2>1. view' \in Views /\ captured' \in BOOLEAN /\ slop' \in BOOLEAN
    BY <1>u, <2>0, Zenon DEF TypeOK
  <2>2. Len(events') <= MaxEvents[view'] /\ Len(list') <= MaxEvents[view']
    <3>1. n <= MaxEvents[view] /\ MaxEvents[view] \in Nat
      BY InputAssumption DEF TypeOK, n
    <3> QED BY <1>u, <1>2, <3>1 DEF m
  <2>3. TypeOK'
    BY <1>u, <2>0, <2>1, <2>2 DEF TypeOK
  <2> QED BY <1>u, <1>2, <2>3
<1>9. WorldInv'
  BY <1>u, <1>3 DEF WorldInv
<1>10. QueueInv'
  <2>1. ASSUME NEW i \in 1 .. m, Grabs(Queue'[i]) \/ (Is("ios") /\ Queue'[i].kind = "Move")
        PROVE  /\ Queue'[i].tag \in Tags
               /\ Holds(Queue'[i].tag) \/ \E j \in i + 1 .. m : Frees(Queue'[j], Queue'[i].tag)
    <3>1. h[i] \in 1 .. n /\ Queue'[i] = Queue[h[i]]
      BY <1>2
    <3>2. Queue[h[i]].tag \in Tags /\ (Holds(Queue[h[i]].tag) \/ \E k \in h[i] + 1 .. n : Frees(Queue[k], Queue[h[i]].tag))
      BY <2>1, <3>1, <1>2 DEF QueueInv
    <3>3. ASSUME NEW k \in h[i] + 1 .. n, Frees(Queue[k], Queue[h[i]].tag)
          PROVE  \E j \in i + 1 .. m : Frees(Queue'[j], Queue'[i].tag)
      <4>1. k \in 1 .. n
        BY <3>1, <1>2
      <4>2. PICK j \in 1 .. m : h[j] = k /\ Frees(Queue'[j], Queue[h[i]].tag)
        BY <3>3, <4>1, <1>6
      <4>3. i < j
        BY <3>1, <4>2, <1>5, <1>2
      <4> QED BY <3>1, <4>2, <4>3
    <3> QED BY <3>1, <3>2, <3>3
  <2>2. ASSUME NEW i \in 1 .. m, NEW j \in 1 .. m, i < j, Grabs(Queue'[i]), Grabs(Queue'[j]),
               Queue'[i].tag = Queue'[j].tag
        PROVE  \E k \in i + 1 .. j - 1 : Frees(Queue'[k], Queue'[i].tag)
    <3>1. /\ h[i] \in 1 .. n /\ Queue'[i] = Queue[h[i]] /\ h[j] \in 1 .. n /\ Queue'[j] = Queue[h[j]] /\ h[i] < h[j]
      BY <1>2, <2>2
    <3>a. Grabs(Queue[h[i]]) /\ Grabs(Queue[h[j]]) /\ Queue[h[i]].tag = Queue[h[j]].tag
      BY <2>2, <3>1
    <3>b. \A a, b \in 1 .. n : a < b /\ Grabs(Queue[a]) /\ Grabs(Queue[b]) /\ Queue[a].tag = Queue[b].tag
              => \E k \in a + 1 .. b - 1 : Frees(Queue[k], Queue[a].tag)
      BY <1>2 DEF QueueInv
    <3>2. PICK k \in h[i] + 1 .. h[j] - 1 : Frees(Queue[k], Queue[h[i]].tag)
      BY <3>1, <3>a, <3>b, Zenon
    <3>3. k \in 1 .. n /\ h[i] < k /\ k < h[j]
      BY <3>1, <1>2
    <3>4. PICK l \in 1 .. m : h[l] = k /\ Frees(Queue'[l], Queue[h[i]].tag)
      BY <3>2, <3>3, <1>6
    <3>5. i < l /\ l < j
      BY <3>3, <3>4, <1>5
    <3> QED BY <3>1, <3>4, <3>5
  <2>3. Is("ios") => missed' = {} /\ \A i \in 1 .. m : Queue'[i].kind \notin {"Lost", "Enter", "Exit"}
    BY <1>2, <1>u DEF QueueInv
  <2>4. Len(Queue') = m
    BY <1>2
  <2>5. \A i \in 1 .. m : Grabs(Queue'[i]) \/ (Is("ios") /\ Queue'[i].kind = "Move") =>
          /\ Queue'[i].tag \in Tags
          /\ (Holds(Queue[i].tag) \/ \E j \in i + 1 .. Len(Queue) : Frees(Queue[j], Queue[i].tag))'
    <3>1. \A i : (Holds(Queue[i].tag))' = Holds(Queue'[i].tag)
      BY <1>u, <1>3 DEF Holds
    <3> QED BY <2>1, <2>4, <3>1
  <2> HIDE DEF Queue
  <2> QED BY <2>2, <2>3, <2>4, <2>5, <1>3 DEF QueueInv
<1>11. DragInv'
  <2>1. ASSUME drag.tag # None PROVE drag.tag \in missed \/ Ends(drag.tag)'
    <3>1. PICK t : t = drag.tag /\ (t \in missed \/ Ends(t))
      BY <2>1 DEF DragInv
    <3>2. t \in missed \/ Ends(t)'
      BY <3>1, <1>7
    <3> QED BY <3>1, <3>2, <1>u
  <2>2. ASSUME drag.tag # None, NEW j \in 1 .. m, Grabs(Queue'[j]), Queue'[j].tag = drag.tag
        PROVE  drag.tag \in missed \/ \E k \in 1 .. j - 1 : Frees(Queue'[k], drag.tag)
    <3>1. h[j] \in 1 .. n /\ Queue'[j] = Queue[h[j]]
      BY <1>2
    <3>2. drag.tag \in missed \/ \E k \in 1 .. h[j] - 1 : Frees(Queue[k], drag.tag)
      BY <2>2, <3>1, <1>2 DEF DragInv
    <3>3. ASSUME NEW k \in 1 .. h[j] - 1, Frees(Queue[k], drag.tag) PROVE \E l \in 1 .. j - 1 : Frees(Queue'[l], drag.tag)
      <4>1. k \in 1 .. n /\ k < h[j]
        BY <3>1, <1>2
      <4>2. PICK l \in 1 .. m : h[l] = k /\ Frees(Queue'[l], drag.tag)
        BY <3>3, <4>1, <1>6
      <4>3. l < j
        BY <4>1, <4>2, <1>5
      <4> QED BY <4>2, <4>3
    <3> QED BY <3>2, <3>3
  <2> QED BY <2>1, <2>2, <1>2, <1>u DEF DragInv
<1>12. DownInv'
  <2>1. ASSUME down.on PROVE down.tag \in Tags /\ (down.tag \in missed \/ Ends(down.tag)')
    <3>1. PICK t \in Tags : t = down.tag /\ (t \in missed \/ Ends(t))
      BY <2>1 DEF DownInv
    <3>2. t \in missed \/ Ends(t)'
      BY <3>1, <1>7
    <3> QED BY <3>1, <3>2, <1>u
  <2> QED BY <2>1, <1>u DEF DownInv
<1>13. HoverInv'
  <2> SUFFICES ASSUME Is("ios") PROVE HoverInv'
    BY <1>3 DEF HoverInv
  <2>1. ASSUME over.on PROVE over.tag \in Tags /\ Ends(over.tag)'
    <3>1. PICK t \in Tags : t = over.tag /\ Ends(t)
      BY <2>1 DEF HoverInv
    <3>2. Ends(t)'
      BY <3>1, <1>7
    <3> QED BY <3>1, <3>2, <1>u
  <2>2. ASSUME NEW i \in 1 .. m, Queue'[i].kind = "Move", \A o \in pointerOrigins : o.tag # Queue'[i].tag
        PROVE  \E j \in i + 1 .. m : Queue'[j].kind \in {"Up", "Cancel"}
    <3>1. h[i] \in 1 .. n /\ Queue'[i] = Queue[h[i]]
      BY <1>2
    <3>2. Queue[h[i]].tag \in Tags /\ (Holds(Queue[h[i]].tag) \/ \E k \in h[i] + 1 .. n : Frees(Queue[k], Queue[h[i]].tag))
      <4>1. \A a \in 1 .. n : Is("ios") /\ Queue[a].kind = "Move" =>
                /\ Queue[a].tag \in Tags
                /\ Holds(Queue[a].tag) \/ \E k \in a + 1 .. n : Frees(Queue[k], Queue[a].tag)
        BY <1>2 DEF QueueInv
      <4>2. Queue[h[i]].kind = "Move" /\ Is("ios")
        BY <2>2, <3>1
      <4> QED BY <3>1, <4>1, <4>2, Zenon
    <3>3. ~Holds(Queue[h[i]].tag)
      BY <2>2, <3>1, <3>2 DEF HoverInv
    <3>4. PICK k \in h[i] + 1 .. n : Frees(Queue[k], Queue[h[i]].tag)
      BY <3>2, <3>3
    <3>5. k \in 1 .. n /\ h[i] < k
      BY <3>1, <1>2
    <3>6. PICK j \in 1 .. m : h[j] = k /\ Frees(Queue'[j], Queue[h[i]].tag)
      BY <3>4, <3>5, <1>6
    <3>7. i < j
      BY <3>5, <3>6, <1>5
    <3>8. Queue'[j].kind # "Lost"
      <4>1. Queue'[j] = Queue[k]
        BY <3>6, <1>2
      <4> QED BY <3>5, <4>1, <1>2 DEF QueueInv
    <3> QED BY <3>6, <3>7, <3>8 DEF Frees
  <2>3. ~dwell.armed /\ ~dwell.on /\ (uses # "over" => ~over.on)
    BY <1>u DEF HoverInv
  <2>4. \A t \in Tags : Holds(t)' => \E o \in pointerOrigins : o.tag = t
    BY <1>4 DEF HoverInv
  <2>5. list' = Queue' /\ Len(list') = m
    BY <1>2 DEF m
  <2> QED BY <2>1, <2>2, <2>3, <2>4, <2>5, <1>u, <1>3 DEF HoverInv
<1> QED BY <1>8, <1>9, <1>10, <1>11, <1>12, <1>13

\* A recognizer is told of the head of the queue.
LEMMA ProcessKeeps == InputInv /\ Process => InputInv'
<1> SUFFICES ASSUME InputInv, Process PROVE InputInv'
  OBVIOUS
<1> USE DEF InputInv, InputTyped
<1> DEFINE e == Head(list)
           n == Len(Queue)
           starts == uses = "drag" /\ ~drag.on /\ DragNext(e).on
           ends == drag.on /\ e.kind \in {"Up", "Cancel"} /\ ~DragNext(e).on
           Closes(t) == e.kind \in {"Up", "Cancel"} /\ e.tag = t
<1>u. /\ drawing /\ list # <<>> /\ list' = Tail(list) /\ drawing' = drawing /\ held' = held
      /\ view' = view /\ world' = world /\ captured' = captured /\ binder' = binder /\ pointerOrigins' = pointerOrigins
      /\ events' = events /\ uses' = uses /\ slop' = slop
  BY DEF Process, stream
<1>p. \E ours \in (IF uses = "over" THEN OursIn(e.tag) ELSE {FALSE}) :
          /\ over' = IF uses = "over" THEN OverNext(e, ours) ELSE over
          /\ down' = IF uses = "down" THEN DownNext(e) ELSE down
          /\ dwell' = IF uses = "dwell" THEN DwellNext(e) ELSE dwell
          /\ drag' = IF uses = "drag" THEN DragNext(e) ELSE drag
          /\ missed' = IF e.kind = "Lost" THEN missed \cup {e.tag}
                       ELSE IF e.kind \in {"Up", "Cancel"} THEN missed \ {e.tag} ELSE missed
          /\ dragging' = (starts \/ (dragging /\ ~ends))
          /\ orphaned' = (orphaned \/ (drag.on /\ ~DragNext(e).on /\ e.kind = "Down" /\ missed # {}))
          /\ twice' = (twice \/ (starts /\ dragging /\ ~orphaned))
  <2>1. \E f \in {Head(list)}, ours \in (IF uses = "over" THEN OursIn(Head(list).tag) ELSE {FALSE}) :
          /\ over' = IF uses = "over" THEN OverNext(f, ours) ELSE over
          /\ down' = IF uses = "down" THEN DownNext(f) ELSE down
          /\ dwell' = IF uses = "dwell" THEN DwellNext(f) ELSE dwell
          /\ drag' = IF uses = "drag" THEN DragNext(f) ELSE drag
          /\ missed' = IF f.kind = "Lost" THEN missed \cup {f.tag}
                       ELSE IF f.kind \in {"Up", "Cancel"} THEN missed \ {f.tag} ELSE missed
          /\ dragging' = ((uses = "drag" /\ ~drag.on /\ DragNext(f).on)
                          \/ (dragging /\ ~(drag.on /\ f.kind \in {"Up", "Cancel"} /\ ~DragNext(f).on)))
          /\ orphaned' = (orphaned \/ (drag.on /\ ~DragNext(f).on /\ f.kind = "Down" /\ missed # {}))
          /\ twice' = (twice \/ ((uses = "drag" /\ ~drag.on /\ DragNext(f).on) /\ dragging /\ ~orphaned))
    BY DEF Process
  <2> HIDE DEF e
  <2>2. Head(list) = e
    BY DEF e
  <2>3. PICK f \in {e}, ours \in (IF uses = "over" THEN OursIn(e.tag) ELSE {FALSE}) :
          /\ over' = IF uses = "over" THEN OverNext(f, ours) ELSE over
          /\ down' = IF uses = "down" THEN DownNext(f) ELSE down
          /\ dwell' = IF uses = "dwell" THEN DwellNext(f) ELSE dwell
          /\ drag' = IF uses = "drag" THEN DragNext(f) ELSE drag
          /\ missed' = IF f.kind = "Lost" THEN missed \cup {f.tag}
                       ELSE IF f.kind \in {"Up", "Cancel"} THEN missed \ {f.tag} ELSE missed
          /\ dragging' = ((uses = "drag" /\ ~drag.on /\ DragNext(f).on)
                          \/ (dragging /\ ~(drag.on /\ f.kind \in {"Up", "Cancel"} /\ ~DragNext(f).on)))
          /\ orphaned' = (orphaned \/ (drag.on /\ ~DragNext(f).on /\ f.kind = "Down" /\ missed # {}))
          /\ twice' = (twice \/ ((uses = "drag" /\ ~drag.on /\ DragNext(f).on) /\ dragging /\ ~orphaned))
    BY <2>1, <2>2
  <2>4. f = e
    OBVIOUS
  <2> QED BY <2>3, <2>4
<1>1. /\ list \in Seq(Pushed) /\ Len(list) \in Nat /\ Len(list) >= 1 /\ e = list[1] /\ e \in Pushed
      /\ list' \in Seq(Pushed) /\ Len(list') = Len(list) - 1
      /\ \A i \in 1 .. Len(list) - 1 : list'[i] = list[i + 1]
  BY <1>u
<1>2. /\ Queue = list /\ Queue' = list' /\ n \in Nat /\ n >= 1 /\ e = Queue[1] /\ e \in Pushed /\ Len(Queue') = n - 1
      /\ \A i \in 1 .. n - 1 : i + 1 \in 1 .. n /\ Queue'[i] = Queue[i + 1]
      /\ \A k \in 2 .. n : k \in 1 .. n /\ k - 1 \in 1 .. n - 1 /\ Queue'[k - 1] = Queue[k]
      /\ 1 \in 1 .. n
  <2>1. /\ Queue = list /\ Queue' = list' /\ n \in Nat /\ n >= 1 /\ e = Queue[1] /\ e \in Pushed /\ Len(Queue') = n - 1
        /\ \A i \in 1 .. n - 1 : Queue'[i] = Queue[i + 1]
    BY <1>u, <1>1 DEF Queue
  <2> HIDE DEF n, e
  <2>2. /\ \A i \in 1 .. n - 1 : i + 1 \in 1 .. n
        /\ \A k \in 2 .. n : k \in 1 .. n /\ k - 1 \in 1 .. n - 1 /\ (k - 1) + 1 = k
        /\ 1 \in 1 .. n
    BY <2>1
  <2>3. \A k \in 2 .. n : Queue'[k - 1] = Queue[k]
    BY <2>1, <2>2
  <2> QED BY <2>1, <2>2, <2>3
<1>3. \A v : Is(v)' = Is(v)
  BY <1>u DEF Is
<1>4. \A t : Holds(t)' = Holds(t)
  BY <1>u, <1>3 DEF Holds
<1>m. missed' = IF e.kind = "Lost" THEN missed \cup {e.tag}
                ELSE IF e.kind \in {"Up", "Cancel"} THEN missed \ {e.tag} ELSE missed
  BY <1>p
<1> n = Len(Queue)
  OBVIOUS
<1> HIDE DEF n, e
\* Of what frees a pointer, the head goes: a release that was missed, or the release.
<1>5. ASSUME NEW t, ~Closes(t), NEW a \in 0 .. n, t \in missed \/ \E k \in 1 .. a : Frees(Queue[k], t)
      PROVE  t \in missed' \/ \E k \in 1 .. a - 1 : Frees(Queue'[k], t)
  <2>1. CASE t \in missed
    BY <1>m, <1>5, <2>1
  <2>2. ASSUME NEW k \in 1 .. a, Frees(Queue[k], t) PROVE t \in missed' \/ \E j \in 1 .. a - 1 : Frees(Queue'[j], t)
    <3>1. CASE k = 1
      BY <3>1, <2>2, <1>5, <1>2, <1>m DEF Frees
    <3>2. CASE k # 1
      <4>1. k \in 2 .. n /\ k - 1 \in 1 .. a - 1
        BY <3>2, <1>2
      <4> QED BY <4>1, <2>2, <1>2
    <3> QED BY <3>1, <3>2
  <2> QED BY <1>5, <2>1, <2>2
<1>6. ASSUME NEW t, ~Closes(t), t \in missed \/ Ends(t) PROVE t \in missed' \/ Ends(t)'
  <2>1. CASE Holds(t)
    BY <2>1, <1>4 DEF Ends
  <2>2. CASE t \in missed \/ \E k \in 1 .. n : Frees(Queue[k], t)
    <3>1. n \in 0 .. n
      BY <1>2
    <3>2. t \in missed' \/ \E k \in 1 .. n - 1 : Frees(Queue'[k], t)
      BY <1>5, <1>6, <2>2, <3>1
    <3> QED BY <3>2, <1>2 DEF Ends
  <2> QED BY <1>6, <2>1, <2>2 DEF Ends
\* What the head takes has its end behind it.
<1>7. ASSUME Grabs(e) \/ (Is("ios") /\ e.kind = "Move") PROVE \E t \in Tags : t = e.tag /\ Ends(t)'
  <2>1. e.tag \in Tags /\ (Holds(e.tag) \/ \E j \in 1 + 1 .. n : Frees(Queue[j], e.tag))
    BY <1>7, <1>2 DEF QueueInv
  <2>2. PICK t \in Tags : t = e.tag
    BY <2>1
  <2>3. Holds(t) \/ \E j \in 2 .. n : Frees(Queue[j], t)
    BY <2>1, <2>2
  <2>4. Holds(t) \/ \E j \in 1 .. n - 1 : Frees(Queue'[j], t)
    BY <2>3, <1>2
  <2> QED BY <2>2, <2>4, <1>2, <1>4 DEF Ends
<1>8. WorldInv'
  BY <1>u, <1>3 DEF WorldInv
<1>9. QueueInv'
  <2>1. ASSUME NEW i \in 1 .. n - 1, Grabs(Queue'[i]) \/ (Is("ios") /\ Queue'[i].kind = "Move")
        PROVE  /\ Queue'[i].tag \in Tags
               /\ Holds(Queue'[i].tag) \/ \E j \in i + 1 .. n - 1 : Frees(Queue'[j], Queue'[i].tag)
    <3>1. i + 1 \in 1 .. n /\ Queue'[i] = Queue[i + 1]
      BY <1>2
    <3>2. /\ Queue[i + 1].tag \in Tags
          /\ Holds(Queue[i + 1].tag) \/ \E k \in (i + 1) + 1 .. n : Frees(Queue[k], Queue[i + 1].tag)
      BY <2>1, <3>1, <1>2 DEF QueueInv
    <3>3. ASSUME NEW k \in (i + 1) + 1 .. n, Frees(Queue[k], Queue[i + 1].tag)
          PROVE  \E j \in i + 1 .. n - 1 : Frees(Queue'[j], Queue'[i].tag)
      <4>1. k \in 2 .. n /\ k - 1 \in i + 1 .. n - 1
        BY <1>2
      <4> QED BY <3>1, <3>3, <4>1, <1>2
    <3> QED BY <3>1, <3>2, <3>3
  <2>2. ASSUME NEW i \in 1 .. n - 1, NEW j \in 1 .. n - 1, i < j, Grabs(Queue'[i]), Grabs(Queue'[j]),
               Queue'[i].tag = Queue'[j].tag
        PROVE  \E k \in i + 1 .. j - 1 : Frees(Queue'[k], Queue'[i].tag)
    <3>1. i + 1 \in 1 .. n /\ Queue'[i] = Queue[i + 1] /\ j + 1 \in 1 .. n /\ Queue'[j] = Queue[j + 1] /\ i + 1 < j + 1
      BY <1>2, <2>2
    <3>2. Grabs(Queue[i + 1]) /\ Grabs(Queue[j + 1]) /\ Queue[i + 1].tag = Queue[j + 1].tag
      BY <2>2, <3>1
    <3>3. \A a, b \in 1 .. n : a < b /\ Grabs(Queue[a]) /\ Grabs(Queue[b]) /\ Queue[a].tag = Queue[b].tag
              => \E k \in a + 1 .. b - 1 : Frees(Queue[k], Queue[a].tag)
      BY <1>2 DEF QueueInv
    <3>4. PICK k \in (i + 1) + 1 .. (j + 1) - 1 : Frees(Queue[k], Queue[i + 1].tag)
      BY <3>1, <3>2, <3>3, Zenon
    <3>5. k \in 2 .. n /\ k - 1 \in i + 1 .. j - 1
      BY <1>2
    <3> QED BY <3>1, <3>4, <3>5, <1>2
  <2>3. Is("ios") => missed' = {} /\ \A i \in 1 .. n - 1 : Queue'[i].kind \notin {"Lost", "Enter", "Exit"}
    <3> SUFFICES ASSUME Is("ios") PROVE missed' = {} /\ \A i \in 1 .. n - 1 : Queue'[i].kind \notin {"Lost", "Enter", "Exit"}
      OBVIOUS
    <3>1. missed = {} /\ \A i \in 1 .. n : Queue[i].kind \notin {"Lost", "Enter", "Exit"}
      BY DEF QueueInv
    <3> QED BY <3>1, <1>2, <1>m
  <2>4. Len(Queue') = n - 1
    BY <1>2
  <2>5. \A i \in 1 .. n - 1 : Grabs(Queue'[i]) \/ (Is("ios") /\ Queue'[i].kind = "Move") =>
          /\ Queue'[i].tag \in Tags
          /\ (Holds(Queue[i].tag) \/ \E j \in i + 1 .. Len(Queue) : Frees(Queue[j], Queue[i].tag))'
    <3>1. \A i : (Holds(Queue[i].tag))' = Holds(Queue'[i].tag)
      BY <1>u, <1>3 DEF Holds
    <3> QED BY <2>1, <2>4, <3>1
  <2> HIDE DEF Queue
  <2> QED BY <2>2, <2>3, <2>4, <2>5, <1>3 DEF QueueInv
<1>10. DownInv'
  <2>1. CASE uses = "down"
    <3>1. down' = DownNext(e)
      BY <1>p, <2>1
    <3>2. CASE Grabs(e) /\ e.pos = "in" /\ ~down.on
      <4>1. PICK t \in Tags : t = e.tag /\ Ends(t)'
        BY <1>7, <3>2
      <4>2. down'.on /\ down'.tag = t
        BY <3>1, <3>2, <4>1 DEF DownNext, Grabs
      <4> QED BY <4>1, <4>2, <2>1, <1>u DEF DownInv
    <3>3. CASE ~(Grabs(e) /\ e.pos = "in" /\ ~down.on)
      <4>1. down' = Idle \/ (down' = down /\ (down.on => ~Closes(down.tag)))
        BY <3>1, <3>3 DEF DownNext, Grabs
      <4>2. ~Idle.on
        BY DEF Idle
      <4>3. ASSUME down' = down, down.on PROVE DownInv'
        <5>1. PICK t \in Tags : t = down.tag /\ (t \in missed \/ Ends(t)) /\ ~Closes(t)
          BY <4>1, <4>2, <4>3 DEF DownInv
        <5>2. t \in missed' \/ Ends(t)'
          BY <5>1, <1>6
        <5> QED BY <4>3, <5>1, <5>2, <2>1, <1>u DEF DownInv
      <4> QED BY <4>1, <4>2, <4>3, <2>1, <1>u DEF DownInv
    <3> QED BY <3>2, <3>3
  <2>2. CASE uses # "down"
    BY <1>p, <1>u, <2>2 DEF DownInv
  <2> QED BY <2>1, <2>2
<1>11. DragInv'
  <2>1. CASE uses # "drag"
    <3>1. drag = NoDrag /\ ~drag.on /\ drag' = drag
      BY <1>p, <2>1 DEF DragInv, NoDrag
    <3>2. (dragging' => dragging) /\ (orphaned => orphaned') /\ (twice' => twice)
      BY <1>p, <2>1, <3>1
    <3>3. drag'.tag = None
      BY <3>1 DEF NoDrag
    <3> QED BY <3>1, <3>2, <3>3, <2>1, <1>u DEF DragInv
  <2>2. CASE uses = "drag"
    <3>1. drag' = DragNext(e)
      BY <1>p, <2>2
    <3>2. /\ drag.tag = None => drag = NoDrag /\ ~drag.on /\ drag.fpos = None
          /\ drag \in [fpos : Places \cup {None}, tag : Tags \cup {None}, on : BOOLEAN]
      BY DEF DragInv, NoDrag, TypeOK
    \* It lets go, or goes on with the same pointer, or begins with a press.
    <3>3. \/ drag' = NoDrag /\ (e.kind \in {"Up", "Cancel"} \/ ~drag.on)
          \/ drag'.tag = drag.tag /\ drag.tag # None /\ ~Closes(drag.tag) /\ (drag.on => drag'.on)
          \/ Grabs(e) /\ drag.tag \in {None, e.tag} /\ drag'.tag = e.tag /\ ~drag'.on
      <4>1. CASE drag.tag # None /\ drag.tag # e.tag
        BY <3>1, <4>1 DEF DragNext
      <4>2. CASE ~(drag.tag # None /\ drag.tag # e.tag)
        <5>1. CASE e.kind = "Down" /\ e.button = "left" /\ e.pos = "in"
          BY <3>1, <4>2, <5>1 DEF DragNext, Grabs
        <5>2. CASE e.kind \in {"Up", "Cancel"}
          BY <3>1, <4>2, <5>2 DEF DragNext
        <5>3. CASE e.kind = "Move" /\ drag.fpos # None
          <6>1. drag' = [drag EXCEPT !.on = @ \/ ~slop \/ e.pos # drag.fpos]
            BY <3>1, <4>2, <5>3 DEF DragNext
          <6>2. drag'.tag = drag.tag /\ (drag.on => drag'.on)
            BY <6>1, <3>2
          <6> QED BY <6>2, <3>2, <5>3
        <5>4. CASE ~(\/ e.kind = "Down" /\ e.button = "left" /\ e.pos = "in"
                     \/ e.kind \in {"Up", "Cancel"}
                     \/ e.kind = "Move" /\ drag.fpos # None)
          <6>1. drag' = drag
            BY <3>1, <4>2, <5>4 DEF DragNext
          <6> QED BY <6>1, <3>2, <5>4
        <5> QED BY <5>1, <5>2, <5>3, <5>4
      <4> QED BY <4>1, <4>2
    <3>4. Grabs(e) => e.tag \in Tags /\ e.tag # None
      BY <1>7, InputAssumption
    <3>5. drag'.tag = None => drag' = NoDrag
      BY <3>3, <3>4
    <3>6. ASSUME drag'.tag # None PROVE drag'.tag \in missed' \/ Ends(drag.tag)'
      <4>1. drag' # NoDrag
        BY <3>6 DEF NoDrag
      <4>2. CASE drag'.tag = drag.tag /\ drag.tag # None /\ ~Closes(drag.tag)
        <5>1. PICK t : t = drag.tag /\ (t \in missed \/ Ends(t)) /\ ~Closes(t)
          BY <4>2 DEF DragInv
        <5>2. t \in missed' \/ Ends(t)'
          BY <5>1, <1>6
        <5> QED BY <4>2, <5>1, <5>2
      <4>3. CASE Grabs(e) /\ drag'.tag = e.tag
        BY <4>3, <1>7
      <4> QED BY <3>3, <4>1, <4>2, <4>3
    <3>7. ASSUME drag'.tag # None, NEW j \in 1 .. n - 1, Grabs(Queue'[j]), Queue'[j].tag = drag'.tag
          PROVE  drag'.tag \in missed' \/ \E k \in 1 .. j - 1 : Frees(Queue'[k], drag'.tag)
      <4>1. drag' # NoDrag
        BY <3>7 DEF NoDrag
      <4>2. j + 1 \in 1 .. n /\ Queue'[j] = Queue[j + 1] /\ (j + 1) - 1 = j /\ j \in 0 .. n
        BY <1>2
      <4>3. CASE drag'.tag = drag.tag /\ drag.tag # None /\ ~Closes(drag.tag)
        <5>1. drag.tag \in missed \/ \E k \in 1 .. (j + 1) - 1 : Frees(Queue[k], drag.tag)
          BY <4>2, <4>3, <3>7 DEF DragInv
        <5>2. PICK t : t = drag.tag
          OBVIOUS
        <5>3. t \in missed' \/ \E k \in 1 .. j - 1 : Frees(Queue'[k], t)
          BY <4>2, <4>3, <5>1, <5>2, <1>5
        <5> QED BY <4>3, <5>2, <5>3
      <4>4. CASE Grabs(e) /\ drag'.tag = e.tag
        <5>1. Grabs(Queue[1]) /\ Grabs(Queue[j + 1]) /\ Queue[1].tag = Queue[j + 1].tag /\ 1 < j + 1
          BY <4>2, <4>4, <3>7, <1>2
        <5>2. \A a, b \in 1 .. n : a < b /\ Grabs(Queue[a]) /\ Grabs(Queue[b]) /\ Queue[a].tag = Queue[b].tag
                  => \E k \in a + 1 .. b - 1 : Frees(Queue[k], Queue[a].tag)
          BY <1>2 DEF QueueInv
        <5>3. PICK k \in 1 + 1 .. (j + 1) - 1 : Frees(Queue[k], Queue[1].tag)
          BY <4>2, <5>1, <5>2, <1>2, Zenon
        <5>4. k \in 2 .. n /\ k - 1 \in 1 .. j - 1
          BY <1>2, <4>2
        <5> QED BY <4>4, <5>3, <5>4, <1>2
      <4> QED BY <3>3, <4>1, <4>3, <4>4
    \* The only press that takes the place of a drag is one after a release that was missed.
    <3>8. drag.on /\ ~drag'.on /\ ~(e.kind \in {"Up", "Cancel"}) => orphaned'
      <4> SUFFICES ASSUME drag.on, ~drag'.on, ~(e.kind \in {"Up", "Cancel"}) PROVE orphaned'
        OBVIOUS
      <4>1. drag.tag # None
        BY <3>2
      <4>2. Grabs(e) /\ drag.tag = e.tag
        BY <3>3, <4>1
      <4>3. drag.tag \in missed
        <5>1. drag.tag \in missed \/ \E k \in 1 .. 1 - 1 : Frees(Queue[k], drag.tag)
          BY <4>1, <4>2, <1>2 DEF DragInv
        <5> QED BY <5>1
      <4>4. e.kind = "Down"
        BY <4>2 DEF Grabs
      <4> QED BY <1>p, <3>1, <4>3, <4>4
    <3>9. dragging' => drag'.on \/ orphaned'
      BY <1>p, <3>1, <3>8 DEF DragInv
    <3>10. ~twice'
      BY <1>p DEF DragInv
    <3>11. Len(Queue') = n - 1
      BY <1>2
    <3> HIDE DEF Queue
    <3> QED BY <3>5, <3>6, <3>7, <3>9, <3>10, <3>11, <2>2, <1>u DEF DragInv
  <2> QED BY <2>1, <2>2
<1>12. HoverInv'
  <2> SUFFICES ASSUME Is("ios") PROVE HoverInv'
    BY <1>3 DEF HoverInv
  <2>1. /\ e.kind \notin {"Lost", "Enter", "Exit"} /\ missed = {} /\ missed' = {} /\ ~dwell.on
        /\ \A i \in 1 .. n : Queue[i].kind \notin {"Lost", "Enter", "Exit"}
    BY <1>2, <1>m DEF QueueInv, HoverInv
  <2>2. PICK ours : over' = IF uses = "over" THEN OverNext(e, ours) ELSE over
    BY <1>p
  <2>3. ASSUME over'.on PROVE uses = "over" /\ over'.tag \in Tags /\ Ends(over.tag)'
    <3>1. ASSUME over.on, ~Closes(over.tag) PROVE over.tag \in Tags /\ \E t \in Tags : t = over.tag /\ Ends(t)'
      <4>1. PICK t \in Tags : t = over.tag /\ Ends(t) /\ ~Closes(t)
        BY <3>1 DEF HoverInv
      <4>2. Ends(t)'
        BY <4>1, <2>1, <1>6
      <4> QED BY <4>1, <4>2
    <3>2. uses = "over"
      BY <2>2, <2>3 DEF HoverInv
    <3>3. over' = OverNext(e, ours)
      BY <2>2, <3>2
    <3>4. CASE over' = over /\ ~Closes(over.tag)
      BY <3>1, <3>2, <3>4, <2>3
    <3>5. CASE e.kind = "Move" /\ over' = [on |-> TRUE, tag |-> IF over.on THEN over.tag ELSE e.tag]
      <4>1. ~Closes(over.tag)
        BY <3>5
      <4>2. CASE over.on
        BY <3>1, <3>2, <3>5, <4>1, <4>2
      <4>3. CASE ~over.on
        BY <1>7, <3>2, <3>5, <4>3
      <4> QED BY <4>2, <4>3
    <3>6. (over' = over /\ ~Closes(over.tag)) \/ (e.kind = "Move" /\ over' = [on |-> TRUE, tag |-> IF over.on THEN over.tag ELSE e.tag])
      <4> DEFINE now == e.kind \in {"Move", "Enter"} /\ e.pos = "in"
      <4>1. CASE e.kind = "Move"
        <5>1. over' = over \/ over' = [on |-> now, tag |-> IF ~now THEN None ELSE IF over.on THEN over.tag ELSE e.tag]
          BY <3>3 DEF OverNext
        <5>2. CASE over' = over
          BY <4>1, <5>2
        <5>3. CASE over' = [on |-> now, tag |-> IF ~now THEN None ELSE IF over.on THEN over.tag ELSE e.tag]
          <6>1. now
            BY <5>3, <2>3
          <6> QED BY <4>1, <5>3, <6>1
        <5> QED BY <5>1, <5>2, <5>3
      <4>2. CASE e.kind # "Move"
        <5>1. ~now
          BY <2>1, <4>2
        <5>2. over' = over \/ over' = [on |-> now, tag |-> IF ~now THEN None ELSE IF over.on THEN over.tag ELSE e.tag]
          BY <3>3 DEF OverNext
        <5> HIDE DEF now
        <5>3. over' = over
          <6>1. CASE over' = [on |-> now, tag |-> IF ~now THEN None ELSE IF over.on THEN over.tag ELSE e.tag]
            <7>1. over'.on = now
              BY <6>1
            <7> QED BY <7>1, <5>1, <2>3
          <6> QED BY <6>1, <5>2
        <5>4. ASSUME Closes(over.tag) PROVE FALSE
          <6>1. over' = [on |-> now, tag |-> IF ~now THEN None ELSE IF over.on THEN over.tag ELSE e.tag]
            BY <3>3, <5>4 DEF OverNext, now
          <6>2. over'.on = now
            BY <6>1
          <6> QED BY <6>2, <5>1, <2>3
        <5> QED BY <5>3, <5>4
      <4> QED BY <4>1, <4>2
    <3> QED BY <3>4, <3>5, <3>6
  <2>4. ASSUME e.kind \notin {"Up", "Cancel"}, \E j \in 1 .. n : Queue[j].kind \in {"Up", "Cancel"}
        PROVE  \E j \in 1 .. n - 1 : Queue'[j].kind \in {"Up", "Cancel"}
    <3>1. PICK j \in 1 .. n : Queue[j].kind \in {"Up", "Cancel"}
      BY <2>4
    <3>2. j # 1
      BY <3>1, <2>4, <1>2
    <3>3. j \in 2 .. n
      BY <3>2, <1>2
    <3> QED BY <3>1, <3>3, <1>2
  <2>5. /\ ~dwell'.on /\ (uses # "dwell" => ~dwell'.armed)
        /\ dwell'.armed => \E j \in 1 .. n - 1 : Queue'[j].kind \in {"Up", "Cancel"}
    <3>1. dwell.armed => \E j \in 1 .. n : Queue[j].kind \in {"Up", "Cancel"}
      BY <1>2 DEF HoverInv
    <3>2. dwell \in [armed : BOOLEAN, on : BOOLEAN] /\ ~dwell.on
      BY <2>1 DEF TypeOK
    <3>3. CASE uses # "dwell"
      BY <3>3, <3>2, <1>p DEF HoverInv
    <3>4. CASE uses = "dwell"
      <4>1. dwell' = DwellNext(e)
        BY <3>4, <1>p
      <4>2. CASE e.kind = "Down"
        <5>1. dwell' = dwell
          BY <4>1, <4>2, <3>2 DEF DwellNext
        <5> QED BY <4>2, <5>1, <3>1, <3>2, <3>4, <2>4
      <4>3. CASE e.kind = "Up"
        <5>1. dwell' = [dwell EXCEPT !.armed = FALSE]
          BY <4>1, <4>3 DEF DwellNext
        <5> QED BY <5>1, <3>2, <3>4
      <4>4. CASE e.kind = "Move"
        <5> DEFINE isDown == \E o \in held : o.tag = e.tag
        <5>1. CASE isDown
          <6>1. dwell' = [dwell EXCEPT !.armed = FALSE]
            BY <4>1, <4>4, <5>1 DEF DwellNext
          <6> QED BY <6>1, <3>2, <3>4
        <5>2. CASE ~isDown
          <6>1. dwell' = [armed |-> ~dwell.on /\ e.pos = "in", on |-> FALSE]
            BY <4>1, <4>4, <5>2 DEF DwellNext
          <6>2. PICK j \in 1 + 1 .. n : Queue[j].kind \in {"Up", "Cancel"}
            BY <4>4, <5>2, <1>2, <1>u DEF HoverInv
          <6>3. j - 1 \in 1 .. n - 1 /\ Queue'[j - 1] = Queue[j]
            BY <1>2
          <6> QED BY <6>1, <6>2, <6>3, <3>4
        <5> QED BY <5>1, <5>2
      <4>5. CASE e.kind \notin {"Down", "Up", "Move"}
        <5>1. dwell' = [armed |-> FALSE, on |-> FALSE]
          BY <4>1, <4>5, <2>1 DEF DwellNext
        <5> QED BY <5>1, <3>4
      <4> QED BY <4>2, <4>3, <4>4, <4>5
    <3> QED BY <3>3, <3>4
  <2>6. ASSUME NEW i \in 1 .. n - 1, Queue'[i].kind = "Move", \A o \in held : o.tag # Queue'[i].tag
        PROVE  \E j \in i + 1 .. n - 1 : Queue'[j].kind \in {"Up", "Cancel"}
    <3>1. i + 1 \in 1 .. n /\ Queue'[i] = Queue[i + 1]
      BY <1>2
    <3>2. PICK k \in (i + 1) + 1 .. n : Queue[k].kind \in {"Up", "Cancel"}
      BY <2>6, <3>1, <1>2, <1>u DEF HoverInv
    <3>3. k \in 2 .. n /\ k - 1 \in i + 1 .. n - 1
      BY <1>2
    <3> QED BY <3>2, <3>3, <1>2
  <2>7. \A t \in Tags : Holds(t)' => \E o \in pointerOrigins : o.tag = t
    BY <1>4 DEF HoverInv
  <2>8. list' = Queue' /\ Len(list') = n - 1
    BY <1>2
  <2>9. uses # "over" => ~over'.on
    BY <2>2 DEF HoverInv
  <2> HIDE DEF Queue
  <2> QED BY <2>3, <2>5, <2>6, <2>7, <2>8, <2>9, <1>u, <1>3 DEF HoverInv
<1>13. InputTyped'
  <2> TypeOK
    OBVIOUS
  <2>1. over' \in [on : BOOLEAN, tag : Tags \cup {None}]
    <3>1. over \in [on : BOOLEAN, tag : Tags \cup {None}] /\ e.tag \in Tags \cup {None}
      BY <1>2 DEF TypeOK, Pushed
    <3> DEFINE now == e.kind \in {"Move", "Enter"} /\ e.pos = "in"
    <3>2. over' = over \/ over' = [on |-> now, tag |-> IF ~now THEN None ELSE IF over.on THEN over.tag ELSE e.tag]
      BY <1>p DEF OverNext
    <3>3. now \in BOOLEAN /\ over.tag \in Tags \cup {None}
      BY <3>1
    <3> HIDE DEF now
    <3> QED BY <3>1, <3>2, <3>3
  <2>2. down' \in [on : BOOLEAN, tag : Tags \cup {None}]
    <3>1. down \in [on : BOOLEAN, tag : Tags \cup {None}] /\ e.tag \in Tags \cup {None}
      BY <1>2 DEF TypeOK, Pushed
    <3>2. down' = down \/ down' = [on |-> TRUE, tag |-> e.tag] \/ down' = [on |-> FALSE, tag |-> None]
      BY <1>p DEF DownNext, Idle
    <3>3. [on |-> TRUE, tag |-> e.tag] \in [on : BOOLEAN, tag : Tags \cup {None}]
      BY <3>1
    <3>4. [on |-> FALSE, tag |-> None] \in [on : BOOLEAN, tag : Tags \cup {None}]
      OBVIOUS
    <3> QED BY <3>1, <3>2, <3>3, <3>4, Zenon
  <2>3. dwell' \in [armed : BOOLEAN, on : BOOLEAN]
    <3>1. dwell \in [armed : BOOLEAN, on : BOOLEAN]
      BY DEF TypeOK
    <3> DEFINE soon == ~dwell.on /\ e.pos = "in"
    <3>2. \/ dwell' = dwell \/ dwell' = [armed |-> FALSE, on |-> FALSE] \/ dwell' = [dwell EXCEPT !.armed = FALSE]
          \/ dwell' = [armed |-> soon, on |-> FALSE]
      BY <1>p DEF DwellNext
    <3>3. soon \in BOOLEAN
      OBVIOUS
    <3> HIDE DEF soon
    <3>4. [armed |-> soon, on |-> FALSE] \in [armed : BOOLEAN, on : BOOLEAN]
      BY <3>3
    <3>5. [armed |-> FALSE, on |-> FALSE] \in [armed : BOOLEAN, on : BOOLEAN]
      OBVIOUS
    <3>6. [dwell EXCEPT !.armed = FALSE] \in [armed : BOOLEAN, on : BOOLEAN]
      BY <3>1
    <3> QED BY <3>1, <3>2, <3>4, <3>5, <3>6, Zenon
  <2>4. drag' \in [fpos : Places \cup {None}, tag : Tags \cup {None}, on : BOOLEAN]
    <3>1. drag \in [fpos : Places \cup {None}, tag : Tags \cup {None}, on : BOOLEAN] /\ e.tag \in Tags \cup {None} /\ e.pos \in Places
      BY <1>2 DEF TypeOK, Pushed
    <3> DEFINE more == drag.on \/ ~slop \/ e.pos # drag.fpos
    <3>2. \/ drag' = drag \/ drag' = [fpos |-> e.pos, tag |-> e.tag, on |-> FALSE]
          \/ drag' = [fpos |-> None, tag |-> None, on |-> FALSE]
          \/ drag' = [drag EXCEPT !.on = more]
      BY <1>p DEF DragNext, NoDrag
    <3>3. more \in BOOLEAN
      OBVIOUS
    <3> HIDE DEF more
    <3> DEFINE D == [fpos : Places \cup {None}, tag : Tags \cup {None}, on : BOOLEAN]
    <3>4. [fpos |-> e.pos, tag |-> e.tag, on |-> FALSE] \in D
      BY <3>1
    <3>5. [fpos |-> None, tag |-> None, on |-> FALSE] \in D
      OBVIOUS
    <3>6. [drag EXCEPT !.on = more] \in D
      BY <3>1, <3>3
    <3> QED BY <3>1, <3>2, <3>4, <3>5, <3>6, Zenon
  <2>5. Len(list') <= MaxEvents[view]
    <3>1. Len(list) <= MaxEvents[view] /\ MaxEvents[view] \in Nat
      BY InputAssumption DEF TypeOK
    <3> QED BY <1>1, <3>1
  <2>6. view' \in Views /\ captured' \in BOOLEAN /\ slop' \in BOOLEAN
    BY <1>u, Zenon DEF TypeOK
  <2>7. TypeOK'
    BY <1>u, <2>1, <2>2, <2>3, <2>4, <2>5, <2>6 DEF TypeOK
  <2> QED BY <1>u, <1>1, <2>7
<1> QED BY <1>8, <1>9, <1>10, <1>11, <1>12, <1>13

\* At the end of a frame the queue is empty: nothing is armed that a lift will not disarm.
LEMMA DrawnKeeps == InputInv /\ Drawn => InputInv'
<1> SUFFICES ASSUME InputInv, Drawn PROVE InputInv'
  OBVIOUS
<1> USE DEF InputInv, InputTyped
<1>u. /\ drawing /\ list = <<>> /\ drawing' = FALSE /\ held' = {} /\ list' = list /\ events' = events
      /\ view' = view /\ world' = world /\ captured' = captured /\ binder' = binder /\ pointerOrigins' = pointerOrigins
      /\ uses' = uses /\ slop' = slop /\ over' = over /\ down' = down /\ drag' = drag /\ missed' = missed
      /\ dragging' = dragging /\ orphaned' = orphaned /\ twice' = twice
  BY DEF Drawn, stream, ghosts
<1>p. PICK elapsed \in BOOLEAN : dwell' = [dwell EXCEPT !.on = dwell.armed /\ (@ \/ elapsed)]
  BY DEF Drawn
<1>1. Queue = <<>> /\ Queue' = <<>> /\ Queue' = Queue
  BY <1>u DEF Queue
<1>2. \A v : Is(v)' = Is(v)
  BY <1>u DEF Is
<1>3. \A t : Holds(t)' = Holds(t)
  BY <1>u, <1>2 DEF Holds
<1>4. \A t : Ends(t)' = Ends(t)
  BY <1>1, <1>3 DEF Ends
<1>5. dwell' \in [armed : BOOLEAN, on : BOOLEAN]
  <2> DEFINE rests == dwell.armed /\ (dwell.on \/ elapsed)
  <2>1. dwell \in [armed : BOOLEAN, on : BOOLEAN] /\ rests \in BOOLEAN /\ dwell' = [dwell EXCEPT !.on = rests]
    BY <1>p DEF TypeOK
  <2> HIDE DEF rests
  <2> QED BY <2>1
<1>6. InputTyped'
  <2> TypeOK
    OBVIOUS
  <2>1. view' \in Views /\ captured' \in BOOLEAN /\ slop' \in BOOLEAN
    BY <1>u, Zenon DEF TypeOK
  <2>2. TypeOK'
    BY <1>u, <1>5, <2>1 DEF TypeOK
  <2> QED BY <1>u, <2>2
<1>7. WorldInv'
  BY <1>u, <1>2 DEF WorldInv
<1>8. QueueInv'
  BY <1>u, <1>1, <1>2 DEF QueueInv
<1>9. DragInv' /\ DownInv'
  BY <1>u, <1>1, <1>4 DEF DragInv, DownInv, Ends
<1>10. HoverInv'
  <2> SUFFICES ASSUME Is("ios") PROVE HoverInv'
    BY <1>2 DEF HoverInv
  <2>1. ~dwell.armed
    BY <1>u DEF HoverInv
  <2>2. ~dwell'.armed /\ ~dwell'.on
    BY <2>1, <1>p DEF TypeOK
  <2>3. over.on => over.tag \in Tags /\ Ends(over.tag)'
    BY <1>u, <1>4 DEF HoverInv, Ends
  <2>4. \A t \in Tags : Holds(t)' => \E o \in pointerOrigins : o.tag = t
    BY <1>3 DEF HoverInv
  <2> QED BY <2>2, <2>3, <2>4, <1>u, <1>2 DEF HoverInv
<1> QED BY <1>6, <1>7, <1>8, <1>9, <1>10

LEMMA SetFrameKeeps == ASSUME InputInv, NEW moved \in BOOLEAN, set_frame(moved) PROVE InputInv'
<1> USE DEF InputInv, InputTyped
<1>u. /\ ~drawing /\ drawing' = drawing /\ held' = held /\ list' = list /\ events' = events
      /\ view' = view /\ world' = world /\ captured' = captured /\ binder' = binder /\ pointerOrigins' = pointerOrigins
      /\ uses' = uses /\ slop' = slop /\ missed' = missed /\ orphaned' = orphaned /\ twice' = twice
      /\ over' = (IF moved THEN Idle ELSE over) /\ down' = (IF moved THEN Idle ELSE down)
      /\ dwell' = (IF moved THEN [armed |-> FALSE, on |-> FALSE] ELSE dwell)
      /\ drag' = NoDrag /\ dragging' = FALSE
  BY DEF set_frame, stream, frame
<1>1. Queue' = Queue
  BY <1>u DEF Queue
<1>2. \A v : Is(v)' = Is(v)
  BY <1>u DEF Is
<1>3. \A t : Holds(t)' = Holds(t)
  BY <1>u, <1>2 DEF Holds
<1>4. \A t : Ends(t)' = Ends(t)
  BY <1>1, <1>3 DEF Ends
<1>5. /\ over' \in [on : BOOLEAN, tag : Tags \cup {None}] /\ down' \in [on : BOOLEAN, tag : Tags \cup {None}]
      /\ dwell' \in [armed : BOOLEAN, on : BOOLEAN]
      /\ drag' \in [fpos : Places \cup {None}, tag : Tags \cup {None}, on : BOOLEAN]
  BY <1>u DEF TypeOK, Idle, NoDrag
<1>6. InputTyped'
  <2> TypeOK
    OBVIOUS
  <2>1. view' \in Views /\ captured' \in BOOLEAN /\ slop' \in BOOLEAN
    BY <1>u, Zenon DEF TypeOK
  <2>2. TypeOK'
    BY <1>u, <1>5, <2>1 DEF TypeOK
  <2> QED BY <1>u, <2>2
<1>7. WorldInv'
  BY <1>u, <1>2 DEF WorldInv
<1>8. QueueInv'
  <2> HIDE DEF Queue
  <2> QED BY <1>u, <1>1, <1>2, <1>3 DEF QueueInv, Holds
<1>9. DragInv'
  BY <1>u DEF DragInv, NoDrag
<1>10. DownInv'
  <2>1. CASE down' = down
    BY <2>1, <1>u, <1>4 DEF DownInv, Ends, Holds
  <2>2. CASE down' = Idle
    BY <2>2 DEF DownInv, Idle
  <2> QED BY <1>u, <2>1, <2>2
<1>11. HoverInv'
  <2> SUFFICES ASSUME Is("ios") PROVE HoverInv'
    BY <1>2 DEF HoverInv
  <2>1. \A t \in Tags : Holds(t)' => \E o \in pointerOrigins : o.tag = t
    BY <1>3 DEF HoverInv
  <2>2. ~dwell'.armed /\ ~dwell'.on
    BY <1>u DEF HoverInv
  <2>3. CASE over' = over
    <3>1. over.on => over.tag \in Tags /\ Ends(over.tag)'
      BY <2>3, <1>1, <1>2, <1>3, <1>u DEF HoverInv, Ends, Holds
    <3> QED BY <2>1, <2>2, <2>3, <3>1, <1>u, <1>2 DEF HoverInv
  <2>4. CASE over' = Idle
    BY <2>1, <2>2, <2>4, <1>u, <1>2 DEF HoverInv, Idle
  <2> QED BY <1>u, <2>3, <2>4
<1> QED BY <1>6, <1>7, <1>8, <1>9, <1>10, <1>11

LEMMA InputInits == Init => InputInv
<1> SUFFICES ASSUME Init PROVE InputInv
  OBVIOUS
<1> USE DEF Init
<1>1. Queue = <<>> /\ Len(Queue) = 0
  BY DEF Queue
<1>2. \A t \in Tags : ~Holds(t) /\ world[t] = Released
  BY DEF Holds, Released
<1>3. InputTyped
  <2>1. view \in Views /\ captured \in BOOLEAN /\ slop \in BOOLEAN
    BY Zenon
  <2>2. /\ world \in [Tags -> [at : Places \cup {"away"}, buttons : SUBSET Buttons, told : SUBSET Buttons]]
        /\ binder \in [left : Places \cup {None}, right : Places \cup {None}, mouseIn : BOOLEAN]
        /\ pointerOrigins \subseteq [tag : Tags, pos : Places]
    BY DEF Released
  <2>3. Len(events) <= MaxEvents[view] /\ Len(list) <= MaxEvents[view]
    BY InputAssumption
  <2>4. /\ over \in [on : BOOLEAN, tag : Tags \cup {None}] /\ down \in [on : BOOLEAN, tag : Tags \cup {None}]
        /\ dwell \in [armed : BOOLEAN, on : BOOLEAN]
        /\ drag \in [fpos : Places \cup {None}, tag : Tags \cup {None}, on : BOOLEAN]
    BY DEF Idle, NoDrag
  <2>5. TypeOK
    BY <2>1, <2>2, <2>3, <2>4 DEF TypeOK
  <2>6. events \in Seq(Pushed) /\ list \in Seq(Pushed)
    OBVIOUS
  <2> QED BY <2>5, <2>6 DEF InputTyped
<1>4. WorldInv
  BY <1>2 DEF WorldInv, Released
<1>5. QueueInv
  BY <1>1 DEF QueueInv
<1>6. DragInv /\ DownInv
  BY DEF DragInv, DownInv, NoDrag, Idle
<1>7. HoverInv
  BY <1>2 DEF HoverInv, Idle
<1> QED BY <1>3, <1>4, <1>5, <1>6, <1>7 DEF InputInv

LEMMA InputStutters == InputInv /\ UNCHANGED vars => InputInv'
<1> SUFFICES ASSUME InputInv, UNCHANGED vars PROVE InputInv'
  OBVIOUS
<1>1. /\ view' = view /\ world' = world /\ binder' = binder /\ events' = events /\ pointerOrigins' = pointerOrigins
      /\ drawing' = drawing /\ list' = list /\ held' = held /\ uses' = uses /\ slop' = slop /\ over' = over
      /\ down' = down /\ dwell' = dwell /\ drag' = drag /\ missed' = missed /\ dragging' = dragging
      /\ orphaned' = orphaned /\ twice' = twice /\ captured' = captured
  BY DEF vars, stream, frame, recognizers, ghosts
<1>2. Queue' = Queue /\ \A v : Is(v)' = Is(v)
  BY <1>1 DEF Queue, Is
<1>3. \A t : Holds(t)' = Holds(t) /\ Ends(t)' = Ends(t)
  BY <1>1, <1>2 DEF Holds, Ends
<1>4. TypeOK'
  <2>1. TypeOK
    BY DEF InputInv, InputTyped
  <2>2. view' \in Views /\ captured' \in BOOLEAN /\ slop' \in BOOLEAN
    BY <1>1, <2>1, Zenon DEF TypeOK
  <2> QED BY <1>1, <2>1, <2>2 DEF TypeOK
<1>5. InputTyped' /\ WorldInv'
  BY <1>1, <1>2, <1>4 DEF InputInv, InputTyped, WorldInv
<1>6. QueueInv' /\ DragInv' /\ DownInv' /\ HoverInv'
  BY <1>1, <1>2, <1>3 DEF QueueInv, DragInv, DownInv, HoverInv, InputInv, Ends, Holds
<1> QED BY <1>5, <1>6 DEF InputInv

LEMMA InputSteps == InputInv /\ [Next]_vars => InputInv'
<1> SUFFICES ASSUME InputInv, [Next]_vars PROVE InputInv'
  OBVIOUS
<1>1. CASE \E p \in Places \cup {"away"} : WinMouseMove(p) \/ MacMouse(p)
  BY <1>1, WinMouseMoveKeeps, MacMouseKeeps
<1>2. CASE \E b \in Buttons, double \in BOOLEAN : WinButtonDown(b, double)
  BY <1>2, WinButtonDownKeeps
<1>3. CASE \E b \in Buttons : WinButtonUp(b)
  BY <1>3, WinButtonUpKeeps
<1>4. CASE WinCaptureLost
  BY <1>4, WinCaptureLostKeeps
<1>5. CASE \E b \in Buttons, ctrl \in BOOLEAN : MacMouseDown(b, ctrl)
  BY <1>5, MacMouseDownKeeps
<1>6. CASE \E b \in Buttons, ctrl, clicks \in BOOLEAN : MacMouseUp(b, ctrl, clicks)
  BY <1>6, MacMouseUpKeeps
<1>7. CASE \E t \in Fingers[view], p \in Places : TouchesBegan(t, p) \/ TouchesMoved(t, p) \/ HandleLongPress(t, p)
  BY <1>7, TouchesBeganKeeps, TouchesMovedKeeps, HandleLongPressKeeps
<1>8. CASE \E t \in Fingers[view], k \in {"Up", "Cancel"} : TouchesEnded(t, k)
  BY <1>8, TouchesEndedKeeps
<1>9. CASE \E t \in Fingers[view] \cup {None}, p \in Places : HandleTap(t, p)
  BY <1>9, HandleTapKeeps
<1>10. CASE \E t \in {Mouse} \cup Fingers[view], p \in Places \cup {"away"} : WebPointerMove(t, p)
  BY <1>10, WebPointerMoveKeeps
<1>11. CASE \E t \in {Mouse} \cup Fingers[view], b \in Buttons, p \in Places \cup {"away"} : WebPointerDown(t, b, p)
  BY <1>11, WebPointerDownKeeps
<1>12. CASE \E t \in {Mouse} \cup Fingers[view], b \in Buttons : WebPointerUp(t, b)
  BY <1>12, WebPointerUpKeeps
<1>13. CASE \E t \in {Mouse} \cup Fingers[view] : WebPointerCancel(t)
  BY <1>13, WebPointerCancelKeeps
<1>14. CASE consume
  BY <1>14, ConsumeKeeps
<1>15. CASE Process
  BY <1>15, ProcessKeeps
<1>16. CASE Drawn
  BY <1>16, DrawnKeeps
<1>17. CASE \E moved \in BOOLEAN : set_frame(moved)
  BY <1>17, SetFrameKeeps
<1>18. CASE UNCHANGED vars
  BY <1>18, InputStutters
<1> QED
  BY <1>1, <1>2, <1>3, <1>4, <1>5, <1>6, <1>7, <1>8, <1>9, <1>10, <1>11, <1>12, <1>13, <1>14, <1>15, <1>16, <1>17, <1>18
     DEF Next

LEMMA InputInvariance == Init /\ [][Next]_vars => []InputInv
<1>1. Init => InputInv
  BY InputInits
<1>2. InputInv /\ [Next]_vars => InputInv'
  BY InputSteps
<1> QED BY <1>1, <1>2, PTL

-----------------------------------------------------------------------------
(* Proofs.  DarkModeWatcher: what the destructor leaves the thread to see.   *)

\* The event is the thread's from when it has made it until it ends.  A destructor that has stopped the thread left it a
\* signal, or before a place where it looks at _stop, unless it raced.  An open view has the theme's colours, or a change
\* on its way to it.
WatcherInv ==
    /\ Watcher!TypeOK
    /\ stop <=> opening \in {"stored", "wakes", "joins", "gone"}
    /\ hevent <=> thread \in {"checks", "asks", "waits", "calls"}
    /\ thread = "none" <=> opening \in {"reads", "starts"}
    /\ opening = "loaded" => raced
    /\ opening \in {"joins", "gone"} => raced \/ signal \/ thread \in {"starts", "checks", "done"}
    /\ opening \in {"starts", "sets"} => read = theme \/ early
    /\ opening = "open" => dark = theme \/ early \/ signal \/ thread = "calls"

LEMMA WatcherInvariance ==
    ASSUME MaxChanges \in Nat
    PROVE  Watcher!Init /\ [][Watcher!Next]_watcher => []WatcherInv
<1>1. Watcher!Init => WatcherInv
  <2>1. 0 \in 0 .. MaxChanges
    OBVIOUS
  <2> QED BY <2>1, Zenon DEF Watcher!Init, WatcherInv, Watcher!TypeOK
<1>2. WatcherInv /\ [Watcher!Next]_watcher => WatcherInv'
  <2> SUFFICES ASSUME WatcherInv, [Watcher!Next]_watcher PROVE WatcherInv'
    OBVIOUS
  <2> USE DEF WatcherInv, Watcher!TypeOK
  <2>1. CASE Watcher!Construct
    <3>1. CASE opening = "reads"
      BY <2>1, <3>1, Zenon DEF Watcher!Construct
    <3>2. CASE opening = "starts"
      BY <2>1, <3>2, Zenon DEF Watcher!Construct
    <3>3. CASE opening = "sets"
      BY <2>1, <3>3, Zenon DEF Watcher!Construct
    <3> QED BY <2>1, <3>1, <3>2, <3>3 DEF Watcher!Construct
  <2>2. CASE Watcher!Destroy
    <3>1. CASE opening = "open"
      <4>1. CASE opening' = "stored" /\ stop' = TRUE /\ UNCHANGED raced
        BY <2>2, <3>1, <4>1 DEF Watcher!Destroy
      <4>2. CASE opening' = "loaded" /\ raced' = TRUE /\ UNCHANGED stop
        BY <2>2, <3>1, <4>2 DEF Watcher!Destroy
      <4> QED BY <2>2, <3>1, <4>1, <4>2, Zenon DEF Watcher!Destroy
    <3>2. CASE opening = "stored"
      BY <2>2, <3>2 DEF Watcher!Destroy
    <3>3. CASE opening = "loaded"
      BY <2>2, <3>3 DEF Watcher!Destroy
    <3> QED BY <2>2, <3>1, <3>2, <3>3 DEF Watcher!Destroy
  <2>3. CASE Watcher!Wake
    BY <2>3 DEF Watcher!Wake
  <2>4. CASE Watcher!Join
    BY <2>4 DEF Watcher!Join
  <2>5. CASE Watcher!WatchLoop
    <3>1. UNCHANGED <<theme, changes, stop, opening, read, raced>>
      BY <2>5, Zenon DEF Watcher!WatchLoop
    <3>2. early' \in BOOLEAN /\ (early' <=> early /\ (thread # "calls" \/ opening # "open"))
      BY <2>5, Zenon DEF Watcher!WatchLoop
    <3> HIDE DEF WatcherInv, Watcher!TypeOK
    <3>3. hevent' \in BOOLEAN /\ (hevent' <=> thread' \in {"checks", "asks", "waits", "calls"})
      BY <2>5, Zenon DEF Watcher!WatchLoop, WatcherInv, Watcher!TypeOK
    <3> USE DEF WatcherInv, Watcher!TypeOK
    <3>4. CASE thread = "starts"
      <4>1. thread' \in {"checks", "done"} /\ UNCHANGED <<armed, signal, dark>>
        BY <2>5, <3>4, Zenon DEF Watcher!WatchLoop
      <4> QED BY <3>1, <3>2, <3>3, <3>4, <4>1
    <3>5. CASE thread = "checks"
      <4>1. thread' = (IF stop THEN "done" ELSE "asks") /\ UNCHANGED <<armed, signal, dark>>
        BY <2>5, <3>5, Zenon DEF Watcher!WatchLoop
      <4> QED BY <3>1, <3>2, <3>3, <3>5, <4>1
    <3>6. CASE thread = "asks"
      <4>1. thread' \in {"waits", "done"} /\ armed' \in BOOLEAN /\ UNCHANGED <<signal, dark>>
        BY <2>5, <3>6, Zenon DEF Watcher!WatchLoop
      <4> QED BY <3>1, <3>2, <3>3, <3>6, <4>1
    <3>7. CASE thread = "waits"
      <4>1. /\ signal' = FALSE /\ thread' = (IF stop THEN "checks" ELSE "calls")
            /\ UNCHANGED <<armed, dark>>
        BY <2>5, <3>7, Zenon DEF Watcher!WatchLoop
      <4>2. stop => thread' = "checks"
        BY <4>1
      <4>3. ~stop => thread' = "calls"
        BY <4>1
      <4>4. signal' \in BOOLEAN
        BY <4>1
      <4> QED BY <3>1, <3>2, <3>3, <3>7, <4>1, <4>2, <4>3, <4>4
    <3>8. CASE thread = "calls"
      <4>1. dark' = theme /\ thread' = "checks" /\ UNCHANGED <<armed, signal>>
        BY <2>5, <3>8, Zenon DEF Watcher!WatchLoop
      <4>2. dark' = theme' /\ dark' \in BOOLEAN
        BY <3>1, <4>1, Zenon
      <4> QED BY <3>1, <3>2, <3>3, <3>8, <4>1, <4>2
    <3> QED BY <2>5, <3>4, <3>5, <3>6, <3>7, <3>8 DEF Watcher!WatchLoop
  <2>6. CASE Watcher!Change
    <3>1. changes' \in 0 .. MaxChanges
      BY <2>6 DEF Watcher!Change
    <3>2. CASE armed
      BY <2>6, <3>1, <3>2, Zenon DEF Watcher!Change
    <3>3. CASE ~armed
      BY <2>6, <3>1, <3>3, Zenon DEF Watcher!Change
    <3> QED BY <3>2, <3>3
  <2>7. CASE UNCHANGED watcher
    BY <2>7 DEF watcher
  <2> QED BY <2>1, <2>2, <2>3, <2>4, <2>5, <2>6, <2>7 DEF Watcher!Next
<1> QED BY <1>1, <1>2, PTL

LEMMA WatcherIsSound == WatcherInv => Watcher!WatcherEnds
BY DEF WatcherInv, Watcher!TypeOK, Watcher!WatcherEnds, Watcher!Waits

-----------------------------------------------------------------------------
(* Proofs.  TextField: who has ended has been answered.                      *)

\* Each call is answered as often as it has ended, and the page's controls go at once.
FieldInv ==
    /\ fieldOn \in Platforms /\ place \in {"shown", "bare", "gone"}
    /\ asked \subseteq Fields /\ finished \subseteq asked /\ up \subseteq asked
    /\ answers = [f \in Fields |-> IF f \in finished THEN 1 ELSE 0]
    /\ fieldOn = "web" => closes = {}
    /\ asked \ finished = fields /\ \A f, g \in fields : f = g
    /\ fields \subseteq up /\ closes \subseteq up \cap finished
    /\ place = "gone" => fields = {}

\* Whatever ends fields answers those that had not ended.
LEMMA AnsweredOnce ==
    ASSUME FieldInv, NEW S, Field!Answer(S), finished' = finished \cup S
    PROVE  (answers = [f \in Fields |-> IF f \in finished THEN 1 ELSE 0])'
<1>1. answers' = [f \in Fields |-> answers[f] + (IF f \in S \ finished THEN 1 ELSE 0)]
  BY Zenon DEF Field!Answer
<1>2. \A f \in Fields : answers[f] + (IF f \in S \ finished THEN 1 ELSE 0) = IF f \in finished' THEN 1 ELSE 0
  BY DEF FieldInv
<1> QED BY <1>1, <1>2, Zenon

LEMMA FieldFinishes ==
    ASSUME FieldInv, NEW f \in Fields, Field!Asks(f), NEW S, S = {f} \/ S = fields \cup {f}, NEW stays,
           stays = up \/ stays = up \cup {f}, Field!finish(S, stays)
    PROVE  FieldInv'
<1>1. (answers = [g \in Fields |-> IF g \in finished THEN 1 ELSE 0])'
  BY AnsweredOnce DEF Field!finish
<1> QED BY <1>1 DEF FieldInv, Field!finish, Field!Asks

LEMMA FieldComesUp == ASSUME FieldInv, NEW f \in Fields, Field!Asks(f), place # "gone", Field!ComesUp(f) PROVE FieldInv'
<1>1. (answers = [g \in Fields |-> IF g \in finished THEN 1 ELSE 0])'
  BY AnsweredOnce DEF Field!ComesUp
<1> QED BY <1>1 DEF FieldInv, Field!ComesUp, Field!Asks

LEMMA FieldEnds ==
    ASSUME FieldInv, NEW S \in SUBSET up, Field!finish(S, up), UNCHANGED <<fieldOn, asked>>,
           place' \in {"shown", "bare", "gone"}, place' = "gone" => fields \subseteq S
    PROVE  FieldInv'
<1>1. (answers = [g \in Fields |-> IF g \in finished THEN 1 ELSE 0])'
  BY AnsweredOnce DEF Field!finish
<1> QED BY <1>1 DEF FieldInv, Field!finish

LEMMA FieldInvariance == Field!Init /\ [][Field!Next]_field => []FieldInv
<1>1. Field!Init => FieldInv
  BY DEF Field!Init, FieldInv
<1>2. FieldInv /\ [Field!Next]_field => FieldInv'
  <2> SUFFICES ASSUME FieldInv, [Field!Next]_field PROVE FieldInv'
    OBVIOUS
  <2>1. ASSUME NEW f \in Fields, Field!WinEdit(f) \/ Field!MacEdit(f) \/ Field!IosEdit(f) \/ Field!WebEdit(f)
        PROVE  FieldInv'
    <3>1. Field!Asks(f)
      BY <2>1 DEF Field!WinEdit, Field!MacEdit, Field!IosEdit, Field!WebEdit
    <3>2. CASE place = "shown" /\ Field!ComesUp(f)
      BY <3>1, <3>2, FieldComesUp
    <3>3. ASSUME NEW S \in {{f}, fields \cup {f}}, NEW stays \in {up, up \cup {f}}, Field!finish(S, stays)
          PROVE  FieldInv'
      BY <3>1, <3>3, FieldFinishes
    <3>4. {f} \cup fields = fields \cup {f} /\ {f} \cup {} = {f}
      OBVIOUS
    <3> QED BY <2>1, <3>2, <3>3, <3>4 DEF Field!WinEdit, Field!MacEdit, Field!IosEdit, Field!WebEdit
  <2>2. ASSUME NEW f \in Fields, Field!WinTold(f) \/ Field!MacTold(f) \/ Field!IosTold(f) \/ Field!tiny_web_text_done(f)
        PROVE  FieldInv'
    BY <2>2, FieldEnds
       DEF Field!WinTold, Field!MacTold, Field!IosTold, Field!tiny_web_text_done, Field!Told, FieldInv
  <2>3. ASSUME NEW f \in Fields, Field!TakeDown(f) PROVE FieldInv'
    <3>1. (answers = [g \in Fields |-> IF g \in finished THEN 1 ELSE 0])'
      BY <2>3, AnsweredOnce DEF Field!TakeDown
    <3> QED BY <2>3, <3>1 DEF Field!TakeDown, FieldInv
  <2>4. CASE Field!WinCancel \/ Field!MacCancel \/ Field!IosCancel \/ Field!WebCancel
    BY <2>4, FieldEnds
       DEF Field!WinCancel, Field!MacCancel, Field!IosCancel, Field!WebCancel, Field!EndOpen, FieldInv
  <2>5. CASE Field!WindowGone
    <3>1. CASE fieldOn = "win"
      <4>1. (answers = [g \in Fields |-> IF g \in finished THEN 1 ELSE 0])'
        BY <2>5, <3>1, AnsweredOnce DEF Field!WindowGone
      <4> QED BY <2>5, <3>1, <4>1 DEF Field!WindowGone, FieldInv
    <3>2. CASE fieldOn # "win"
      BY <2>5, <3>2, FieldEnds DEF Field!WindowGone, FieldInv
    <3> QED BY <3>1, <3>2
  <2>6. CASE Field!InWindow
    BY <2>6 DEF Field!InWindow, FieldInv
  <2>7. CASE Field!WinGone
    <3>1. (answers = [g \in Fields |-> IF g \in finished THEN 1 ELSE 0])'
      <4>1. Field!Answer(up \cup fields) /\ finished' = finished \cup (up \cup fields)
        BY <2>7 DEF Field!WinGone
      <4> QED BY <4>1, AnsweredOnce
    <3> QED BY <2>7, <3>1 DEF Field!WinGone, FieldInv
  <2>8. CASE Field!ViewGone
    BY <2>8, FieldEnds DEF Field!ViewGone, FieldInv
  <2>9. CASE UNCHANGED field
    BY <2>9 DEF field, FieldInv
  <2> QED BY <2>1, <2>2, <2>3, <2>4, <2>5, <2>6, <2>7, <2>8, <2>9 DEF Field!Next
<1> QED BY <1>1, <1>2, PTL

LEMMA FieldIsSound == FieldInv => Field!TypeOK /\ Field!FieldsAnswer
BY DEF FieldInv, Field!TypeOK, Field!FieldsAnswer

-----------------------------------------------------------------------------
(* Proofs.  Dialogs: the answer a request has had tells where it is.         *)

DialogTyped ==
    /\ dialogsOn \in Platforms /\ asking \in {"shown", "bare", "gone"} /\ hostWindow \in BOOLEAN /\ tasks \in BOOLEAN
    /\ kind \in [Requests -> Dialog!Kinds] /\ named \in [Requests -> BOOLEAN]
    /\ at \in [Requests -> Dialog!Places] /\ waits \in [Requests -> 0 .. MaxSheetWaits]
    /\ sheet \in Requests \cup {"host", None} /\ ended \in [Requests -> {None, "ok", "cancel"}]
    /\ answered \in [Requests -> {0, 1}] /\ toldOf \in [Requests -> Requests \cup {None}]
    /\ late \subseteq Requests /\ shared \subseteq Requests /\ buffer \in Requests \cup {None}

\* iOS answers a save when its file is written, before it shows anything.
Saved(r) == dialogsOn = "ios" /\ kind[r] = "save" /\ at[r] \in {"queued", "up"}

\* A request that is not over has no answer, but for that; one that is over has one, or nobody to give it to.
Fate(r) ==
    /\ at[r] # "settled" => answered[r] = IF Saved(r) THEN 1 ELSE 0
    /\ at[r] = "settled" /\ answered[r] = 0 => ~tasks \/ asking # "shown" \/ (dialogsOn = "web" /\ kind[r] = "text")
    /\ at[r] = "waiting" => sheet # None /\ waits[r] > 0
    /\ at[r] = "background" /\ dialogsOn = "ios" => kind[r] = "save"

Typing(r) == kind[r] = "text" /\ at[r] = "up"

\* Windows' text inputs: none has ended before it is up, two that are up are known to share, and one that has ended well
\* has the buffer to itself unless it shared it.
Text(r) ==
    /\ toldOf[r] \in {r, None} \/ r \in shared
    /\ dialogsOn = "win" /\ at[r] \notin {"up", "settled"} => ended[r] = None
    /\ dialogsOn = "win" /\ Typing(r) /\ ended[r] = "ok" => buffer = r \/ r \in shared
    /\ dialogsOn = "win" => \A q \in Requests : q # r /\ Typing(q) /\ Typing(r) => {q, r} \subseteq shared

DialogInv ==
    /\ DialogTyped
    /\ \A r \in Requests : Fate(r) /\ Text(r)
    /\ dialogsOn = "mac" => modals = <<>> \/ \E r \in Requests : modals = <<r>> /\ ~named[r]
    /\ dialogsOn # "web" => late = {}

\* What an answer leaves of a request that had none.
LEMMA AnswersOnce ==
    ASSUME DialogTyped, NEW r \in Requests, answered[r] = 0, NEW text \in Requests \cup {None}, Dialog!Answer(r, text)
    PROVE  /\ answered' \in [Requests -> {0, 1}]
           /\ answered'[r] = IF tasks \/ dialogsOn = "web" THEN 1 ELSE 0
           /\ \A q \in Requests \ {r} : answered'[q] = answered[q] /\ toldOf'[q] = toldOf[q]
           /\ toldOf' \in [Requests -> Requests \cup {None}] /\ toldOf'[r] = text
           /\ late' \subseteq Requests /\ (dialogsOn # "web" => late' = late)
<1> USE DEF Dialog!Answer, Dialog!later, Dialog!Post, Dialog!Is, DialogTyped
<1>1. toldOf' = [toldOf EXCEPT ![r] = text]
  OBVIOUS
<1>2. answered' = IF tasks \/ dialogsOn = "web" THEN [answered EXCEPT ![r] = @ + 1] ELSE answered
  OBVIOUS
<1>3. late' \subseteq Requests /\ (dialogsOn # "web" => late' = late)
  OBVIOUS
<1>4. CASE tasks \/ dialogsOn = "web"
  BY <1>1, <1>2, <1>3, <1>4
<1>5. CASE ~(tasks \/ dialogsOn = "web")
  BY <1>1, <1>2, <1>3, <1>5
<1> QED BY <1>4, <1>5

\* An answer that ends a request, with its own text or one it shares.
LEMMA SettlesAnswered ==
    ASSUME DialogInv, NEW r \in Requests, at[r] # "settled", ~Saved(r), NEW text \in Requests \cup {None},
           text \in {r, None} \/ r \in shared, Dialog!Answer(r, text), Dialog!Goes(r, "settled"),
           UNCHANGED <<dialogsOn, asking, hostWindow, tasks, kind, named, waits, sheet, ended, buffer, shared>>,
           dialogsOn = "mac" => modals' = modals \/ modals' = <<>>
    PROVE  DialogInv'
<1>1. at' = [at EXCEPT ![r] = "settled"] /\ at' \in [Requests -> Dialog!Places]
  BY DEF Dialog!Goes, DialogInv, DialogTyped, Dialog!Places
<1>2. answered[r] = 0
  BY DEF DialogInv, Fate
<1>3. /\ answered' \in [Requests -> {0, 1}]
      /\ answered'[r] = IF tasks \/ dialogsOn = "web" THEN 1 ELSE 0
      /\ \A q \in Requests \ {r} : answered'[q] = answered[q] /\ toldOf'[q] = toldOf[q]
      /\ toldOf' \in [Requests -> Requests \cup {None}] /\ toldOf'[r] = text
      /\ late' \subseteq Requests /\ (dialogsOn # "web" => late' = late)
  BY <1>2, AnswersOnce DEF DialogInv
<1>4. DialogTyped'
  BY <1>1, <1>3 DEF DialogInv, DialogTyped
<1>5. at'[r] = "settled" /\ \A q \in Requests \ {r} : at'[q] = at[q]
  BY <1>1 DEF DialogInv, DialogTyped
<1>6. ASSUME NEW q \in Requests PROVE Fate(q)' /\ Text(q)'
  BY <1>3, <1>5 DEF DialogInv, DialogTyped, Fate, Text, Typing, Saved
<1> QED BY <1>3, <1>4, <1>6 DEF DialogInv

\* A request moves on unanswered, and is not over.
LEMMA MovesOn ==
    ASSUME DialogInv, NEW r \in Requests, NEW where \in Dialog!Places \ {"settled"}, Dialog!Goes(r, where),
           at[r] # "settled", at[r] # "up", where = "up" => dialogsOn # "win",
           where = "waiting" => sheet # None /\ waits[r] > 0,
           (dialogsOn = "ios" /\ kind[r] = "save") => \/ at[r] = "idle" /\ where = "background"
                                                      \/ at[r] = "queued" /\ where = "up",
           where = "background" /\ dialogsOn = "ios" => kind[r] = "save",
           UNCHANGED <<dialogsOn, asking, hostWindow, tasks, kind, named, waits, ended, buffer, shared>>,
           UNCHANGED <<answered, toldOf, late>>,
           sheet' \in Requests \cup {"host", None}, sheet # None => sheet' = sheet,
           dialogsOn = "mac" => modals' = modals \/ (modals' = <<r>> /\ ~named[r])
    PROVE  DialogInv'
<1>1. at' = [at EXCEPT ![r] = where] /\ at' \in [Requests -> Dialog!Places]
  BY DEF Dialog!Goes, DialogInv, DialogTyped
<1>2. DialogTyped'
  BY <1>1 DEF DialogInv, DialogTyped
<1>3. at'[r] = where /\ \A q \in Requests \ {r} : at'[q] = at[q]
  BY <1>1 DEF DialogInv, DialogTyped
<1>4. ASSUME NEW q \in Requests PROVE Fate(q)' /\ Text(q)'
  BY <1>3 DEF DialogInv, DialogTyped, Fate, Text, Typing, Saved
<1> QED BY <1>2, <1>4 DEF DialogInv

\* A request is over without an answer of now.
LEMMA SettlesSilently ==
    ASSUME DialogInv, NEW r \in Requests, Dialog!Goes(r, "settled"),
           answered[r] = 1 \/ asking # "shown" \/ (dialogsOn = "web" /\ kind[r] = "text"),
           at[r] # "settled", UNCHANGED <<Dialog!asker, Dialog!main, Dialog!answering>>
    PROVE  DialogInv'
<1> USE DEF Dialog!asker, Dialog!main, Dialog!answering
<1>1. at' = [at EXCEPT ![r] = "settled"] /\ at' \in [Requests -> Dialog!Places]
  BY DEF Dialog!Goes, DialogInv, DialogTyped, Dialog!Places
<1>2. DialogTyped'
  BY <1>1 DEF DialogInv, DialogTyped
<1>3. at'[r] = "settled" /\ \A q \in Requests \ {r} : at'[q] = at[q]
  BY <1>1 DEF DialogInv, DialogTyped
<1>4. ASSUME NEW q \in Requests PROVE Fate(q)' /\ Text(q)'
  BY <1>3 DEF DialogInv, DialogTyped, Fate, Text, Typing, Saved
<1> QED BY <1>2, <1>4 DEF DialogInv

\* A sheet ends, and with it the wait of those in `others` that waited for it.
LEMMA SheetGoes ==
    ASSUME MaxSheetWaits \in Nat, DialogInv, dialogsOn = "mac",
           NEW others \in [Requests -> Dialog!Places], Dialog!SheetEnds(others),
           UNCHANGED <<dialogsOn, asking, hostWindow, tasks, kind, named, ended, buffer, shared, late>>,
           modals' = modals \/ modals' = <<>>,
           answered' \in [Requests -> {0, 1}], toldOf' \in [Requests -> Requests \cup {None}],
           \A q \in Requests : \/ others[q] = at[q] /\ answered'[q] = answered[q] /\ toldOf'[q] = toldOf[q]
                               \/ /\ others[q] = "settled" /\ toldOf'[q] = q
                                  /\ answered'[q] = 0 => ~tasks
    PROVE  DialogInv'
<1>1. at' = [q \in Requests |-> IF others[q] = "waiting" THEN "queued" ELSE others[q]] /\ sheet' = None
  BY DEF Dialog!SheetEnds
<1>2. waits' = [q \in Requests |-> IF others[q] = "waiting" THEN waits[q] - 1 ELSE waits[q]]
  BY DEF Dialog!SheetEnds
<1>3. at' \in [Requests -> Dialog!Places]
  BY <1>1 DEF Dialog!Places
<1>4. waits' \in [Requests -> 0 .. MaxSheetWaits]
  <2>1. ASSUME NEW q \in Requests PROVE (IF others[q] = "waiting" THEN waits[q] - 1 ELSE waits[q]) \in 0 .. MaxSheetWaits
    <3>1. waits[q] \in 0 .. MaxSheetWaits
      BY DEF DialogInv, DialogTyped
    <3>2. others[q] = "waiting" => waits[q] > 0
      BY DEF DialogInv, Fate
    <3> QED BY <3>1, <3>2
  <2> QED BY <1>2, <2>1
<1>5. DialogTyped'
  BY <1>1, <1>3, <1>4 DEF DialogInv, DialogTyped
<1>6. ASSUME NEW q \in Requests PROVE Fate(q)' /\ Text(q)'
  BY <1>1 DEF DialogInv, DialogTyped, Fate, Text, Typing, Saved
<1> QED BY <1>5, <1>6 DEF DialogInv

LEMMA DialogInvariance ==
    ASSUME MaxSheetWaits \in Nat, None # "ok"
    PROVE  Dialog!Init /\ [][Dialog!Next]_dialogs => []DialogInv
<1>1. Dialog!Init => DialogInv
  <2> SUFFICES ASSUME Dialog!Init PROVE DialogInv
    OBVIOUS
  <2>1. MaxSheetWaits \in 0 .. MaxSheetWaits
    OBVIOUS
  <2>2. kind \in [Requests -> Dialog!Kinds] /\ named \in [Requests -> BOOLEAN]
    BY DEF Dialog!Init, Dialog!Kinds
  <2>3. DialogTyped
    BY <2>1, <2>2 DEF Dialog!Init, DialogTyped, Dialog!Places
  <2>4. ASSUME NEW r \in Requests PROVE Fate(r) /\ Text(r)
    BY DEF Dialog!Init, Fate, Text, Typing, Saved
  <2> QED BY <2>3, <2>4 DEF Dialog!Init, DialogInv
<1>2. DialogInv /\ [Dialog!Next]_dialogs => DialogInv'
  <2> SUFFICES ASSUME DialogInv, [Dialog!Next]_dialogs PROVE DialogInv'
    OBVIOUS
  <2> USE DEF Dialog!asker, Dialog!main, Dialog!answering, Dialog!Is, Dialog!Up, Dialog!NoAnswer
  <2>1. ASSUME NEW r \in Requests, Dialog!Ask(r) PROVE DialogInv'
    <3>1. CASE Dialog!Goes(r, "background")
      BY <2>1, <3>1, MovesOn DEF Dialog!Ask, Dialog!Places, DialogInv, DialogTyped
    <3>2. CASE Dialog!Goes(r, "queued")
      BY <2>1, <3>2, MovesOn DEF Dialog!Ask, Dialog!Places, DialogInv, DialogTyped
    <3> QED BY <2>1, <3>1, <3>2 DEF Dialog!Ask
  <2>2. ASSUME NEW r \in Requests, Dialog!AskPage(r) PROVE DialogInv'
    <3>1. CASE kind[r] = "pick" /\ Dialog!Goes(r, "parked") /\ Dialog!NoAnswer
      BY <2>2, <3>1, MovesOn DEF Dialog!AskPage, Dialog!Places, DialogInv, DialogTyped
    <3>2. CASE Dialog!Goes(r, "settled") /\ Dialog!Answer(r, r)
      BY <2>2, <3>2, SettlesAnswered DEF Dialog!AskPage, Saved
    <3>3. CASE kind[r] = "text" /\ Dialog!Goes(r, "settled") /\ Dialog!NoAnswer
      BY <2>2, <3>3, SettlesSilently DEF Dialog!AskPage
    <3> QED BY <2>2, <3>1, <3>2, <3>3 DEF Dialog!AskPage
  <2>3. ASSUME NEW r \in Requests, Dialog!DialogDone(r) PROVE DialogInv'
    BY <2>3, SettlesAnswered DEF Dialog!DialogDone, Saved
  <2>4. ASSUME NEW r \in Requests, Dialog!RunQueuedDialog(r) PROVE DialogInv'
    <3>1. at' = [at EXCEPT ![r] = "up"] /\ at' \in [Requests -> Dialog!Places]
      BY <2>4 DEF Dialog!RunQueuedDialog, Dialog!Goes, DialogInv, DialogTyped, Dialog!Places
    <3>2. at'[r] = "up" /\ \A q \in Requests \ {r} : at'[q] = at[q]
      BY <3>1 DEF DialogInv, DialogTyped
    <3>3. buffer' = IF kind[r] = "text" THEN None ELSE buffer
      BY <2>4 DEF Dialog!RunQueuedDialog, Dialog!Opens
    <3>4. /\ shared \subseteq shared' /\ shared' \subseteq Requests
          /\ kind[r] = "text" => \A q \in Requests : q # r /\ Typing(q) => {q, r} \subseteq shared'
      BY <2>4 DEF Dialog!RunQueuedDialog, Dialog!Opens, Typing, DialogInv, DialogTyped
    <3>5. DialogTyped'
      BY <2>4, <3>1, <3>3, <3>4 DEF Dialog!RunQueuedDialog, DialogInv, DialogTyped
    <3>6. ASSUME NEW q \in Requests PROVE Fate(q)'
      BY <2>4, <3>2 DEF Dialog!RunQueuedDialog, DialogInv, DialogTyped, Fate, Saved
    <3>7. ASSUME NEW q \in Requests PROVE Text(q)'
      BY <2>4, <3>2, <3>3, <3>4 DEF Dialog!RunQueuedDialog, DialogInv, DialogTyped, Text, Typing
    <3> QED BY <2>4, <3>5, <3>6, <3>7 DEF Dialog!RunQueuedDialog, DialogInv
  <2>5. ASSUME NEW r \in Requests, Dialog!DialogReturns(r) PROVE DialogInv'
    <3>1. PICK text \in Requests \cup {None} :
             (text \in {r, None} \/ r \in shared) /\ Dialog!Answer(r, text)
      BY <2>5 DEF Dialog!DialogReturns, DialogInv, DialogTyped, Text, Typing
    <3> QED BY <2>5, <3>1, SettlesAnswered DEF Dialog!DialogReturns, Saved
  <2>6. ASSUME NEW r \in Requests, Dialog!RunBlock(r) PROVE DialogInv'
    <3> DEFINE first == waits[r] = MaxSheetWaits
    <3>1. CASE Dialog!Goes(r, "settled") /\ Dialog!Answer(r, r) /\ UNCHANGED <<sheet, modals>>
      BY <2>6, <3>1, SettlesAnswered DEF Dialog!RunBlock, Saved
    <3>2. CASE /\ ~(first /\ Dialog!requester_gone(r)) /\ first /\ ~Dialog!host_window
               /\ Dialog!Goes(r, "up") /\ modals' = <<r>> /\ Dialog!NoAnswer /\ UNCHANGED sheet
      <4>1. ~named[r]
        BY <3>2 DEF Dialog!requester_gone, Dialog!host_window
      <4> QED BY <2>6, <3>2, <4>1, MovesOn DEF Dialog!RunBlock, Dialog!Places, DialogInv, DialogTyped
    <3>3. CASE /\ Dialog!Goes(r, "up") /\ sheet' = (IF sheet = None THEN r ELSE sheet)
               /\ Dialog!NoAnswer /\ UNCHANGED modals
      BY <2>6, <3>3, MovesOn DEF Dialog!RunBlock, Dialog!Places, DialogInv, DialogTyped
    <3>4. CASE /\ ~(sheet = None \/ waits[r] = 0)
               /\ Dialog!Goes(r, "waiting") /\ Dialog!NoAnswer /\ UNCHANGED <<sheet, modals>>
      <4>1. waits[r] > 0
        BY <3>4 DEF DialogInv, DialogTyped
      <4> QED BY <2>6, <3>4, <4>1, MovesOn DEF Dialog!RunBlock, Dialog!Places, DialogInv, DialogTyped
    <3> QED BY <2>6, <3>1, <3>2, <3>3, <3>4 DEF Dialog!RunBlock
  <2>7. ASSUME NEW r \in Requests, Dialog!Respond(r) PROVE DialogInv'
    <3>1. modals' = modals \/ modals' = <<>>
      <4>1. CASE Dialog!InLoop(r)
        <5>1. PICK q \in Requests : modals = <<q>>
          BY <2>7, <4>1 DEF Dialog!Respond, Dialog!InLoop, DialogInv
        <5>2. SubSeq(<<q>>, 1, Len(<<q>>) - 1) = <<>>
          OBVIOUS
        <5> QED BY <2>7, <4>1, <5>1, <5>2 DEF Dialog!Respond, Dialog!Front
      <4> QED BY <2>7, <4>1 DEF Dialog!Respond
    <3>2. CASE sheet # r
      BY <2>7, <3>1, <3>2, SettlesAnswered DEF Dialog!Respond, Saved
    <3>3. CASE sheet = r
      <4> DEFINE others == [at EXCEPT ![r] = "settled"]
      <4>1. others \in [Requests -> Dialog!Places]
        BY DEF DialogInv, DialogTyped, Dialog!Places
      <4>2. Dialog!SheetEnds(others)
        BY <2>7, <3>3 DEF Dialog!Respond
      <4>3. answered[r] = 0
        BY <2>7 DEF Dialog!Respond, DialogInv, Fate, Saved
      <4>4. /\ answered' \in [Requests -> {0, 1}]
            /\ answered'[r] = IF tasks \/ dialogsOn = "web" THEN 1 ELSE 0
            /\ \A q \in Requests \ {r} : answered'[q] = answered[q] /\ toldOf'[q] = toldOf[q]
            /\ toldOf' \in [Requests -> Requests \cup {None}] /\ toldOf'[r] = r
            /\ late' \subseteq Requests /\ (dialogsOn # "web" => late' = late)
        BY <2>7, <4>3, AnswersOnce DEF Dialog!Respond, DialogInv
      <4>5. others[r] = "settled" /\ \A q \in Requests \ {r} : others[q] = at[q]
        BY DEF DialogInv, DialogTyped
      <4> HIDE DEF others
      <4> QED BY <2>7, <3>1, <4>1, <4>2, <4>4, <4>5, SheetGoes DEF Dialog!Respond
    <3> QED BY <3>2, <3>3
  <2>8. ASSUME NEW r \in Requests, Dialog!SaveScratch(r) PROVE DialogInv'
    <3>1. at' = [at EXCEPT ![r] = "queued"] /\ at' \in [Requests -> Dialog!Places]
      BY <2>8 DEF Dialog!SaveScratch, Dialog!Goes, DialogInv, DialogTyped, Dialog!Places
    <3>2. at'[r] = "queued" /\ \A q \in Requests \ {r} : at'[q] = at[q]
      BY <3>1 DEF DialogInv, DialogTyped
    <3>3. answered[r] = 0 /\ kind[r] = "save" /\ tasks
      BY <2>8 DEF Dialog!SaveScratch, DialogInv, Fate, Saved
    <3>4. /\ answered' \in [Requests -> {0, 1}] /\ answered'[r] = 1
          /\ \A q \in Requests \ {r} : answered'[q] = answered[q] /\ toldOf'[q] = toldOf[q]
          /\ toldOf' \in [Requests -> Requests \cup {None}] /\ toldOf'[r] = r
          /\ late' \subseteq Requests /\ (dialogsOn # "web" => late' = late)
      BY <2>8, <3>3, AnswersOnce DEF Dialog!SaveScratch, DialogInv
    <3>5. DialogTyped'
      BY <2>8, <3>1, <3>4 DEF Dialog!SaveScratch, DialogInv, DialogTyped
    <3>6. ASSUME NEW q \in Requests PROVE Fate(q)' /\ Text(q)'
      BY <2>8, <3>2, <3>3, <3>4 DEF Dialog!SaveScratch, DialogInv, DialogTyped, Fate, Text, Typing, Saved
    <3> QED BY <2>8, <3>4, <3>5, <3>6 DEF Dialog!SaveScratch, DialogInv
  <2>9. ASSUME NEW r \in Requests, Dialog!Present(r) PROVE DialogInv'
    <3>1. CASE Dialog!top_view_controller
      BY <2>9, <3>1, MovesOn DEF Dialog!Present, Dialog!Places, DialogInv, DialogTyped
    <3>2. CASE ~Dialog!top_view_controller
      BY <2>9, <3>2, SettlesSilently DEF Dialog!Present, Dialog!top_view_controller
    <3> QED BY <3>1, <3>2
  <2>10. ASSUME NEW r \in Requests, Dialog!Pick(r) PROVE DialogInv'
    <3>1. CASE kind[r] = "save"
      BY <2>10, <3>1, SettlesSilently DEF Dialog!Pick, DialogInv, Fate, Saved
    <3>2. CASE kind[r] # "save"
      BY <2>10, <3>2, SettlesAnswered DEF Dialog!Pick, Saved
    <3> QED BY <3>1, <3>2
  <2>11. ASSUME NEW r \in Requests, NEW how \in {"ok", "cancel"}, Dialog!EndDialog(r, how) PROVE DialogInv'
    <3>1. ended' = [ended EXCEPT ![r] = how] /\ ended' \in [Requests -> {None, "ok", "cancel"}]
      BY <2>11 DEF Dialog!EndDialog, DialogInv, DialogTyped
    <3>2. ended'[r] = how /\ \A q \in Requests \ {r} : ended'[q] = ended[q]
      BY <3>1 DEF DialogInv, DialogTyped
    <3>3. buffer' = IF how = "ok" /\ kind[r] = "text" THEN r ELSE buffer
      BY <2>11 DEF Dialog!EndDialog
    <3>4. DialogTyped'
      BY <2>11, <3>1, <3>3 DEF Dialog!EndDialog, DialogInv, DialogTyped
    <3>5. ASSUME NEW q \in Requests PROVE Fate(q)'
      BY <2>11 DEF Dialog!EndDialog, DialogInv, Fate, Saved
    <3>6. ASSUME NEW q \in Requests PROVE Text(q)'
      BY <2>11, <3>2, <3>3 DEF Dialog!EndDialog, DialogInv, DialogTyped, Text, Typing
    <3> QED BY <2>11, <3>4, <3>5, <3>6 DEF Dialog!EndDialog, DialogInv
  <2>12. CASE Dialog!HostSheet
    <3>1. CASE sheet = None /\ sheet' = "host" /\ UNCHANGED <<at, waits>>
      <4>1. ASSUME NEW q \in Requests PROVE Fate(q)' /\ Text(q)'
        BY <2>12, <3>1 DEF Dialog!HostSheet, DialogInv, Fate, Text, Typing, Saved
      <4>2. DialogTyped'
        BY <2>12, <3>1 DEF Dialog!HostSheet, DialogInv, DialogTyped
      <4> QED BY <2>12, <3>1, <4>1, <4>2 DEF Dialog!HostSheet, DialogInv
    <3>2. CASE Dialog!SheetEnds(at)
      BY <2>12, <3>2, SheetGoes DEF Dialog!HostSheet, DialogInv, DialogTyped
    <3> QED BY <2>12, <3>1, <3>2 DEF Dialog!HostSheet
  <2>13. ASSUME NEW to \in {"bare", "gone"}, Dialog!ViewGoes(to) PROVE DialogInv'
    <3>1. at' \in [Requests -> Dialog!Places]
      BY <2>13 DEF Dialog!ViewGoes, DialogInv, DialogTyped, Dialog!Places
    <3>2. \A q \in Requests : at'[q] = at[q] \/ (dialogsOn = "win" /\ at[q] = "queued" /\ at'[q] = "settled")
      BY <2>13 DEF Dialog!ViewGoes
    <3>3. DialogTyped'
      BY <2>13, <3>1 DEF Dialog!ViewGoes, DialogInv, DialogTyped
    <3>4. ASSUME NEW q \in Requests PROVE Fate(q)' /\ Text(q)'
      BY <2>13, <3>2 DEF Dialog!ViewGoes, DialogInv, DialogTyped, Fate, Text, Typing, Saved
    <3> QED BY <2>13, <3>3, <3>4 DEF Dialog!ViewGoes, DialogInv
  <2>14. CASE Dialog!Shutdown
    <3>1. at' \in [Requests -> Dialog!Places]
      BY <2>14 DEF Dialog!Shutdown, DialogInv, DialogTyped, Dialog!Places
    <3>2. \A q \in Requests : at'[q] = at[q] \/ (at[q] = "background" /\ at'[q] = "settled")
      BY <2>14 DEF Dialog!Shutdown
    <3>3. DialogTyped'
      BY <2>14, <3>1 DEF Dialog!Shutdown, DialogInv, DialogTyped
    <3>4. ASSUME NEW q \in Requests PROVE Fate(q)' /\ Text(q)'
      BY <2>14, <3>2 DEF Dialog!Shutdown, DialogInv, DialogTyped, Fate, Text, Typing, Saved
    <3> QED BY <2>14, <3>3, <3>4 DEF Dialog!Shutdown, DialogInv
  <2>15. CASE UNCHANGED dialogs
    BY <2>15 DEF dialogs, DialogInv, DialogTyped, Fate, Text, Typing, Saved
  <2> QED BY <2>1, <2>2, <2>3, <2>4, <2>5, <2>6, <2>7, <2>8, <2>9, <2>10, <2>11, <2>12, <2>13, <2>14, <2>15
          DEF Dialog!Next
<1> QED BY <1>1, <1>2, PTL

LEMMA DialogIsSound == DialogInv => Dialog!TypeOK /\ Dialog!DialogsAnswer
<1> SUFFICES ASSUME DialogInv PROVE Dialog!TypeOK /\ Dialog!DialogsAnswer
  OBVIOUS
<1>1. Dialog!TypeOK
  BY DEF DialogInv, DialogTyped, Dialog!TypeOK
<1>2. dialogsOn = "mac" => \A r \in Requests : Dialog!InLoop(r) => ~named[r]
  BY DEF DialogInv, Dialog!InLoop
<1>3. ASSUME NEW r \in Requests
      PROVE  answered[r] <= 1 /\ (at[r] = "waiting" => sheet # None) /\ (toldOf[r] \in {r, None} \/ r \in shared)
  <2>1. answered[r] \in {0, 1}
    BY DEF DialogInv, DialogTyped
  <2> QED BY <2>1 DEF DialogInv, Fate, Text
<1>4. tasks /\ asking = "shown" => \A r \in Dialog!Unanswered : dialogsOn = "web" /\ kind[r] = "text"
  BY DEF DialogInv, Fate, Dialog!Unanswered
<1> QED BY <1>1, <1>2, <1>3, <1>4 DEF DialogInv, Dialog!DialogsAnswer, Dialog!Is

-----------------------------------------------------------------------------
(* Proofs.  ViewLife: what is told goes to the one view the wrapper has.     *)

LifeAssumption == None \notin Opened /\ Editions \subseteq Builds

LifeTyped ==
    /\ <<host, platform>> \in Editions /\ cur \in Opened \cup {None}
    /\ native \subseteq Opened /\ placed \subseteq Opened /\ context \subseteq Opened /\ detached \subseteq Opened
    /\ link \subseteq Opened /\ wanted \subseteq Opened /\ dead \subseteq Opened
    /\ due \in [Opened -> 0 .. 2]
    /\ foreground \in BOOLEAN /\ visible \in BOOLEAN /\ setup \in BOOLEAN /\ gone \in BOOLEAN /\ session \in BOOLEAN
    /\ editor \in {"none", "created", "shown", "hidden"} /\ unit \in {"none", "unit", "editor"}

\* The editor is there as long as the wrapper has a view, but for AUv2's; how far it has been opened is what the host
\* last asked for.  Its session ends before it does, but for the hosts of which that is not said.
Opens ==
    /\ "null" \in lapses \/ host = "auv2" \/ (cur = None <=> editor = "none")
    /\ host = "auv2" => editor \in {"none", "shown"}
    /\ editor = "shown" => cur # None
    /\ platform # "ios" => foreground
    /\ host \in {"vst3", "aax", "web"} /\ editor = "none" => ~session
    /\ platform = "ios" /\ session => editor = "shown"
    /\ host = "clap" => (visible <=> editor = "shown")
    /\ host = "auv3" /\ cur # None =>
          "null" \in lapses \/ editor \in (IF visible THEN {"created", "shown"} ELSE {"created", "hidden"})

\* What is left of a view is one that was made.  Only the wrapper's own reaches the editor.
Known(v) ==
    /\ v \in placed \/ v \in context \/ v \in link \/ v \in wanted \/ due[v] # 0 \/ cur = v =>
          v \in native \/ v \in detached \/ v \in dead
    /\ v \in context /\ v \notin detached => v = cur /\ ("null" \in lapses \/ editor # "none")
    /\ host # "auv2" /\ v = cur => v \in native
    /\ host = "auv2" => /\ v \in native /\ v \notin detached <=> v = cur /\ editor = "shown"
                        /\ v = cur /\ v \in native => v \notin detached

\* Its frames follow it; on iOS the link that is wanted is that of the view shown, on the web the binders that are left
\* know that they are.
Framed(v) ==
    /\ v = cur /\ editor = "shown" /\ foreground /\ (platform \in {"mac", "mac13"} => v \in placed) => v \in link
    /\ platform \in {"win", "ios"} /\ v \in link => v = cur /\ editor = "shown" /\ foreground
    /\ platform \in {"mac", "mac13"} /\ v \in link => v \in native
    /\ platform = "ios" => (v \in wanted <=> v = cur /\ editor = "shown")
    /\ platform = "web" => /\ due[v] = IF v \in link /\ v \in native THEN 1 ELSE 0
                           /\ v \in native /\ v # cur => v \in dead /\ due[v] = 1
                           /\ v = cur /\ editor = "shown" => v \in wanted
                           /\ v = cur => v \notin dead

LifeInv == LifeTyped /\ lapses \subseteq Life!Untimely /\ Opens /\ \A v \in Opened : Known(v) /\ Framed(v)

LEMMA HostsOn ==
    ASSUME LifeAssumption, LifeTyped
    PROVE  /\ host \in {"clap", "vst3", "aax"} => platform \in {"win", "mac", "mac13"}
           /\ host = "auv2" => platform \in {"mac", "mac13"}
           /\ host = "auv3" => platform \in {"mac", "mac13", "ios"}
           /\ host = "web" <=> platform = "web"
           /\ host \in {"clap", "vst3", "aax", "auv2", "auv3", "web"}
<1>1. <<host, platform>> \in Builds
  BY DEF LifeAssumption, LifeTyped
<1> QED BY <1>1 DEF Builds

\* What one call, and what two, leave of the editor.
LEMMA TellsOne ==
    ASSUME NEW c \in Life!Calls, NEW ends \in BOOLEAN, Life!Tell(<<c>>, ends), LifeTyped
    PROVE  /\ editor' = Life!Heard[c]
           /\ lapses' = IF c \in Life!Expects[editor] THEN lapses ELSE lapses \cup {c}
           /\ session' \in BOOLEAN /\ (session' <=> session /\ ~ends)
<1>1. \A i : i \in DOMAIN <<c>> <=> i = 1
  OBVIOUS
<1>2. <<c>>[1] = c /\ Len(<<c>>) = 1
  OBVIOUS
<1>3. editor' = Life!Heard[c] /\ session' \in BOOLEAN /\ (session' <=> session /\ ~ends)
  BY <1>2, Zenon DEF Life!Tell, LifeTyped
<1>4. lapses' = lapses \cup {<<c>>[i] : i \in {j \in DOMAIN <<c>> :
                                 <<c>>[j] \notin Life!Expects[IF j = 1 THEN editor ELSE Life!Heard[<<c>>[j - 1]]]}}
  BY DEF Life!Tell
<1>5. CASE c \in Life!Expects[editor]
  BY <1>1, <1>2, <1>3, <1>4, <1>5
<1>6. CASE c \notin Life!Expects[editor]
  BY <1>1, <1>2, <1>3, <1>4, <1>6
<1> QED BY <1>5, <1>6

LEMMA TellsTwo ==
    ASSUME NEW c \in Life!Calls, NEW d \in Life!Calls, NEW ends \in BOOLEAN, Life!Tell(<<c, d>>, ends),
           LifeTyped, d \in Life!Expects[Life!Heard[c]]
    PROVE  /\ editor' = Life!Heard[d]
           /\ lapses' = IF c \in Life!Expects[editor] THEN lapses ELSE lapses \cup {c}
           /\ session' \in BOOLEAN /\ (session' <=> session /\ ~ends)
<1>1. \A i : i \in DOMAIN <<c, d>> <=> i \in {1, 2}
  OBVIOUS
<1>2. <<c, d>>[1] = c /\ <<c, d>>[2] = d /\ Len(<<c, d>>) = 2
  OBVIOUS
<1>3. editor' = Life!Heard[d] /\ session' \in BOOLEAN /\ (session' <=> session /\ ~ends)
  BY <1>2, Zenon DEF Life!Tell, LifeTyped
<1>4. lapses' = lapses \cup {<<c, d>>[i] : i \in {j \in DOMAIN <<c, d>> :
                                 <<c, d>>[j] \notin Life!Expects[IF j = 1 THEN editor ELSE Life!Heard[<<c, d>>[j - 1]]]}}
  BY DEF Life!Tell
<1> HIDE DEF Life!Heard, Life!Expects
<1>5. CASE c \in Life!Expects[editor]
  BY <1>1, <1>2, <1>3, <1>4, <1>5
<1>6. CASE c \notin Life!Expects[editor]
  BY <1>1, <1>2, <1>3, <1>4, <1>6
<1> QED BY <1>5, <1>6

LEMMA Draws ==
    ASSUME LifeInv, "null" \notin lapses, NEW v \in Opened, Life!Draw(v)
    PROVE  /\ UNCHANGED <<editor, lapses>> /\ session' \in BOOLEAN
           /\ session' = session \/ (v = cur /\ editor # "none")
<1>1. CASE v \in context \ detached
  BY <1>1 DEF Life!Draw, LifeInv, Known
<1>2. CASE v \notin context \ detached
  BY <1>2 DEF Life!Draw, LifeInv, LifeTyped
<1> QED BY <1>1, <1>2

LEMMA LifeInvariance == LifeAssumption => (Life!Init /\ [][Life!Next]_life => []LifeInv)
<1> SUFFICES ASSUME LifeAssumption PROVE Life!Init /\ [][Life!Next]_life => []LifeInv
  OBVIOUS
<1>1. Life!Init => LifeInv
  <2> SUFFICES ASSUME Life!Init PROVE LifeInv
    OBVIOUS
  <2>1. PICK e \in Editions : host = e[1] /\ platform = e[2]
    BY DEF Life!Init
  <2>2. <<host, platform>> \in Editions
    BY <2>1 DEF LifeAssumption, Builds
  <2>3. LifeTyped
    <3>1. due \in [Opened -> 0 .. 2]
      BY DEF Life!Init
    <3> QED BY <2>2, <3>1, Zenon DEF Life!Init, LifeTyped
  <2>4. Opens
    BY DEF Life!Init, Opens
  <2>5. ASSUME NEW v \in Opened PROVE Known(v) /\ Framed(v)
    BY DEF Life!Init, Known, Framed, LifeAssumption
  <2> QED BY <2>3, <2>4, <2>5 DEF LifeInv, Life!Init
<1>2. LifeInv /\ [Life!Next]_life => LifeInv'
  <2> SUFFICES ASSUME LifeInv, [Life!Next]_life PROVE LifeInv'
    OBVIOUS
  <2> USE DEF Life!On, Life!Mac, Life!Owned, Life!native_views, Life!frames, Life!told, Life!controller,
              Life!OnShow, Life!WinShow, Life!MacShow, Life!StartDisplayLink, Life!IosShow, Life!WebShow,
              Life!Leaves, Life!WinLeaves, Life!MacLeaves, Life!IosLeaves, Life!WebLeaves, Life!Drops,
              Life!Makes, Life!NextView, Life!Made
  <2>0. /\ LifeTyped /\ Opens /\ lapses \subseteq Life!Untimely /\ \A w \in Opened : Known(w) /\ Framed(w)
        /\ host \in {"clap", "vst3", "aax"} => platform \in {"win", "mac", "mac13"}
        /\ host = "auv2" => platform \in {"mac", "mac13"}
        /\ host = "auv3" => platform \in {"mac", "mac13", "ios"}
        /\ host = "web" <=> platform = "web"
        /\ host \in {"clap", "vst3", "aax", "auv2", "auv3", "web"}
    BY HostsOn DEF LifeInv
  <2>1. ASSUME NEW v \in Opened, "null" \notin lapses, Life!GuiCreate(v) \/ Life!CreateViewContents(v) PROVE LifeInv'
    <3>1. /\ host \in {"clap", "aax"} /\ cur = None /\ Life!NextView(v) /\ Life!Makes(v, FALSE)
          /\ UNCHANGED <<host, platform, detached, Life!frames, foreground, Life!controller>>
      BY <2>1, Zenon DEF Life!GuiCreate, Life!CreateViewContents
    <3>2. editor' = "created" /\ UNCHANGED lapses /\ session' \in BOOLEAN /\ (session' <=> session)
      <4>1. Life!Tell(<<"create">>, FALSE)
        BY <2>1, Zenon DEF Life!GuiCreate, Life!CreateViewContents
      <4>2. editor' = Life!Heard["create"] /\ session' \in BOOLEAN /\ (session' <=> session /\ ~FALSE)
            /\ lapses' = IF "create" \in Life!Expects[editor] THEN lapses ELSE lapses \cup {"create"}
        BY <2>0, <4>1, TellsOne DEF Life!Calls
      <4> QED BY <2>0, <2>1, <3>1, <4>2
          DEF LifeTyped, Opens, Known, LifeAssumption, Life!Heard, Life!Expects, Life!Untimely
    <3>3. LifeTyped'
      BY <2>0, <2>1, <3>1, <3>2 DEF LifeTyped
    <3>4. Opens'
      BY <2>0, <2>1, <3>1, <3>2 DEF LifeTyped, Opens, LifeAssumption
    <3>5. ASSUME NEW w \in Opened PROVE Known(w)'
      BY <2>0, <2>1, <3>1, <3>2 DEF LifeTyped, Opens, LifeAssumption, Known
    <3>6. ASSUME NEW w \in Opened PROVE Framed(w)'
      BY <2>0, <2>1, <3>1, <3>2 DEF LifeTyped, Opens, LifeAssumption, Known, Framed
    <3> QED BY <2>0, <3>1, <3>2, <3>3, <3>4, <3>5, <3>6 DEF LifeInv, Life!Untimely
  <2>2. ASSUME NEW v \in Opened, "null" \notin lapses, Life!GuiShow(v) \/ Life!CreateViewContainer(v) PROVE LifeInv'
    <3>1. /\ \/ host = "clap" /\ ~visible /\ visible' \in BOOLEAN /\ visible'
             \/ host = "aax" /\ v \in placed /\ editor = "created" /\ UNCHANGED visible
          /\ cur = v /\ Life!OnShow(v, placed)
          /\ UNCHANGED <<host, platform, cur, Life!native_views, dead, foreground, unit, setup, gone>>
      BY <2>2, Zenon DEF Life!GuiShow, Life!CreateViewContainer
    <3>2. editor' = "shown" /\ UNCHANGED lapses /\ session' \in BOOLEAN /\ (session' <=> session)
      <4>1. Life!Tell(<<"show">>, FALSE)
        BY <2>2, Zenon DEF Life!GuiShow, Life!CreateViewContainer
      <4>2. editor' = Life!Heard["show"] /\ session' \in BOOLEAN /\ (session' <=> session /\ ~FALSE)
            /\ lapses' = IF "show" \in Life!Expects[editor] THEN lapses ELSE lapses \cup {"show"}
        BY <2>0, <4>1, TellsOne DEF Life!Calls
      <4> QED BY <2>0, <2>2, <3>1, <4>2
          DEF LifeTyped, Opens, Known, LifeAssumption, Life!Heard, Life!Expects, Life!Untimely
    <3>3. CASE platform = "win"
      <4>1. LifeTyped'
        BY <2>0, <2>2, <3>1, <3>2, <3>3 DEF LifeTyped
      <4>2. Opens'
        BY <2>0, <2>2, <3>1, <3>2, <3>3 DEF LifeTyped, Opens, LifeAssumption
      <4>3. ASSUME NEW w \in Opened PROVE Known(w)'
        BY <2>0, <2>2, <3>1, <3>2, <3>3 DEF LifeTyped, Opens, LifeAssumption, Known
      <4>4. ASSUME NEW w \in Opened PROVE Framed(w)'
        BY <2>0, <2>2, <3>1, <3>2, <3>3 DEF LifeTyped, Opens, LifeAssumption, Known, Framed
      <4> QED BY <2>0, <3>1, <3>2, <4>1, <4>2, <4>3, <4>4 DEF LifeInv, Life!Untimely
    <3>4. CASE platform \in {"mac", "mac13"}
      <4>1. LifeTyped'
        BY <2>0, <2>2, <3>1, <3>2, <3>4 DEF LifeTyped
      <4>2. Opens'
        BY <2>0, <2>2, <3>1, <3>2, <3>4 DEF LifeTyped, Opens, LifeAssumption
      <4>3. ASSUME NEW w \in Opened PROVE Known(w)'
        BY <2>0, <2>2, <3>1, <3>2, <3>4 DEF LifeTyped, Opens, LifeAssumption, Known
      <4>4. ASSUME NEW w \in Opened PROVE Framed(w)'
        BY <2>0, <2>2, <3>1, <3>2, <3>4 DEF LifeTyped, Opens, LifeAssumption, Known, Framed
      <4> QED BY <2>0, <3>1, <3>2, <4>1, <4>2, <4>3, <4>4 DEF LifeInv, Life!Untimely
    <3> QED BY <2>0, <3>1, <3>3, <3>4 DEF LifeTyped
  <2>3. ASSUME NEW v \in Opened, "null" \notin lapses, Life!GuiSetParent(v) PROVE LifeInv'
    <3>1. /\ host \in {"clap", "aax"} /\ cur = v /\ placed' = placed \cup {v}
          /\ IF Life!Mac THEN Life!StartDisplayLink(v, {v}) ELSE UNCHANGED link
         
          /\ UNCHANGED <<host, platform, cur, native, context, detached, wanted, dead, due, foreground, Life!controller>>
      BY <2>3, Zenon DEF Life!GuiSetParent
    <3>2. UNCHANGED <<editor, lapses>> /\ session' \in BOOLEAN /\ (session' = session \/ (v = cur /\ editor # "none"))
      BY <2>0, <2>3, <3>1, Draws DEF Life!GuiSetParent, LifeTyped
    <3>3. CASE platform = "win"
      <4>1. LifeTyped'
        BY <2>0, <2>3, <3>1, <3>2, <3>3 DEF LifeTyped
      <4>2. Opens'
        BY <2>0, <2>3, <3>1, <3>2, <3>3 DEF LifeTyped, Opens, LifeAssumption
      <4>3. ASSUME NEW w \in Opened PROVE Known(w)'
        BY <2>0, <2>3, <3>1, <3>2, <3>3 DEF LifeTyped, Opens, LifeAssumption, Known
      <4>4. ASSUME NEW w \in Opened PROVE Framed(w)'
        BY <2>0, <2>3, <3>1, <3>2, <3>3 DEF LifeTyped, Opens, LifeAssumption, Known, Framed
      <4> QED BY <2>0, <3>1, <3>2, <4>1, <4>2, <4>3, <4>4 DEF LifeInv, Life!Untimely
    <3>4. CASE platform \in {"mac", "mac13"}
      <4>1. LifeTyped'
        BY <2>0, <2>3, <3>1, <3>2, <3>4 DEF LifeTyped
      <4>2. Opens'
        BY <2>0, <2>3, <3>1, <3>2, <3>4 DEF LifeTyped, Opens, LifeAssumption
      <4>3. ASSUME NEW w \in Opened PROVE Known(w)'
        BY <2>0, <2>3, <3>1, <3>2, <3>4 DEF LifeTyped, Opens, LifeAssumption, Known
      <4>4. ASSUME NEW w \in Opened PROVE Framed(w)'
        BY <2>0, <2>3, <3>1, <3>2, <3>4 DEF LifeTyped, Opens, LifeAssumption, Known, Framed
      <4> QED BY <2>0, <3>1, <3>2, <4>1, <4>2, <4>3, <4>4 DEF LifeInv, Life!Untimely
    <3> QED BY <2>0, <3>1, <3>3, <3>4 DEF LifeTyped
  <2>4. ASSUME NEW v \in Opened, "null" \notin lapses, Life!GuiHide(v) PROVE LifeInv'
    <3>1. /\ host = "clap" /\ cur = v /\ visible /\ visible' \in BOOLEAN /\ ~visible' /\ Life!Leaves(v, TRUE, FALSE)
          /\ UNCHANGED <<host, platform, foreground, unit, setup, gone>>
      BY <2>4, Zenon DEF Life!GuiHide
    <3>2. editor' = "hidden" /\ lapses' \subseteq Life!Untimely /\ session' \in BOOLEAN /\ ~session'
      <4>1. Life!Tell(<<"hide">>, TRUE)
        BY <2>4, Zenon DEF Life!GuiHide
      <4>2. editor' = Life!Heard["hide"] /\ session' \in BOOLEAN /\ (session' <=> session /\ ~TRUE)
            /\ lapses' = IF "hide" \in Life!Expects[editor] THEN lapses ELSE lapses \cup {"hide"}
        BY <2>0, <4>1, TellsOne DEF Life!Calls
      <4> QED BY <2>0, <2>4, <3>1, <4>2
          DEF LifeTyped, Opens, Known, LifeAssumption, Life!Heard, Life!Expects, Life!Untimely
    <3>3. CASE platform = "win"
      <4>1. LifeTyped'
        BY <2>0, <2>4, <3>1, <3>2, <3>3 DEF LifeTyped
      <4>2. Opens'
        BY <2>0, <2>4, <3>1, <3>2, <3>3 DEF LifeTyped, Opens, LifeAssumption
      <4>3. ASSUME NEW w \in Opened PROVE Known(w)'
        BY <2>0, <2>4, <3>1, <3>2, <3>3 DEF LifeTyped, Opens, LifeAssumption, Known
      <4>4. ASSUME NEW w \in Opened PROVE Framed(w)'
        BY <2>0, <2>4, <3>1, <3>2, <3>3 DEF LifeTyped, Opens, LifeAssumption, Known, Framed
      <4> QED BY <2>0, <3>1, <3>2, <4>1, <4>2, <4>3, <4>4 DEF LifeInv, Life!Untimely
    <3>4. CASE platform \in {"mac", "mac13"}
      <4>1. LifeTyped'
        BY <2>0, <2>4, <3>1, <3>2, <3>4 DEF LifeTyped
      <4>2. Opens'
        BY <2>0, <2>4, <3>1, <3>2, <3>4 DEF LifeTyped, Opens, LifeAssumption
      <4>3. ASSUME NEW w \in Opened PROVE Known(w)'
        BY <2>0, <2>4, <3>1, <3>2, <3>4 DEF LifeTyped, Opens, LifeAssumption, Known
      <4>4. ASSUME NEW w \in Opened PROVE Framed(w)'
        BY <2>0, <2>4, <3>1, <3>2, <3>4 DEF LifeTyped, Opens, LifeAssumption, Known, Framed
      <4> QED BY <2>0, <3>1, <3>2, <4>1, <4>2, <4>3, <4>4 DEF LifeInv, Life!Untimely
    <3> QED BY <2>0, <3>1, <3>3, <3>4 DEF LifeTyped
  <2>5. ASSUME NEW v \in Opened, "null" \notin lapses, Life!GuiDestroy(v) PROVE LifeInv'
    <3>1. /\ host = "clap" /\ cur = v /\ visible' \in BOOLEAN /\ ~visible' /\ Life!Leaves(v, FALSE, TRUE)
          /\ UNCHANGED <<host, platform, foreground, unit, setup, gone>>
      BY <2>5, Zenon DEF Life!GuiDestroy
    <3>2. editor' = "none" /\ lapses' \subseteq Life!Untimely /\ session' \in BOOLEAN /\ (session' <=> session)
      <4>1. Life!Tell(<<"destroy">>, FALSE)
        BY <2>5, Zenon DEF Life!GuiDestroy
      <4>2. editor' = Life!Heard["destroy"] /\ session' \in BOOLEAN /\ (session' <=> session /\ ~FALSE)
            /\ lapses' = IF "destroy" \in Life!Expects[editor] THEN lapses ELSE lapses \cup {"destroy"}
        BY <2>0, <4>1, TellsOne DEF Life!Calls
      <4> QED BY <2>0, <2>5, <3>1, <4>2
          DEF LifeTyped, Opens, Known, LifeAssumption, Life!Heard, Life!Expects, Life!Untimely
    <3>3. CASE platform = "win"
      <4>1. LifeTyped'
        BY <2>0, <2>5, <3>1, <3>2, <3>3 DEF LifeTyped
      <4>2. Opens'
        BY <2>0, <2>5, <3>1, <3>2, <3>3 DEF LifeTyped, Opens, LifeAssumption
      <4>3. ASSUME NEW w \in Opened PROVE Known(w)'
        BY <2>0, <2>5, <3>1, <3>2, <3>3 DEF LifeTyped, Opens, LifeAssumption, Known
      <4>4. ASSUME NEW w \in Opened PROVE Framed(w)'
        BY <2>0, <2>5, <3>1, <3>2, <3>3 DEF LifeTyped, Opens, LifeAssumption, Known, Framed
      <4> QED BY <2>0, <3>1, <3>2, <4>1, <4>2, <4>3, <4>4 DEF LifeInv, Life!Untimely
    <3>4. CASE platform \in {"mac", "mac13"}
      <4>1. LifeTyped'
        BY <2>0, <2>5, <3>1, <3>2, <3>4 DEF LifeTyped
      <4>2. Opens'
        BY <2>0, <2>5, <3>1, <3>2, <3>4 DEF LifeTyped, Opens, LifeAssumption
      <4>3. ASSUME NEW w \in Opened PROVE Known(w)'
        BY <2>0, <2>5, <3>1, <3>2, <3>4 DEF LifeTyped, Opens, LifeAssumption, Known
      <4>4. ASSUME NEW w \in Opened PROVE Framed(w)'
        BY <2>0, <2>5, <3>1, <3>2, <3>4 DEF LifeTyped, Opens, LifeAssumption, Known, Framed
      <4> QED BY <2>0, <3>1, <3>2, <4>1, <4>2, <4>3, <4>4 DEF LifeInv, Life!Untimely
    <3> QED BY <2>0, <3>1, <3>3, <3>4 DEF LifeTyped
  <2>6. ASSUME NEW v \in Opened, "null" \notin lapses, Life!Attached(v) \/ Life!open_view(v) PROVE LifeInv'
    <3>1. /\ host \in {"vst3", "web"} /\ cur = None /\ Life!NextView(v) /\ Life!Makes(v, TRUE) /\ Life!OnShow(v, {v})
          /\ UNCHANGED <<host, platform, detached, dead, foreground, Life!controller>>
      BY <2>6, Zenon DEF Life!Attached, Life!open_view, Life!OpensShown
    <3>2. editor' = "shown" /\ lapses' \subseteq Life!Untimely /\ session' \in BOOLEAN /\ (session' <=> session)
      <4>1. Life!Tell(<<"create", "show">>, FALSE)
        BY <2>6, Zenon DEF Life!Attached, Life!open_view, Life!OpensShown
      <4>2. editor' = Life!Heard["show"] /\ session' \in BOOLEAN /\ (session' <=> session /\ ~FALSE)
            /\ lapses' = IF "create" \in Life!Expects[editor] THEN lapses ELSE lapses \cup {"create"}
        BY <2>0, <4>1, TellsTwo DEF Life!Calls, Life!Heard, Life!Expects
      <4> QED BY <2>0, <2>6, <3>1, <4>2
          DEF LifeTyped, Opens, Known, LifeAssumption, Life!Heard, Life!Expects, Life!Untimely
    <3>3. CASE platform = "win"
      <4>1. LifeTyped'
        BY <2>0, <2>6, <3>1, <3>2, <3>3 DEF LifeTyped, Known
      <4>2. Opens'
        BY <2>0, <2>6, <3>1, <3>2, <3>3 DEF LifeTyped, Opens, LifeAssumption
      <4>3. ASSUME NEW w \in Opened PROVE Known(w)'
        BY <2>0, <2>6, <3>1, <3>2, <3>3 DEF LifeTyped, Opens, LifeAssumption, Known
      <4>4. ASSUME NEW w \in Opened PROVE Framed(w)'
        BY <2>0, <2>6, <3>1, <3>2, <3>3 DEF LifeTyped, Opens, LifeAssumption, Known, Framed
      <4> QED BY <2>0, <3>1, <3>2, <4>1, <4>2, <4>3, <4>4 DEF LifeInv, Life!Untimely
    <3>4. CASE platform \in {"mac", "mac13"}
      <4>1. LifeTyped'
        BY <2>0, <2>6, <3>1, <3>2, <3>4 DEF LifeTyped, Known
      <4>2. Opens'
        BY <2>0, <2>6, <3>1, <3>2, <3>4 DEF LifeTyped, Opens, LifeAssumption
      <4>3. ASSUME NEW w \in Opened PROVE Known(w)'
        BY <2>0, <2>6, <3>1, <3>2, <3>4 DEF LifeTyped, Opens, LifeAssumption, Known
      <4>4. ASSUME NEW w \in Opened PROVE Framed(w)'
        BY <2>0, <2>6, <3>1, <3>2, <3>4 DEF LifeTyped, Opens, LifeAssumption, Known, Framed
      <4> QED BY <2>0, <3>1, <3>2, <4>1, <4>2, <4>3, <4>4 DEF LifeInv, Life!Untimely
    <3>5. CASE platform = "web"
      <4>1. LifeTyped'
        BY <2>0, <2>6, <3>1, <3>2, <3>5 DEF LifeTyped, Known
      <4>2. Opens'
        BY <2>0, <2>6, <3>1, <3>2, <3>5 DEF LifeTyped, Opens, LifeAssumption
      <4>3. ASSUME NEW w \in Opened PROVE Known(w)'
        BY <2>0, <2>6, <3>1, <3>2, <3>5 DEF LifeTyped, Opens, LifeAssumption, Known
      <4>4. ASSUME NEW w \in Opened PROVE Framed(w)'
        BY <2>0, <2>6, <3>1, <3>2, <3>5 DEF LifeTyped, Opens, LifeAssumption, Known, Framed
      <4> QED BY <2>0, <3>1, <3>2, <4>1, <4>2, <4>3, <4>4 DEF LifeInv, Life!Untimely
    <3> QED BY <2>0, <3>1, <3>3, <3>4, <3>5 DEF LifeTyped
  <2>7. ASSUME NEW v \in Opened, "null" \notin lapses,
         Life!Removed(v) \/ Life!DeleteViewContainer(v) \/ Life!close_view(v) PROVE LifeInv'
    <3>1. /\ host \in {"vst3", "aax", "web"} /\ cur = v /\ editor = "shown" /\ Life!Leaves(v, TRUE, TRUE)
          /\ UNCHANGED <<host, platform, foreground, Life!controller>>
      BY <2>7, Zenon DEF Life!Removed, Life!DeleteViewContainer, Life!close_view, Life!Closes
    <3>2. editor' = "none" /\ lapses' \subseteq Life!Untimely /\ session' \in BOOLEAN /\ ~session'
      <4>1. Life!Tell(<<"hide", "destroy">>, TRUE)
        BY <2>7, Zenon DEF Life!Removed, Life!DeleteViewContainer, Life!close_view, Life!Closes
      <4>2. editor' = Life!Heard["destroy"] /\ session' \in BOOLEAN /\ (session' <=> session /\ ~TRUE)
            /\ lapses' = IF "hide" \in Life!Expects[editor] THEN lapses ELSE lapses \cup {"hide"}
        BY <2>0, <4>1, TellsTwo DEF Life!Calls, Life!Heard, Life!Expects
      <4> QED BY <2>0, <2>7, <3>1, <4>2
          DEF LifeTyped, Opens, Known, LifeAssumption, Life!Heard, Life!Expects, Life!Untimely
    <3>3. CASE platform = "win"
      <4>1. LifeTyped'
        BY <2>0, <2>7, <3>1, <3>2, <3>3 DEF LifeTyped
      <4>2. Opens'
        BY <2>0, <2>7, <3>1, <3>2, <3>3 DEF LifeTyped, Opens, LifeAssumption
      <4>3. ASSUME NEW w \in Opened PROVE Known(w)'
        BY <2>0, <2>7, <3>1, <3>2, <3>3 DEF LifeTyped, Opens, LifeAssumption, Known
      <4>4. ASSUME NEW w \in Opened PROVE Framed(w)'
        BY <2>0, <2>7, <3>1, <3>2, <3>3 DEF LifeTyped, Opens, LifeAssumption, Known, Framed
      <4> QED BY <2>0, <3>1, <3>2, <4>1, <4>2, <4>3, <4>4 DEF LifeInv, Life!Untimely
    <3>4. CASE platform \in {"mac", "mac13"}
      <4>1. LifeTyped'
        BY <2>0, <2>7, <3>1, <3>2, <3>4 DEF LifeTyped
      <4>2. Opens'
        BY <2>0, <2>7, <3>1, <3>2, <3>4 DEF LifeTyped, Opens, LifeAssumption
      <4>3. ASSUME NEW w \in Opened PROVE Known(w)'
        BY <2>0, <2>7, <3>1, <3>2, <3>4 DEF LifeTyped, Opens, LifeAssumption, Known
      <4>4. ASSUME NEW w \in Opened PROVE Framed(w)'
        BY <2>0, <2>7, <3>1, <3>2, <3>4 DEF LifeTyped, Opens, LifeAssumption, Known, Framed
      <4> QED BY <2>0, <3>1, <3>2, <4>1, <4>2, <4>3, <4>4 DEF LifeInv, Life!Untimely
    <3>5. CASE platform = "web"
      <4>1. LifeTyped'
        BY <2>0, <2>7, <3>1, <3>2, <3>5 DEF LifeTyped
      <4>2. Opens'
        BY <2>0, <2>7, <3>1, <3>2, <3>5 DEF LifeTyped, Opens, LifeAssumption
      <4>3. ASSUME NEW w \in Opened PROVE Known(w)'
        BY <2>0, <2>7, <3>1, <3>2, <3>5 DEF LifeTyped, Opens, LifeAssumption, Known
      <4>4. ASSUME NEW w \in Opened PROVE Framed(w)'
        BY <2>0, <2>7, <3>1, <3>2, <3>5 DEF LifeTyped, Opens, LifeAssumption, Known, Framed
      <4> QED BY <2>0, <3>1, <3>2, <4>1, <4>2, <4>3, <4>4 DEF LifeInv, Life!Untimely
    <3> QED BY <2>0, <3>1, <3>3, <3>4, <3>5 DEF LifeTyped
  <2>8. ASSUME NEW v \in Opened, "null" \notin lapses, Life!CreateView(v) PROVE LifeInv'
    <3>1. /\ host = "auv2" /\ Life!NextView(v) /\ cur' = v /\ native' = native \cup {v}
          /\ context' = (context \ {cur}) \cup {v}
          /\ detached' = (IF cur = None THEN detached ELSE detached \cup {cur})
          /\ link' = (link \ {cur}) \cup (IF platform = "mac13" THEN {} ELSE {v})
          /\ UNCHANGED <<host, platform, placed, wanted, dead, due, foreground, Life!controller>>
      BY <2>8, Zenon DEF Life!CreateView
    <3>2. editor' = "shown" /\ lapses' \subseteq Life!Untimely /\ session' \in BOOLEAN /\ (session' <=> session)
      <4>1. Life!Tell(<<"create", "show">>, FALSE)
        BY <2>8, Zenon DEF Life!CreateView
      <4>2. editor' = Life!Heard["show"] /\ session' \in BOOLEAN /\ (session' <=> session /\ ~FALSE)
            /\ lapses' = IF "create" \in Life!Expects[editor] THEN lapses ELSE lapses \cup {"create"}
        BY <2>0, <4>1, TellsTwo DEF Life!Calls, Life!Heard, Life!Expects
      <4> QED BY <2>0, <2>8, <3>1, <4>2
          DEF LifeTyped, Opens, Known, LifeAssumption, Life!Heard, Life!Expects, Life!Untimely
    <3>3. LifeTyped'
      BY <2>0, <2>8, <3>1, <3>2 DEF LifeTyped
    <3>4. Opens'
      BY <2>0, <2>8, <3>1, <3>2 DEF LifeTyped, Opens, LifeAssumption
    <3>5. ASSUME NEW w \in Opened PROVE Known(w)'
      BY <2>0, <2>8, <3>1, <3>2 DEF LifeTyped, Opens, LifeAssumption, Known
    <3>6. ASSUME NEW w \in Opened PROVE Framed(w)'
      BY <2>0, <2>8, <3>1, <3>2 DEF LifeTyped, Opens, LifeAssumption, Known, Framed
    <3> QED BY <2>0, <3>1, <3>2, <3>3, <3>4, <3>5, <3>6 DEF LifeInv, Life!Untimely
  <2>9. ASSUME NEW v \in Opened, "null" \notin lapses, v \in detached, Life!Released(v) PROVE LifeInv'
    <3>1. /\ host = "auv2" /\ v \in native /\ native' = native \ {v} /\ placed' = placed \ {v} /\ link' = link \ {v}
          /\ UNCHANGED <<host, platform, cur, wanted, dead, due, foreground, context, detached, Life!controller>>
      BY <2>9, Zenon DEF Life!Released
    <3>2. UNCHANGED <<editor, lapses, session>>
      BY <2>0, <2>9, <3>1 DEF Life!Released
    <3>3. LifeTyped'
      BY <2>0, <2>9, <3>1, <3>2 DEF LifeTyped
    <3>4. Opens'
      BY <2>0, <2>9, <3>1, <3>2 DEF LifeTyped, Opens, LifeAssumption
    <3>5. ASSUME NEW w \in Opened PROVE Known(w)'
      BY <2>0, <2>9, <3>1, <3>2 DEF LifeTyped, Opens, LifeAssumption, Known
    <3>6. ASSUME NEW w \in Opened PROVE Framed(w)'
      BY <2>0, <2>9, <3>1, <3>2 DEF LifeTyped, Opens, LifeAssumption, Known, Framed
    <3> QED BY <2>0, <3>1, <3>2, <3>3, <3>4, <3>5, <3>6 DEF LifeInv, Life!Untimely
  <2>10. ASSUME NEW v \in Opened, "null" \notin lapses, v \notin detached, Life!Released(v) PROVE LifeInv'
    <3>1. /\ host = "auv2" /\ v \in native /\ native' = native \ {v} /\ placed' = placed \ {v} /\ link' = link \ {v}
          /\ context' = context \ {v} /\ detached' = detached \cup {v}
          /\ UNCHANGED <<host, platform, cur, wanted, dead, due, foreground, Life!controller>>
      BY <2>10, Zenon DEF Life!Released
    <3>2. editor' = "none" /\ lapses' \subseteq Life!Untimely /\ session' \in BOOLEAN /\ ~session'
      <4>1. Life!Tell(<<"hide", "destroy">>, TRUE)
        BY <2>10, Zenon DEF Life!Released
      <4>2. editor' = Life!Heard["destroy"] /\ session' \in BOOLEAN /\ (session' <=> session /\ ~TRUE)
            /\ lapses' = IF "hide" \in Life!Expects[editor] THEN lapses ELSE lapses \cup {"hide"}
        BY <2>0, <4>1, TellsTwo DEF Life!Calls, Life!Heard, Life!Expects
      <4> QED BY <2>0, <2>10, <3>1, <4>2
          DEF LifeTyped, Opens, Known, LifeAssumption, Life!Heard, Life!Expects, Life!Untimely
    <3>3. LifeTyped'
      BY <2>0, <2>10, <3>1, <3>2 DEF LifeTyped
    <3>4. Opens'
      BY <2>0, <2>10, <3>1, <3>2 DEF LifeTyped, Opens, LifeAssumption
    <3>5. ASSUME NEW w \in Opened PROVE Known(w)'
      BY <2>0, <2>10, <3>1, <3>2 DEF LifeTyped, Opens, LifeAssumption, Known
    <3>6. ASSUME NEW w \in Opened PROVE Framed(w)'
      BY <2>0, <2>10, <3>1, <3>2 DEF LifeTyped, Opens, LifeAssumption, Known, Framed
    <3> QED BY <2>0, <3>1, <3>2, <3>3, <3>4, <3>5, <3>6 DEF LifeInv, Life!Untimely
  <2>11. ASSUME "null" \notin lapses, cur = None, Life!Dispose PROVE LifeInv'
    <3>1. /\ host = "auv2" /\ gone' \in BOOLEAN
          /\ UNCHANGED <<host, platform, foreground, cur, Life!native_views, Life!frames, visible, unit, setup>>
      BY <2>11, Zenon DEF Life!Dispose
    <3>2. UNCHANGED <<editor, lapses, session>>
      BY <2>0, <2>11, <3>1 DEF Life!Dispose
    <3>3. LifeTyped'
      BY <2>0, <2>11, <3>1, <3>2 DEF LifeTyped
    <3>4. Opens'
      BY <2>0, <2>11, <3>1, <3>2 DEF LifeTyped, Opens, LifeAssumption
    <3>5. ASSUME NEW w \in Opened PROVE Known(w)'
      BY <2>0, <2>11, <3>1, <3>2 DEF LifeTyped, Opens, LifeAssumption, Known
    <3>6. ASSUME NEW w \in Opened PROVE Framed(w)'
      BY <2>0, <2>11, <3>1, <3>2 DEF LifeTyped, Opens, LifeAssumption, Known, Framed
    <3> QED BY <2>0, <3>1, <3>2, <3>3, <3>4, <3>5, <3>6 DEF LifeInv, Life!Untimely
  <2>12. ASSUME "null" \notin lapses, cur # None, cur \notin native, Life!Dispose PROVE LifeInv'
    <3>1. /\ host = "auv2" /\ gone' \in BOOLEAN /\ Life!Leaves(cur, FALSE, TRUE)
          /\ UNCHANGED <<host, platform, foreground, visible, unit, setup>>
      BY <2>12, Zenon DEF Life!Dispose
    <3>2. UNCHANGED <<editor, lapses, session>>
      BY <2>0, <2>12, <3>1 DEF Life!Dispose
    <3>3. LifeTyped'
      BY <2>0, <2>12, <3>1, <3>2 DEF LifeTyped
    <3>4. Opens'
      BY <2>0, <2>12, <3>1, <3>2 DEF LifeTyped, Opens, LifeAssumption, Known
    <3>5. ASSUME NEW w \in Opened PROVE Known(w)'
      BY <2>0, <2>12, <3>1, <3>2 DEF LifeTyped, Opens, LifeAssumption, Known
    <3>6. ASSUME NEW w \in Opened PROVE Framed(w)'
      BY <2>0, <2>12, <3>1, <3>2 DEF LifeTyped, Opens, LifeAssumption, Known, Framed
    <3> QED BY <2>0, <3>1, <3>2, <3>3, <3>4, <3>5, <3>6 DEF LifeInv, Life!Untimely
  <2>13. ASSUME "null" \notin lapses, cur # None, cur \in native, Life!Dispose PROVE LifeInv'
    <3>1. /\ host = "auv2" /\ gone' \in BOOLEAN /\ Life!Leaves(cur, FALSE, TRUE)
          /\ UNCHANGED <<host, platform, foreground, visible, unit, setup>>
      BY <2>13, Zenon DEF Life!Dispose
    <3>2. editor' = "none" /\ lapses' \subseteq Life!Untimely /\ session' \in BOOLEAN /\ (session' <=> session)
      <4>1. Life!Tell(<<"hide", "destroy">>, FALSE)
        BY <2>13, Zenon DEF Life!Dispose
      <4>2. editor' = Life!Heard["destroy"] /\ session' \in BOOLEAN /\ (session' <=> session /\ ~FALSE)
            /\ lapses' = IF "hide" \in Life!Expects[editor] THEN lapses ELSE lapses \cup {"hide"}
        BY <2>0, <4>1, TellsTwo DEF Life!Calls, Life!Heard, Life!Expects
      <4> QED BY <2>0, <2>13, <3>1, <4>2
          DEF LifeTyped, Opens, Known, LifeAssumption, Life!Heard, Life!Expects, Life!Untimely
    <3>3. LifeTyped'
      BY <2>0, <2>13, <3>1, <3>2 DEF LifeTyped
    <3>4. Opens'
      BY <2>0, <2>13, <3>1, <3>2 DEF LifeTyped, Opens, LifeAssumption
    <3>5. ASSUME NEW w \in Opened PROVE Known(w)'
      BY <2>0, <2>13, <3>1, <3>2 DEF LifeTyped, Opens, LifeAssumption, Known
    <3>6. ASSUME NEW w \in Opened PROVE Framed(w)'
      BY <2>0, <2>13, <3>1, <3>2 DEF LifeTyped, Opens, LifeAssumption, Known, Framed
    <3> QED BY <2>0, <3>1, <3>2, <3>3, <3>4, <3>5, <3>6 DEF LifeInv, Life!Untimely
  <2>14. ASSUME "null" \notin lapses, Life!BindToAudioUnit PROVE LifeInv'
    <3>1. /\ host = "auv3" /\ unit' \in {"unit", "editor"} /\ setup' \in {setup, TRUE}
          /\ UNCHANGED <<host, platform, foreground, cur, Life!native_views, Life!frames, visible, gone>>
      BY <2>14, Zenon DEF Life!BindToAudioUnit
    <3>2. UNCHANGED <<editor, lapses, session>>
      BY <2>0, <2>14, <3>1 DEF Life!BindToAudioUnit
    <3>3. LifeTyped'
      BY <2>0, <2>14, <3>1, <3>2 DEF LifeTyped
    <3>4. Opens'
      BY <2>0, <2>14, <3>1, <3>2 DEF LifeTyped, Opens, LifeAssumption
    <3>5. ASSUME NEW w \in Opened PROVE Known(w)'
      BY <2>0, <2>14, <3>1, <3>2 DEF LifeTyped, Opens, LifeAssumption, Known
    <3>6. ASSUME NEW w \in Opened PROVE Framed(w)'
      BY <2>0, <2>14, <3>1, <3>2 DEF LifeTyped, Opens, LifeAssumption, Known, Framed
    <3> QED BY <2>0, <3>1, <3>2, <3>3, <3>4, <3>5, <3>6 DEF LifeInv, Life!Untimely
  <2>15. ASSUME NEW v \in Opened, "null" \notin lapses, unit = "editor", Life!SetupViewAdapter(v) PROVE LifeInv'
    <3>1. /\ host = "auv3" /\ cur = None /\ Life!NextView(v) /\ setup' \in BOOLEAN /\ Life!Makes(v, visible)
          /\ IF Life!Mac /\ visible THEN Life!StartDisplayLink(v, {v}) ELSE UNCHANGED link
          /\ UNCHANGED <<host, platform, detached, wanted, dead, due, foreground, visible, unit, gone>>
      BY <2>15, Zenon DEF Life!SetupViewAdapter
    <3>2. editor' = "created" /\ lapses' \subseteq Life!Untimely /\ session' \in BOOLEAN /\ (session' <=> session)
      <4>1. Life!Tell(<<"create">>, FALSE)
        BY <2>15, Zenon DEF Life!SetupViewAdapter
      <4>2. editor' = Life!Heard["create"] /\ session' \in BOOLEAN /\ (session' <=> session /\ ~FALSE)
            /\ lapses' = IF "create" \in Life!Expects[editor] THEN lapses ELSE lapses \cup {"create"}
        BY <2>0, <4>1, TellsOne DEF Life!Calls
      <4> QED BY <2>0, <2>15, <3>1, <4>2
          DEF LifeTyped, Opens, Known, LifeAssumption, Life!Heard, Life!Expects, Life!Untimely
    <3>3. CASE platform \in {"mac", "mac13"}
      <4>1. LifeTyped'
        BY <2>0, <2>15, <3>1, <3>2, <3>3 DEF LifeTyped
      <4>2. Opens'
        BY <2>0, <2>15, <3>1, <3>2, <3>3 DEF LifeTyped, Opens, LifeAssumption
      <4>3. ASSUME NEW w \in Opened PROVE Known(w)'
        BY <2>0, <2>15, <3>1, <3>2, <3>3 DEF LifeTyped, Opens, LifeAssumption, Known
      <4>4. ASSUME NEW w \in Opened PROVE Framed(w)'
        BY <2>0, <2>15, <3>1, <3>2, <3>3 DEF LifeTyped, Opens, LifeAssumption, Known, Framed
      <4> QED BY <2>0, <3>1, <3>2, <4>1, <4>2, <4>3, <4>4 DEF LifeInv, Life!Untimely
    <3>4. CASE platform = "ios"
      <4>1. LifeTyped'
        BY <2>0, <2>15, <3>1, <3>2, <3>4 DEF LifeTyped
      <4>2. Opens'
        BY <2>0, <2>15, <3>1, <3>2, <3>4 DEF LifeTyped, Opens, LifeAssumption
      <4>3. ASSUME NEW w \in Opened PROVE Known(w)'
        BY <2>0, <2>15, <3>1, <3>2, <3>4 DEF LifeTyped, Opens, LifeAssumption, Known
      <4>4. ASSUME NEW w \in Opened PROVE Framed(w)'
        BY <2>0, <2>15, <3>1, <3>2, <3>4 DEF LifeTyped, Opens, LifeAssumption, Known, Framed
      <4> QED BY <2>0, <3>1, <3>2, <4>1, <4>2, <4>3, <4>4 DEF LifeInv, Life!Untimely
    <3> QED BY <2>0, <3>1, <3>3, <3>4 DEF LifeTyped
  <2>16. ASSUME NEW v \in Opened, "null" \notin lapses, unit # "editor", Life!SetupViewAdapter(v) PROVE LifeInv'
    <3>1. /\ host = "auv3" /\ cur = None /\ Life!NextView(v) /\ setup' \in BOOLEAN /\ Life!Makes(v, visible)
          /\ IF Life!Mac /\ visible THEN Life!StartDisplayLink(v, {v}) ELSE UNCHANGED link
          /\ UNCHANGED <<host, platform, detached, wanted, dead, due, foreground, visible, unit, gone>>
      BY <2>16, Zenon DEF Life!SetupViewAdapter
    <3>2. UNCHANGED <<editor, session>> /\ "null" \in lapses' /\ lapses' \subseteq Life!Untimely
      BY <2>0, <2>16, <3>1 DEF Life!SetupViewAdapter, Life!Untimely
    <3>3. CASE platform \in {"mac", "mac13"}
      <4>1. LifeTyped'
        BY <2>0, <2>16, <3>1, <3>2, <3>3 DEF LifeTyped
      <4>2. Opens'
        BY <2>0, <2>16, <3>1, <3>2, <3>3 DEF LifeTyped, Opens, LifeAssumption
      <4>3. ASSUME NEW w \in Opened PROVE Known(w)'
        BY <2>0, <2>16, <3>1, <3>2, <3>3 DEF LifeTyped, Opens, LifeAssumption, Known
      <4>4. ASSUME NEW w \in Opened PROVE Framed(w)'
        BY <2>0, <2>16, <3>1, <3>2, <3>3 DEF LifeTyped, Opens, LifeAssumption, Known, Framed
      <4> QED BY <2>0, <3>1, <3>2, <4>1, <4>2, <4>3, <4>4 DEF LifeInv, Life!Untimely
    <3>4. CASE platform = "ios"
      <4>1. LifeTyped'
        BY <2>0, <2>16, <3>1, <3>2, <3>4 DEF LifeTyped
      <4>2. Opens'
        BY <2>0, <2>16, <3>1, <3>2, <3>4 DEF LifeTyped, Opens, LifeAssumption
      <4>3. ASSUME NEW w \in Opened PROVE Known(w)'
        BY <2>0, <2>16, <3>1, <3>2, <3>4 DEF LifeTyped, Opens, LifeAssumption, Known
      <4>4. ASSUME NEW w \in Opened PROVE Framed(w)'
        BY <2>0, <2>16, <3>1, <3>2, <3>4 DEF LifeTyped, Opens, LifeAssumption, Known, Framed
      <4> QED BY <2>0, <3>1, <3>2, <4>1, <4>2, <4>3, <4>4 DEF LifeInv, Life!Untimely
    <3> QED BY <2>0, <3>1, <3>3, <3>4 DEF LifeTyped
  <2>17. ASSUME "null" \notin lapses, cur = None, Life!ViewWillAppear PROVE LifeInv'
    <3>1. /\ host = "auv3" /\ visible' \in BOOLEAN
          /\ UNCHANGED <<host, platform, foreground, cur, Life!native_views, Life!frames, unit, setup, gone>>
      BY <2>17, Zenon DEF Life!ViewWillAppear
    <3>2. UNCHANGED <<editor, lapses, session>>
      BY <2>0, <2>17, <3>1 DEF Life!ViewWillAppear
    <3>3. LifeTyped'
      BY <2>0, <2>17, <3>1, <3>2 DEF LifeTyped
    <3>4. Opens'
      BY <2>0, <2>17, <3>1, <3>2 DEF LifeTyped, Opens, LifeAssumption
    <3>5. ASSUME NEW w \in Opened PROVE Known(w)'
      BY <2>0, <2>17, <3>1, <3>2 DEF LifeTyped, Opens, LifeAssumption, Known
    <3>6. ASSUME NEW w \in Opened PROVE Framed(w)'
      BY <2>0, <2>17, <3>1, <3>2 DEF LifeTyped, Opens, LifeAssumption, Known, Framed
    <3> QED BY <2>0, <3>1, <3>2, <3>3, <3>4, <3>5, <3>6 DEF LifeInv, Life!Untimely
  <2>18. ASSUME "null" \notin lapses, cur # None, Life!ViewWillAppear PROVE LifeInv'
    <3>1. /\ host = "auv3" /\ ~visible /\ foreground /\ visible' \in BOOLEAN /\ visible'
          /\ Life!OnShow(cur, {cur}) /\ placed' = placed \cup {cur}
          /\ UNCHANGED <<host, platform, foreground, cur, native, context, detached, dead, unit, setup, gone>>
      BY <2>18, Zenon DEF Life!ViewWillAppear
    <3>2. editor' = "shown" /\ lapses' \subseteq Life!Untimely /\ session' \in BOOLEAN /\ (session' <=> session)
      <4>1. Life!Tell(<<"show">>, FALSE)
        BY <2>18, Zenon DEF Life!ViewWillAppear
      <4>2. editor' = Life!Heard["show"] /\ session' \in BOOLEAN /\ (session' <=> session /\ ~FALSE)
            /\ lapses' = IF "show" \in Life!Expects[editor] THEN lapses ELSE lapses \cup {"show"}
        BY <2>0, <4>1, TellsOne DEF Life!Calls
      <4> QED BY <2>0, <2>18, <3>1, <4>2
          DEF LifeTyped, Opens, Known, LifeAssumption, Life!Heard, Life!Expects, Life!Untimely
    <3>3. CASE platform \in {"mac", "mac13"}
      <4>1. LifeTyped'
        BY <2>0, <2>18, <3>1, <3>2, <3>3 DEF LifeTyped
      <4>2. Opens'
        BY <2>0, <2>18, <3>1, <3>2, <3>3 DEF LifeTyped, Opens, LifeAssumption
      <4>3. ASSUME NEW w \in Opened PROVE Known(w)'
        BY <2>0, <2>18, <3>1, <3>2, <3>3 DEF LifeTyped, Opens, LifeAssumption, Known
      <4>4. ASSUME NEW w \in Opened PROVE Framed(w)'
        BY <2>0, <2>18, <3>1, <3>2, <3>3 DEF LifeTyped, Opens, LifeAssumption, Known, Framed
      <4> QED BY <2>0, <3>1, <3>2, <4>1, <4>2, <4>3, <4>4 DEF LifeInv, Life!Untimely
    <3>4. CASE platform = "ios"
      <4>1. LifeTyped'
        BY <2>0, <2>18, <3>1, <3>2, <3>4 DEF LifeTyped
      <4>2. Opens'
        BY <2>0, <2>18, <3>1, <3>2, <3>4 DEF LifeTyped, Opens, LifeAssumption
      <4>3. ASSUME NEW w \in Opened PROVE Known(w)'
        BY <2>0, <2>18, <3>1, <3>2, <3>4 DEF LifeTyped, Opens, LifeAssumption, Known
      <4>4. ASSUME NEW w \in Opened PROVE Framed(w)'
        BY <2>0, <2>18, <3>1, <3>2, <3>4 DEF LifeTyped, Opens, LifeAssumption, Known, Framed
      <4> QED BY <2>0, <3>1, <3>2, <4>1, <4>2, <4>3, <4>4 DEF LifeInv, Life!Untimely
    <3> QED BY <2>0, <3>1, <3>3, <3>4 DEF LifeTyped
  <2>19. ASSUME "null" \notin lapses, cur = None, Life!ViewWillDisappear PROVE LifeInv'
    <3>1. /\ host = "auv3" /\ visible' \in BOOLEAN
          /\ UNCHANGED <<host, platform, foreground, cur, Life!native_views, Life!frames, unit, setup, gone>>
      BY <2>19, Zenon DEF Life!ViewWillDisappear
    <3>2. UNCHANGED <<editor, lapses, session>>
      BY <2>0, <2>19, <3>1 DEF Life!ViewWillDisappear
    <3>3. LifeTyped'
      BY <2>0, <2>19, <3>1, <3>2 DEF LifeTyped
    <3>4. Opens'
      BY <2>0, <2>19, <3>1, <3>2 DEF LifeTyped, Opens, LifeAssumption
    <3>5. ASSUME NEW w \in Opened PROVE Known(w)'
      BY <2>0, <2>19, <3>1, <3>2 DEF LifeTyped, Opens, LifeAssumption, Known
    <3>6. ASSUME NEW w \in Opened PROVE Framed(w)'
      BY <2>0, <2>19, <3>1, <3>2 DEF LifeTyped, Opens, LifeAssumption, Known, Framed
    <3> QED BY <2>0, <3>1, <3>2, <3>3, <3>4, <3>5, <3>6 DEF LifeInv, Life!Untimely
  <2>20. ASSUME "null" \notin lapses, cur # None, Life!ViewWillDisappear PROVE LifeInv'
    <3>1. /\ host = "auv3" /\ visible /\ visible' \in BOOLEAN /\ ~visible'
          /\ Life!Leaves(cur, TRUE, FALSE) /\ UNCHANGED <<host, platform, foreground, unit, setup, gone>>
      BY <2>20, Zenon DEF Life!ViewWillDisappear
    <3>2. editor' = "hidden" /\ lapses' \subseteq Life!Untimely /\ session' \in BOOLEAN /\ ~session'
      <4>1. Life!Tell(<<"hide">>, TRUE)
        BY <2>20, Zenon DEF Life!ViewWillDisappear
      <4>2. editor' = Life!Heard["hide"] /\ session' \in BOOLEAN /\ (session' <=> session /\ ~TRUE)
            /\ lapses' = IF "hide" \in Life!Expects[editor] THEN lapses ELSE lapses \cup {"hide"}
        BY <2>0, <4>1, TellsOne DEF Life!Calls
      <4> QED BY <2>0, <2>20, <3>1, <4>2
          DEF LifeTyped, Opens, Known, LifeAssumption, Life!Heard, Life!Expects, Life!Untimely
    <3>3. CASE platform \in {"mac", "mac13"}
      <4>1. LifeTyped'
        BY <2>0, <2>20, <3>1, <3>2, <3>3 DEF LifeTyped
      <4>2. Opens'
        BY <2>0, <2>20, <3>1, <3>2, <3>3 DEF LifeTyped, Opens, LifeAssumption
      <4>3. ASSUME NEW w \in Opened PROVE Known(w)'
        BY <2>0, <2>20, <3>1, <3>2, <3>3 DEF LifeTyped, Opens, LifeAssumption, Known
      <4>4. ASSUME NEW w \in Opened PROVE Framed(w)'
        BY <2>0, <2>20, <3>1, <3>2, <3>3 DEF LifeTyped, Opens, LifeAssumption, Known, Framed
      <4> QED BY <2>0, <3>1, <3>2, <4>1, <4>2, <4>3, <4>4 DEF LifeInv, Life!Untimely
    <3>4. CASE platform = "ios"
      <4>1. LifeTyped'
        BY <2>0, <2>20, <3>1, <3>2, <3>4 DEF LifeTyped
      <4>2. Opens'
        BY <2>0, <2>20, <3>1, <3>2, <3>4 DEF LifeTyped, Opens, LifeAssumption
      <4>3. ASSUME NEW w \in Opened PROVE Known(w)'
        BY <2>0, <2>20, <3>1, <3>2, <3>4 DEF LifeTyped, Opens, LifeAssumption, Known
      <4>4. ASSUME NEW w \in Opened PROVE Framed(w)'
        BY <2>0, <2>20, <3>1, <3>2, <3>4 DEF LifeTyped, Opens, LifeAssumption, Known, Framed
      <4> QED BY <2>0, <3>1, <3>2, <4>1, <4>2, <4>3, <4>4 DEF LifeInv, Life!Untimely
    <3> QED BY <2>0, <3>1, <3>3, <3>4 DEF LifeTyped
  <2>21. ASSUME "null" \notin lapses, cur = None, Life!ControllerDealloc PROVE LifeInv'
    <3>1. /\ host = "auv3" /\ gone' \in BOOLEAN
          /\ UNCHANGED <<host, platform, foreground, cur, Life!native_views, Life!frames, unit, setup, visible>>
      BY <2>21, Zenon DEF Life!ControllerDealloc
    <3>2. UNCHANGED <<editor, lapses, session>>
      BY <2>0, <2>21, <3>1 DEF Life!ControllerDealloc
    <3>3. LifeTyped'
      BY <2>0, <2>21, <3>1, <3>2 DEF LifeTyped
    <3>4. Opens'
      BY <2>0, <2>21, <3>1, <3>2 DEF LifeTyped, Opens, LifeAssumption
    <3>5. ASSUME NEW w \in Opened PROVE Known(w)'
      BY <2>0, <2>21, <3>1, <3>2 DEF LifeTyped, Opens, LifeAssumption, Known
    <3>6. ASSUME NEW w \in Opened PROVE Framed(w)'
      BY <2>0, <2>21, <3>1, <3>2 DEF LifeTyped, Opens, LifeAssumption, Known, Framed
    <3> QED BY <2>0, <3>1, <3>2, <3>3, <3>4, <3>5, <3>6 DEF LifeInv, Life!Untimely
  <2>22. ASSUME "null" \notin lapses, cur # None, Life!ControllerDealloc PROVE LifeInv'
    <3>1. /\ host = "auv3" /\ ~visible /\ gone' \in BOOLEAN
          /\ Life!Leaves(cur, FALSE, TRUE) /\ UNCHANGED <<host, platform, foreground, unit, setup, visible>>
      BY <2>22, Zenon DEF Life!ControllerDealloc
    <3>2. editor' = "none" /\ lapses' \subseteq Life!Untimely /\ session' \in BOOLEAN /\ (session' <=> session)
      <4>1. Life!Tell(<<"destroy">>, FALSE)
        BY <2>22, Zenon DEF Life!ControllerDealloc
      <4>2. editor' = Life!Heard["destroy"] /\ session' \in BOOLEAN /\ (session' <=> session /\ ~FALSE)
            /\ lapses' = IF "destroy" \in Life!Expects[editor] THEN lapses ELSE lapses \cup {"destroy"}
        BY <2>0, <4>1, TellsOne DEF Life!Calls
      <4> QED BY <2>0, <2>22, <3>1, <4>2
          DEF LifeTyped, Opens, Known, LifeAssumption, Life!Heard, Life!Expects, Life!Untimely
    <3>3. CASE platform \in {"mac", "mac13"}
      <4>1. LifeTyped'
        BY <2>0, <2>22, <3>1, <3>2, <3>3 DEF LifeTyped
      <4>2. Opens'
        BY <2>0, <2>22, <3>1, <3>2, <3>3 DEF LifeTyped, Opens, LifeAssumption
      <4>3. ASSUME NEW w \in Opened PROVE Known(w)'
        BY <2>0, <2>22, <3>1, <3>2, <3>3 DEF LifeTyped, Opens, LifeAssumption, Known
      <4>4. ASSUME NEW w \in Opened PROVE Framed(w)'
        BY <2>0, <2>22, <3>1, <3>2, <3>3 DEF LifeTyped, Opens, LifeAssumption, Known, Framed
      <4> QED BY <2>0, <3>1, <3>2, <4>1, <4>2, <4>3, <4>4 DEF LifeInv, Life!Untimely
    <3>4. CASE platform = "ios"
      <4>1. LifeTyped'
        BY <2>0, <2>22, <3>1, <3>2, <3>4 DEF LifeTyped
      <4>2. Opens'
        BY <2>0, <2>22, <3>1, <3>2, <3>4 DEF LifeTyped, Opens, LifeAssumption
      <4>3. ASSUME NEW w \in Opened PROVE Known(w)'
        BY <2>0, <2>22, <3>1, <3>2, <3>4 DEF LifeTyped, Opens, LifeAssumption, Known
      <4>4. ASSUME NEW w \in Opened PROVE Framed(w)'
        BY <2>0, <2>22, <3>1, <3>2, <3>4 DEF LifeTyped, Opens, LifeAssumption, Known, Framed
      <4> QED BY <2>0, <3>1, <3>2, <4>1, <4>2, <4>3, <4>4 DEF LifeInv, Life!Untimely
    <3> QED BY <2>0, <3>1, <3>3, <3>4 DEF LifeTyped
  <2>23. ASSUME NEW v \in Opened, "null" \notin lapses, Life!MacFrame(v) \/ Life!IosFrame(v) PROVE LifeInv'
    <3>1. /\ Life!Draw(v) /\ platform # "win" /\ platform # "web" /\ v \in link
          /\ UNCHANGED <<host, platform, foreground, cur, Life!native_views, Life!frames, Life!controller>>
      BY <2>23 DEF Life!MacFrame, Life!IosFrame
    <3>2. UNCHANGED <<editor, lapses>> /\ session' \in BOOLEAN /\ (session' = session \/ (v = cur /\ editor # "none"))
      BY <2>0, <2>23, <3>1, Draws
    <3>3. CASE platform \in {"mac", "mac13"}
      <4>1. LifeTyped'
        BY <2>0, <2>23, <3>1, <3>2, <3>3 DEF LifeTyped
      <4>2. Opens'
        BY <2>0, <2>23, <3>1, <3>2, <3>3 DEF LifeTyped, Opens, LifeAssumption, Framed
      <4>3. ASSUME NEW w \in Opened PROVE Known(w)'
        BY <2>0, <2>23, <3>1, <3>2, <3>3 DEF LifeTyped, Opens, LifeAssumption, Known
      <4>4. ASSUME NEW w \in Opened PROVE Framed(w)'
        BY <2>0, <2>23, <3>1, <3>2, <3>3 DEF LifeTyped, Opens, LifeAssumption, Known, Framed
      <4> QED BY <2>0, <3>1, <3>2, <4>1, <4>2, <4>3, <4>4 DEF LifeInv, Life!Untimely
    <3>4. CASE platform = "ios"
      <4>1. LifeTyped'
        BY <2>0, <2>23, <3>1, <3>2, <3>4 DEF LifeTyped
      <4>2. Opens'
        BY <2>0, <2>23, <3>1, <3>2, <3>4 DEF LifeTyped, Opens, LifeAssumption, Framed
      <4>3. ASSUME NEW w \in Opened PROVE Known(w)'
        BY <2>0, <2>23, <3>1, <3>2, <3>4 DEF LifeTyped, Opens, LifeAssumption, Known
      <4>4. ASSUME NEW w \in Opened PROVE Framed(w)'
        BY <2>0, <2>23, <3>1, <3>2, <3>4 DEF LifeTyped, Opens, LifeAssumption, Known, Framed
      <4> QED BY <2>0, <3>1, <3>2, <4>1, <4>2, <4>3, <4>4 DEF LifeInv, Life!Untimely
    <3> QED BY <2>0, <3>1, <3>3, <3>4 DEF LifeTyped
  <2>24. ASSUME NEW v \in Opened, "null" \notin lapses, Life!Vsync(v) PROVE LifeInv'
    <3>1. /\ platform = "win" /\ v \in link /\ due' = [due EXCEPT ![v] = 1]
          /\ UNCHANGED <<host, platform, foreground, cur, Life!native_views, link, wanted, dead, Life!controller>>
      BY <2>24, Zenon DEF Life!Vsync
    <3>2. UNCHANGED <<editor, lapses, session>>
      BY <2>0, <2>24, <3>1 DEF Life!Vsync
    <3>3. LifeTyped'
      BY <2>0, <2>24, <3>1, <3>2 DEF LifeTyped
    <3>4. Opens'
      BY <2>0, <2>24, <3>1, <3>2 DEF LifeTyped, Opens, LifeAssumption
    <3>5. ASSUME NEW w \in Opened PROVE Known(w)'
      BY <2>0, <2>24, <3>1, <3>2 DEF LifeTyped, Opens, LifeAssumption, Known
    <3>6. ASSUME NEW w \in Opened PROVE Framed(w)'
      BY <2>0, <2>24, <3>1, <3>2 DEF LifeTyped, Opens, LifeAssumption, Known, Framed
    <3> QED BY <2>0, <3>1, <3>2, <3>3, <3>4, <3>5, <3>6 DEF LifeInv, Life!Untimely
  <2>25. ASSUME NEW v \in Opened, "null" \notin lapses, Life!Paint(v) PROVE LifeInv'
    <3>1. /\ platform = "win" /\ Life!Draw(v) /\ due[v] = 1 /\ due' = [due EXCEPT ![v] = 0]
          /\ UNCHANGED <<host, platform, foreground, cur, Life!native_views, link, wanted, dead, Life!controller>>
      BY <2>25, Zenon DEF Life!Paint
    <3>2. UNCHANGED <<editor, lapses>> /\ session' \in BOOLEAN /\ (session' = session \/ (v = cur /\ editor # "none"))
      BY <2>0, <2>25, <3>1, Draws
    <3>3. LifeTyped'
      BY <2>0, <2>25, <3>1, <3>2 DEF LifeTyped
    <3>4. Opens'
      BY <2>0, <2>25, <3>1, <3>2 DEF LifeTyped, Opens, LifeAssumption
    <3>5. ASSUME NEW w \in Opened PROVE Known(w)'
      BY <2>0, <2>25, <3>1, <3>2 DEF LifeTyped, Opens, LifeAssumption, Known
    <3>6. ASSUME NEW w \in Opened PROVE Framed(w)'
      BY <2>0, <2>25, <3>1, <3>2 DEF LifeTyped, Opens, LifeAssumption, Known, Framed
    <3> QED BY <2>0, <3>1, <3>2, <3>3, <3>4, <3>5, <3>6 DEF LifeInv, Life!Untimely
  <2>26. ASSUME NEW v \in Opened, "null" \notin lapses, v \in dead, Life!Frame(v) PROVE LifeInv'
    <3>1. /\ platform = "web" /\ due[v] = 1 /\ v \in native /\ native' = native \ {v} /\ due' = [due EXCEPT ![v] = 0]
         
          /\ UNCHANGED <<host, platform, foreground, cur, placed, context, detached, wanted, dead, Life!controller, link>>
      BY <2>26, <2>0 DEF Life!Frame, LifeTyped, Framed
    <3>2. UNCHANGED <<editor, lapses, session>>
      BY <2>0, <2>26, <3>1 DEF Life!Frame
    <3>3. LifeTyped'
      BY <2>0, <2>26, <3>1, <3>2 DEF LifeTyped
    <3>4. Opens'
      BY <2>0, <2>26, <3>1, <3>2 DEF LifeTyped, Opens, LifeAssumption
    <3>5. ASSUME NEW w \in Opened PROVE Known(w)'
      BY <2>0, <2>26, <3>1, <3>2 DEF LifeTyped, Opens, LifeAssumption, Known, Framed
    <3>6. ASSUME NEW w \in Opened PROVE Framed(w)'
      BY <2>0, <2>26, <3>1, <3>2 DEF LifeTyped, Opens, LifeAssumption, Known, Framed
    <3> QED BY <2>0, <3>1, <3>2, <3>3, <3>4, <3>5, <3>6 DEF LifeInv, Life!Untimely
  <2>27. ASSUME NEW v \in Opened, "null" \notin lapses, v \notin dead, v \notin wanted, Life!Frame(v) PROVE LifeInv'
    <3>1. /\ platform = "web" /\ due[v] = 1 /\ v \in native /\ link' = link \ {v} /\ due' = [due EXCEPT ![v] = 0]
         
          /\ UNCHANGED <<host, platform, foreground, cur, placed, context, detached, wanted, dead,
                         Life!controller, native>>
      BY <2>27, <2>0 DEF Life!Frame, LifeTyped, Framed
    <3>2. UNCHANGED <<editor, lapses, session>>
      BY <2>0, <2>27, <3>1 DEF Life!Frame
    <3>3. LifeTyped'
      BY <2>0, <2>27, <3>1, <3>2 DEF LifeTyped
    <3>4. Opens'
      BY <2>0, <2>27, <3>1, <3>2 DEF LifeTyped, Opens, LifeAssumption
    <3>5. ASSUME NEW w \in Opened PROVE Known(w)'
      BY <2>0, <2>27, <3>1, <3>2 DEF LifeTyped, Opens, LifeAssumption, Known
    <3>6. ASSUME NEW w \in Opened PROVE Framed(w)'
      BY <2>0, <2>27, <3>1, <3>2 DEF LifeTyped, Opens, LifeAssumption, Known, Framed
    <3> QED BY <2>0, <3>1, <3>2, <3>3, <3>4, <3>5, <3>6 DEF LifeInv, Life!Untimely
  <2>28. ASSUME NEW v \in Opened, "null" \notin lapses, v \notin dead, v \in wanted, Life!Frame(v) PROVE LifeInv'
    <3>1. /\ platform = "web" /\ Life!Draw(v)
         
          /\ UNCHANGED <<host, platform, foreground, cur, placed, context, detached, wanted, dead,
                         Life!controller, native, link, due>>
      BY <2>28, <2>0 DEF Life!Frame, LifeTyped, Framed
    <3>2. UNCHANGED <<editor, lapses>> /\ session' \in BOOLEAN /\ (session' = session \/ (v = cur /\ editor # "none"))
      BY <2>0, <2>28, <3>1, Draws
    <3>3. LifeTyped'
      BY <2>0, <2>28, <3>1, <3>2 DEF LifeTyped
    <3>4. Opens'
      BY <2>0, <2>28, <3>1, <3>2 DEF LifeTyped, Opens, LifeAssumption
    <3>5. ASSUME NEW w \in Opened PROVE Known(w)'
      BY <2>0, <2>28, <3>1, <3>2 DEF LifeTyped, Opens, LifeAssumption, Known
    <3>6. ASSUME NEW w \in Opened PROVE Framed(w)'
      BY <2>0, <2>28, <3>1, <3>2 DEF LifeTyped, Opens, LifeAssumption, Known, Framed
    <3> QED BY <2>0, <3>1, <3>2, <3>3, <3>4, <3>5, <3>6 DEF LifeInv, Life!Untimely
  <2>29. ASSUME NEW v \in Opened, "null" \notin lapses, Life!Moves(v) PROVE LifeInv'
    <3>1. /\ platform \in {"mac", "mac13"} /\ v \in native
          /\ placed' = (IF v \in placed THEN placed \ {v} ELSE placed \cup {v})
          /\ IF v \in placed THEN link' = link \ {v} ELSE Life!StartDisplayLink(v, {v})
         
          /\ UNCHANGED <<host, platform, foreground, cur, native, context, detached, wanted, dead, due, Life!controller>>
      BY <2>29, Zenon DEF Life!Moves
    <3>2. UNCHANGED <<editor, lapses, session>>
      BY <2>0, <2>29, <3>1 DEF Life!Moves
    <3>3. LifeTyped'
      BY <2>0, <2>29, <3>1, <3>2 DEF LifeTyped
    <3>4. Opens'
      BY <2>0, <2>29, <3>1, <3>2 DEF LifeTyped, Opens, LifeAssumption
    <3>5. ASSUME NEW w \in Opened PROVE Known(w)'
      BY <2>0, <2>29, <3>1, <3>2 DEF LifeTyped, Opens, LifeAssumption, Known
    <3>6. ASSUME NEW w \in Opened PROVE Framed(w)'
      BY <2>0, <2>29, <3>1, <3>2 DEF LifeTyped, Opens, LifeAssumption, Known, Framed
    <3> QED BY <2>0, <3>1, <3>2, <3>3, <3>4, <3>5, <3>6 DEF LifeInv, Life!Untimely
  <2>30. ASSUME NEW v \in Opened, "null" \notin lapses, Life!ScreenChanges(v) PROVE LifeInv'
    <3>1. /\ platform \in {"mac", "mac13"} /\ v \in native /\ Life!StartDisplayLink(v, placed)
          /\ UNCHANGED <<host, platform, foreground, cur, Life!native_views, wanted, dead, due, Life!controller>>
      BY <2>30, Zenon DEF Life!ScreenChanges
    <3>2. UNCHANGED <<editor, lapses, session>>
      BY <2>0, <2>30, <3>1 DEF Life!ScreenChanges
    <3>3. LifeTyped'
      BY <2>0, <2>30, <3>1, <3>2 DEF LifeTyped
    <3>4. Opens'
      BY <2>0, <2>30, <3>1, <3>2 DEF LifeTyped, Opens, LifeAssumption
    <3>5. ASSUME NEW w \in Opened PROVE Known(w)'
      BY <2>0, <2>30, <3>1, <3>2 DEF LifeTyped, Opens, LifeAssumption, Known
    <3>6. ASSUME NEW w \in Opened PROVE Framed(w)'
      BY <2>0, <2>30, <3>1, <3>2 DEF LifeTyped, Opens, LifeAssumption, Known, Framed
    <3> QED BY <2>0, <3>1, <3>2, <3>3, <3>4, <3>5, <3>6 DEF LifeInv, Life!Untimely
  <2>31. ASSUME NEW v \in Opened, "null" \notin lapses, Life!MacDealloc(v) \/ Life!IosDealloc(v) PROVE LifeInv'
    <3>1. /\ platform \in {"mac", "mac13", "ios"} /\ host # "auv2" /\ v \in native /\ cur # v
          /\ native' = native \ {v} /\ link' = link \ {v} /\ placed' = placed \ {v} /\ detached' = detached \cup {v}
          /\ UNCHANGED <<host, platform, foreground, cur, context, wanted, dead, due, Life!controller>>
      BY <2>31 DEF Life!MacDealloc, Life!IosDealloc, Life!Dealloc
    <3>2. UNCHANGED <<editor, lapses, session>>
      BY <2>0, <2>31, <3>1 DEF Life!MacDealloc, Life!IosDealloc, Life!Dealloc
    <3>3. CASE platform \in {"mac", "mac13"}
      <4>1. LifeTyped'
        BY <2>0, <2>31, <3>1, <3>2, <3>3 DEF LifeTyped
      <4>2. Opens'
        BY <2>0, <2>31, <3>1, <3>2, <3>3 DEF LifeTyped, Opens, LifeAssumption
      <4>3. ASSUME NEW w \in Opened PROVE Known(w)'
        BY <2>0, <2>31, <3>1, <3>2, <3>3 DEF LifeTyped, Opens, LifeAssumption, Known
      <4>4. ASSUME NEW w \in Opened PROVE Framed(w)'
        BY <2>0, <2>31, <3>1, <3>2, <3>3 DEF LifeTyped, Opens, LifeAssumption, Known, Framed
      <4> QED BY <2>0, <3>1, <3>2, <4>1, <4>2, <4>3, <4>4 DEF LifeInv, Life!Untimely
    <3>4. CASE platform = "ios"
      <4>1. LifeTyped'
        BY <2>0, <2>31, <3>1, <3>2, <3>4 DEF LifeTyped
      <4>2. Opens'
        BY <2>0, <2>31, <3>1, <3>2, <3>4 DEF LifeTyped, Opens, LifeAssumption
      <4>3. ASSUME NEW w \in Opened PROVE Known(w)'
        BY <2>0, <2>31, <3>1, <3>2, <3>4 DEF LifeTyped, Opens, LifeAssumption, Known
      <4>4. ASSUME NEW w \in Opened PROVE Framed(w)'
        BY <2>0, <2>31, <3>1, <3>2, <3>4 DEF LifeTyped, Opens, LifeAssumption, Known, Framed
      <4> QED BY <2>0, <3>1, <3>2, <4>1, <4>2, <4>3, <4>4 DEF LifeInv, Life!Untimely
    <3> QED BY <2>0, <3>1, <3>3, <3>4 DEF LifeTyped
  <2>32. ASSUME "null" \notin lapses, Life!Backgrounds PROVE LifeInv'
    <3>1. /\ platform = "ios" /\ foreground' \in BOOLEAN /\ (foreground' <=> ~foreground)
          /\ link' = (IF foreground THEN {} ELSE link \cup (wanted \cap native))
          /\ UNCHANGED <<host, platform, cur, Life!native_views, wanted, dead, due, Life!controller>>
      BY <2>32, <2>0, Zenon DEF Life!Backgrounds, LifeTyped, Framed
    <3>2. UNCHANGED <<editor, lapses, session>>
      BY <2>0, <2>32, <3>1 DEF Life!Backgrounds
    <3>3. LifeTyped'
      BY <2>0, <2>32, <3>1, <3>2 DEF LifeTyped
    <3>4. Opens'
      BY <2>0, <2>32, <3>1, <3>2 DEF LifeTyped, Opens, LifeAssumption
    <3>5. ASSUME NEW w \in Opened PROVE Known(w)'
      BY <2>0, <2>32, <3>1, <3>2 DEF LifeTyped, Opens, LifeAssumption, Known
    <3>6. ASSUME NEW w \in Opened PROVE Framed(w)'
      BY <2>0, <2>32, <3>1, <3>2 DEF LifeTyped, Opens, LifeAssumption, Known, Framed
    <3> QED BY <2>0, <3>1, <3>2, <3>3, <3>4, <3>5, <3>6 DEF LifeInv, Life!Untimely
  <2>33. CASE UNCHANGED life
    <3>1. LifeTyped' /\ Opens' /\ \A w \in Opened : Known(w)' /\ Framed(w)'
      BY <2>0, <2>33 DEF life, LifeTyped, Opens, Known, Framed
    <3> QED BY <2>0, <2>33, <3>1 DEF life, LifeInv, Life!Untimely
  <2> QED BY <2>1, <2>2, <2>3, <2>4, <2>5, <2>6, <2>7, <2>8, <2>9, <2>10, <2>11, <2>12, <2>13, <2>14, <2>15, <2>16,
         <2>17, <2>18, <2>19, <2>20, <2>21, <2>22, <2>23, <2>24, <2>25, <2>26, <2>27, <2>28, <2>29, <2>30, <2>31,
                <2>32, <2>33
    DEF Life!Next, Life!Attached, Life!Removed, Life!DeleteViewContainer, Life!open_view, Life!close_view
<1> QED BY <1>1, <1>2, PTL

LEMMA LifeIsSound ==
    ASSUME LifeAssumption, LifeInv
    PROVE  Life!TypeOK /\ Life!EditorIsTold /\ Life!FramesFollow
<1> USE DEF LifeInv, LifeTyped
<1>1. lapses \subseteq Life!Calls \cup {"draw", "frame", "null"}
  BY DEF Life!Untimely, Life!Calls
<1>2. Life!TypeOK
  BY <1>1 DEF Life!TypeOK
<1>3. Life!EditorIsTold
  BY HostsOn DEF Life!EditorIsTold, Opens, Life!Mac
<1>4. Life!FramesFollow
  BY DEF Life!FramesFollow, Opens, Framed, Life!Mac, Life!On
<1> QED BY <1>2, <1>3, <1>4

-----------------------------------------------------------------------------
(* Proofs.  The window: what holds of each of its parts alone holds of them. *)

\* Windows' dialogs end with none of the answers but those two; a view is no None,
\* and each wrapper's systems are known.
ASSUME WindowAssumption ==
    /\ MaxSheetWaits \in Nat /\ MaxChanges \in Nat
    /\ None # "ok" /\ LifeAssumption

\* The behaviours of the window are, of each part, behaviours of that part.
LEMMA EachAlone ==
    MCSpec => /\ Init /\ [][Next]_vars
              /\ Field!Init /\ [][Field!Next]_field
              /\ Dialog!Init /\ [][Dialog!Next]_dialogs
              /\ Life!Init /\ [][Life!Next]_life
              /\ Watcher!Init /\ [][Watcher!Next]_watcher
<1>1. MCInit => Init /\ Field!Init /\ Dialog!Init /\ Life!Init /\ Watcher!Init
  BY DEF MCInit
<1>2. [MCNext]_allVars => /\ [Next]_vars /\ [Field!Next]_field /\ [Dialog!Next]_dialogs
                          /\ [Life!Next]_life /\ [Watcher!Next]_watcher
  <2> SUFFICES ASSUME [MCNext]_allVars
               PROVE  /\ [Next]_vars /\ [Field!Next]_field /\ [Dialog!Next]_dialogs
                      /\ [Life!Next]_life /\ [Watcher!Next]_watcher
    OBVIOUS
  <2>1. CASE MCNext
    BY <2>1 DEF MCNext
  <2>2. CASE UNCHANGED allVars
    BY <2>2 DEF allVars
  <2> QED BY <2>1, <2>2
<1> QED BY <1>1, <1>2, PTL DEF MCSpec

\* In every state of every view and of any number of pointers: once no button is down and a frame
\* has been drawn no control is pressed, dragged or hovered, and no drag has begun within a drag, but
\* for the releases the view is not told of.
THEOREM EveryGestureEnds == MCSpec => []GesturesEnd
<1>1. InputInv => GesturesEnd
  BY InputIsSound
<1>2. Init /\ [][Next]_vars => []InputInv
  BY InputInvariance
<1> QED BY <1>1, <1>2, EachAlone, PTL

\* Every text field and every dialog that was asked for has at most one answer, and
\* once it is over has it, with its own text; what has not ended can still be reached by what ends it.
THEOREM AsksHaveOneAnswer == MCSpec => []AsksAnswered
<1>1. FieldInv => Field!FieldsAnswer
  BY FieldIsSound
<1>2. DialogInv => Dialog!DialogsAnswer
  BY DialogIsSound
<1>3. /\ Field!Init /\ [][Field!Next]_field => []FieldInv
      /\ Dialog!Init /\ [][Dialog!Next]_dialogs => []DialogInv
  BY WindowAssumption, FieldInvariance, DialogInvariance
<1> QED BY <1>1, <1>2, <1>3, EachAlone, PTL DEF AsksAnswered

\* Whatever the host, the system and the order of what happens to the view,
\* the editor is told of its life in order and gets its frames while it is shown, but for
\* the untimely calls that are named.
THEOREM EditorFollowsItsHost == MCSpec => []EditorIsTold
<1>1. LifeInv => Life!EditorIsTold /\ Life!FramesFollow
  BY WindowAssumption, LifeIsSound
<1>2. Life!Init /\ [][Life!Next]_life => []LifeInv
  BY WindowAssumption, LifeInvariance
<1> QED BY <1>1, <1>2, EachAlone, PTL DEF EditorIsTold

\* The destructor of Windows' view waits for no thread that nothing wakes,
\* but for the race that is named; and while that thread waits the editor has the theme's colours.
THEOREM WatcherIsWoken == MCSpec => []WatcherEnds
<1>1. WatcherInv => Watcher!WatcherEnds
  BY WatcherIsSound
<1>2. Watcher!Init /\ [][Watcher!Next]_watcher => []WatcherInv
  BY WindowAssumption, WatcherInvariance
<1> QED BY <1>1, <1>2, EachAlone, PTL DEF WatcherEnds

\* Whatever happens to the window, each of its parts is in a state it can be in: the stream and the list of a frame
\* within their bounds, a recognizer with a pointer there is, every request's tasks and buffer among its own.
THEOREM WindowIsTyped == MCSpec => []WindowTyped
<1>1. InputInv => TypeOK
  BY DEF InputInv, InputTyped
<1>2. FieldInv => Field!TypeOK
  BY FieldIsSound
<1>3. DialogInv => Dialog!TypeOK
  BY DialogIsSound
<1>4. LifeInv => Life!TypeOK
  BY WindowAssumption, LifeIsSound
<1>5. WatcherInv => Watcher!TypeOK
  BY DEF WatcherInv
<1>6. /\ Init /\ [][Next]_vars => []InputInv
      /\ Field!Init /\ [][Field!Next]_field => []FieldInv
      /\ Dialog!Init /\ [][Dialog!Next]_dialogs => []DialogInv
      /\ Life!Init /\ [][Life!Next]_life => []LifeInv
      /\ Watcher!Init /\ [][Watcher!Next]_watcher => []WatcherInv
  BY WindowAssumption, InputInvariance, FieldInvariance, DialogInvariance, LifeInvariance, WatcherInvariance
<1> QED BY <1>1, <1>2, <1>3, <1>4, <1>5, <1>6, EachAlone, PTL DEF WindowTyped

=============================================================================
