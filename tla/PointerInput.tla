---------------------------- MODULE PointerInput ----------------------------
(***************************************************************************)
(* From the platform's input callbacks to a control's gestures: the four   *)
(* views push what they are told into an Event_stream, a frame consumes it *)
(* and hands the list to the recognizers of one control.  Input and frames *)
(* are callbacks of one thread, so neither interrupts the other; any       *)
(* number of callbacks come between two frames.                            *)
(*                                                                         *)
(* A position is inside the control's frame or outside of it, and a drag   *)
(* with a slop has gone past it once it is not where the press was.        *)
(***************************************************************************)
EXTENDS Naturals, Sequences

CONSTANTS Mouse, Fingers,   \* pointer tags: 0 on the desktop, and per view its UITouches or the page's pointerIds
          None,
          Views,            \* which of "win", "mac", "ios", "web" are checked
          Uses,             \* per view, the recognizers checked
          MaxEvents         \* bound, per view: events between two frames

Tags == {Mouse} \cup UNION {Fingers[v] : v \in Views}
ASSUME InputAssumption == /\ None \notin Tags /\ Views \subseteq {"win", "mac", "ios", "web"}
                          /\ \A v \in Views : MaxEvents[v] \in Nat

Places == {"in", "out"}
Buttons == {"left", "right"}

VARIABLES view,
          world,      \* what the user does: where each pointer is, the buttons held, those the view heard pressed
          captured,   \* SetCapture
          binder,     \* left_down, right_down, mouse_in
          events, pointerOrigins,              \* Event_stream
          drawing, list, held,                 \* the Event_list of the frame being drawn
          uses, slop,                          \* the recognizer the control has; _start_slop > 0
          over, down, dwell, drag,             \* the recognizers
          missed,     \* ghost: a release the view was not told of, and no event of that pointer's release since
          dragging,   \* ghost: the editor has been told of a start and of no end
          orphaned,   \* ghost: after such a release, a press has begun a drag anew
          twice       \* ghost: the editor was told of a start within a drag

stream == <<events, pointerOrigins>>
frame == <<drawing, list, held>>
recognizers == <<over, down, dwell, drag>>
ghosts == <<missed, dragging, orphaned, twice>>
vars == <<view, world, captured, binder, stream, frame, uses, slop, recognizers, ghosts>>

Event(kind, tag, pos) == [kind |-> kind, tag |-> tag, pos |-> pos, button |-> None]
Pressing(kind, tag, button, pos) == [Event(kind, tag, pos) EXCEPT !.button = button]

Idle == [on |-> FALSE, tag |-> None]
NoDrag == [fpos |-> None, tag |-> None, on |-> FALSE]
Released == [at |-> "away", buttons |-> {}, told |-> {}]

Init ==
    /\ view \in Views
    /\ world = [t \in Tags |-> Released]
    /\ captured = FALSE
    /\ binder = [left |-> None, right |-> None, mouseIn |-> FALSE]
    /\ events = <<>> /\ pointerOrigins = {}
    /\ drawing = FALSE /\ list = <<>> /\ held = {}
    /\ uses \in Uses[view] /\ slop \in (IF uses = "drag" THEN BOOLEAN ELSE {FALSE})
    /\ over = Idle /\ down = Idle /\ dwell = [armed |-> FALSE, on |-> FALSE] /\ drag = NoDrag
    /\ missed = {} /\ dragging = FALSE /\ orphaned = FALSE /\ twice = FALSE

----------------------------------------------------------------------------
(* Event_stream *)

Presses(es, tag) == {o \in [tag : {tag}, pos : Places] :
                        \E i \in 1 .. Len(es) : es[i].kind = "Down" /\ es[i].pos = o.pos}
Lifts(es) == \E i \in 1 .. Len(es) : es[i].kind \in {"Up", "Cancel"}

\* A press is put among the held pointers, unless the same is there; a release takes out one entry of its tag.
push(tag, es) ==
    /\ ~drawing /\ Len(events) + Len(es) <= MaxEvents[view]
    /\ events' = events \o es
    /\ LET mine == {o \in pointerOrigins : o.tag = tag}
       IN IF Lifts(es) /\ mine # {}
          THEN \E o \in mine : pointerOrigins' = pointerOrigins \ {o}
          ELSE pointerOrigins' = pointerOrigins \cup Presses(es, tag)
    /\ UNCHANGED <<view, frame, uses, slop, recognizers, ghosts>>

\* Only the last move of each pointer stays, wherever in the list it is.
consolidate_moves(es) ==
    LET Kept(i) == \/ es[i].kind # "Move"
                   \/ ~ \E j \in i + 1 .. Len(es) : es[j].kind = "Move" /\ es[j].tag = es[i].tag
        Upto[n \in 0 .. Len(es)] == IF n = 0 THEN <<>>
                                    ELSE IF Kept(n) THEN Append(Upto[n - 1], es[n]) ELSE Upto[n - 1]
    IN Upto[Len(es)]

consume ==
    /\ ~drawing /\ (events # <<>> \/ dwell.armed)
    /\ drawing' = TRUE /\ list' = consolidate_moves(events) /\ held' = pointerOrigins
    /\ events' = <<>>
    /\ UNCHANGED <<view, world, captured, binder, pointerOrigins, uses, slop, recognizers, ghosts>>

----------------------------------------------------------------------------
(* What the views are told.  `told` and the mark "Lost" in the stream are ours: no view and no recognizer *)
(* sees them.                                                                                              *)

Is(v) == view = v
At(t, p) == [world EXCEPT ![t].at = p]
Place(t) == IF world[t].at = "away" THEN "out" ELSE world[t].at

Pressed(t, b, hears) ==
    world' = [world EXCEPT ![t].buttons = @ \cup {b}, ![t].told = IF hears THEN @ \cup {b} ELSE @]
Lifted(t, b) == world' = [world EXCEPT ![t].buttons = @ \ {b}, ![t].told = @ \ {b}]

Enters(t, p) == IF binder.mouseIn THEN <<>> ELSE <<Event("Enter", t, p)>>

(* Windows tells the window of the mouse over it, and beyond it while it has the capture.  No message tells *)
(* the program that it leaves: nothing calls TrackMouseEvent.                                               *)
Hears == captured \/ world[Mouse].at # "away"

WinMouseMove(p) ==
    /\ Is("win") /\ p # world[Mouse].at
    /\ world' = At(Mouse, p)
    /\ IF captured \/ p # "away"
       THEN LET q == IF p = "away" THEN "out" ELSE p
            IN push(Mouse, Enters(Mouse, q) \o <<Event("Move", Mouse, q)>>) /\ binder' = [binder EXCEPT !.mouseIn = TRUE]
       ELSE push(Mouse, <<>>) /\ UNCHANGED binder
    /\ UNCHANGED captured

\* The second press of a double click takes no capture.
WinButtonDown(b, double) ==
    /\ Is("win") /\ b \notin world[Mouse].buttons /\ (double => b = "left")
    /\ Pressed(Mouse, b, Hears)
    /\ IF Hears
       THEN /\ push(Mouse, <<Pressing("Down", Mouse, b, Place(Mouse))>>)
            /\ binder' = [binder EXCEPT ![b] = Place(Mouse)]
            /\ captured' = (captured \/ ~double)
       ELSE push(Mouse, <<>>) /\ UNCHANGED <<binder, captured>>

WinButtonUp(b) ==
    /\ Is("win") /\ b \in world[Mouse].buttons
    /\ Lifted(Mouse, b)
    /\ LET p == Place(Mouse)
           click == IF binder[b] = p THEN <<Pressing("Click", Mouse, b, p)>> ELSE <<>>
           lost == IF b \in world[Mouse].told THEN <<Pressing("Lost", Mouse, b, p)>> ELSE <<>>
       IN IF Hears
          THEN /\ push(Mouse, <<Pressing("Up", Mouse, b, p)>> \o click)
               /\ binder' = [binder EXCEPT ![b] = None] /\ captured' = FALSE
          ELSE push(Mouse, lost) /\ UNCHANGED <<binder, captured>>

\* Another window takes the capture, a dialog or the user's switching away.  The program does not listen for it.
WinCaptureLost ==
    /\ Is("win") /\ captured /\ ~drawing
    /\ captured' = FALSE
    /\ UNCHANGED <<view, world, binder, stream, frame, uses, slop, recognizers, ghosts>>

(* AppKit sends a press's moves and its release to the view that had the press, wherever they happen.  The *)
(* control key, read at each event, makes the left button a right one.                                      *)
MacMouse(p) ==
    LET es == IF world[Mouse].buttons # {} THEN <<Event("Move", Mouse, IF p = "away" THEN "out" ELSE p)>>
              ELSE IF p = "away" THEN <<Event("Exit", Mouse, "out")>>
              ELSE IF world[Mouse].at = "away" THEN <<Event("Enter", Mouse, p)>>
              ELSE <<Event("Move", Mouse, p)>>
    IN /\ Is("mac") /\ p # world[Mouse].at
       /\ world' = At(Mouse, p)
       /\ push(Mouse, es)
       /\ UNCHANGED <<captured, binder>>

MacMouseDown(b, ctrl) ==
    /\ Is("mac") /\ b \notin world[Mouse].buttons /\ world[Mouse].at # "away"
    /\ Pressed(Mouse, b, TRUE)
    /\ push(Mouse, <<Pressing("Down", Mouse, IF ctrl THEN "right" ELSE b, Place(Mouse))>>)
    /\ UNCHANGED <<captured, binder>>

MacMouseUp(b, ctrl, clicks) ==
    /\ Is("mac") /\ b \in world[Mouse].buttons /\ (clicks => b = "left")
    /\ Lifted(Mouse, b)
    /\ LET button == IF ctrl THEN "right" ELSE b
       IN push(Mouse, <<Pressing("Up", Mouse, button, Place(Mouse))>>
                      \o IF clicks THEN <<Pressing("Click", Mouse, button, Place(Mouse))>> ELSE <<>>)
    /\ UNCHANGED <<captured, binder>>

TouchesBegan(t, p) ==
    /\ Is("ios") /\ world[t].at = "away"
    /\ world' = [world EXCEPT ![t] = [at |-> p, buttons |-> {"left"}, told |-> {"left"}]]
    /\ push(t, <<Pressing("Down", t, "left", p)>>)
    /\ UNCHANGED <<captured, binder>>

TouchesMoved(t, p) ==
    /\ Is("ios") /\ world[t].at \notin {"away", p}
    /\ world' = At(t, p)
    /\ push(t, <<Event("Move", t, p)>>)
    /\ UNCHANGED <<captured, binder>>

TouchesEnded(t, kind) ==
    /\ Is("ios") /\ world[t].at # "away" /\ kind \in {"Up", "Cancel"}
    /\ world' = [world EXCEPT ![t] = Released]
    /\ push(t, <<Pressing(kind, t, IF kind = "Up" THEN "left" ELSE None, world[t].at)>>)
    /\ UNCHANGED <<captured, binder>>

\* The recognizers of UIKit speak of a place; the finger it is given to is the closest, or none.
HandleTap(t, p) ==
    /\ Is("ios") /\ IF t = None THEN \A f \in Fingers[view] : world[f].at = "away" ELSE world[t].at # "away"
    /\ push(t, <<Pressing("Click", t, "left", p)>>)
    /\ UNCHANGED <<world, captured, binder>>

HandleLongPress(t, p) ==
    /\ Is("ios") /\ world[t].at # "away"
    /\ push(t, <<Pressing("Down", t, "right", p)>>)
    /\ UNCHANGED <<world, captured, binder>>

(* The page captures a pressed pointer.  Of several buttons of one pointer it tells the first press and the *)
(* last release; a finger comes with its press and goes with its release.                                   *)
WebPointerMove(t, p) ==
    /\ Is("web") /\ world[t].at # p /\ (t # Mouse => world[t].buttons # {} /\ p # "away")
    /\ world' = At(t, p)
    /\ LET q == IF p = "away" THEN "out" ELSE p
       IN IF p = "away" /\ world[t].buttons = {}
          THEN push(t, <<Event("Exit", t, q)>>) /\ binder' = [binder EXCEPT !.mouseIn = FALSE]
          ELSE push(t, Enters(t, q) \o <<Event("Move", t, q)>>) /\ binder' = [binder EXCEPT !.mouseIn = TRUE]
    /\ UNCHANGED captured

WebPointerDown(t, b, p) ==
    /\ Is("web") /\ b \notin world[t].buttons
    /\ IF t = Mouse THEN p = world[t].at ELSE world[t].at = "away" /\ p # "away" /\ b = "left"
    /\ p # "away" \/ world[t].buttons # {}
    /\ world' = [world EXCEPT ![t].at = p, ![t].buttons = @ \cup {b}, ![t].told = @ \cup {b}]
    /\ LET q == IF p = "away" THEN "out" ELSE p
       IN IF world[t].buttons = {}
          THEN /\ push(t, (IF t = Mouse THEN <<>> ELSE <<Event("Enter", t, q)>>) \o <<Pressing("Down", t, b, q)>>)
               /\ binder' = [binder EXCEPT !.left = IF b = "left" THEN q ELSE @, !.mouseIn = TRUE]
          ELSE push(t, <<Event("Move", t, q)>>) /\ UNCHANGED binder
    /\ UNCHANGED captured

\* `left_down` is one for all pointers; a right release always clicks.
WebPointerUp(t, b) ==
    /\ Is("web") /\ b \in world[t].buttons
    /\ IF world[t].buttons # {b}
       THEN Lifted(t, b) /\ push(t, <<Event("Move", t, Place(t))>>) /\ UNCHANGED binder
       ELSE LET p == Place(t)
                clicks == IF b = "left" THEN binder.left = p ELSE TRUE
                goes == t # Mouse \/ world[t].at = "away"
            IN /\ world' = [world EXCEPT ![t] = IF goes THEN Released ELSE [@ EXCEPT !.buttons = {}, !.told = {}]]
               /\ push(t, <<Pressing("Up", t, b, p)>>
                          \o (IF clicks THEN <<Pressing("Click", t, b, p)>> ELSE <<>>)
                          \o (IF goes THEN <<Event("Exit", t, p)>> ELSE <<>>))
               /\ binder' = [binder EXCEPT !.left = IF b = "left" THEN None ELSE @, !.mouseIn = ~goes]
    /\ UNCHANGED captured

WebPointerCancel(t) ==
    /\ Is("web") /\ world[t].buttons # {}
    /\ world' = [world EXCEPT ![t] = Released]
    /\ push(t, <<Event("Cancel", t, Place(t)), Event("Exit", t, Place(t))>>)
    /\ binder' = [binder EXCEPT !.left = None, !.mouseIn = FALSE]
    /\ UNCHANGED captured

----------------------------------------------------------------------------
(* The recognizers, each over one event. *)

\* While some pointer is held, only one that was pressed within the frame is ours.  A press of the same tag may
\* be there twice.
OursIn(t) == LET mine == {o \in held : o.tag = t}
             IN IF mine = {} THEN {FALSE} ELSE {o.pos = "in" : o \in mine}

OverNext(e, ours) ==
    LET now == e.kind \in {"Move", "Enter"} /\ e.pos = "in"
        hears == \/ e.kind \in {"Move", "Enter", "Exit"} /\ (held = {} \/ ours)
                 \/ e.kind \in (IF Is("ios") THEN {"Up", "Cancel"} ELSE {"Cancel"}) /\ over.tag \in {None, e.tag}
    IN IF ~hears THEN over
       ELSE [on |-> now, tag |-> IF ~now THEN None ELSE IF over.on THEN over.tag ELSE e.tag]

\* Mutant: a cancelled touch is no release.
DownNextUpOnly(e) ==
    IF e.kind = "Down" /\ e.button = "left" /\ e.pos = "in" /\ ~down.on THEN [on |-> TRUE, tag |-> e.tag]
    ELSE IF e.kind = "Up" /\ down.on /\ down.tag = e.tag THEN Idle
    ELSE down

DownNext(e) ==
    IF e.kind = "Down" /\ e.button = "left" /\ e.pos = "in" /\ ~down.on THEN [on |-> TRUE, tag |-> e.tag]
    ELSE IF e.kind \in {"Up", "Cancel"} /\ down.on /\ down.tag = e.tag THEN Idle
    ELSE down

\* A pointer that is down drags; it does not dwell.
DwellNext(e) ==
    LET off == [armed |-> FALSE, on |-> FALSE]
        isDown == \E o \in held : o.tag = e.tag
    IN CASE e.kind = "Down" -> IF dwell.on THEN off ELSE dwell
         [] e.kind = "Up" -> IF Is("ios") THEN [dwell EXCEPT !.armed = FALSE] ELSE dwell
         [] e.kind = "Move" -> IF isDown THEN [dwell EXCEPT !.armed = FALSE]
                               ELSE [armed |-> ~dwell.on /\ e.pos = "in", on |-> FALSE]
         [] e.kind = "Lost" -> dwell
         [] OTHER -> off

DragNext(e) ==
    IF drag.tag # None /\ drag.tag # e.tag THEN drag
    ELSE CASE e.kind = "Down" /\ e.button = "left" /\ e.pos = "in" -> [fpos |-> e.pos, tag |-> e.tag, on |-> FALSE]
           [] e.kind \in {"Up", "Cancel"} -> NoDrag
           [] e.kind = "Move" /\ drag.fpos # None ->
                  [drag EXCEPT !.on = @ \/ ~slop \/ e.pos # drag.fpos]
           [] OTHER -> drag

\* process_events of each, over the next event.
Process ==
    /\ drawing /\ list # <<>>
    /\ \E e \in {Head(list)}, ours \in (IF uses = "over" THEN OursIn(Head(list).tag) ELSE {FALSE}) :
          LET starts == uses = "drag" /\ ~drag.on /\ DragNext(e).on
              ends == drag.on /\ e.kind \in {"Up", "Cancel"} /\ ~DragNext(e).on
          IN /\ over' = IF uses = "over" THEN OverNext(e, ours) ELSE over
             /\ down' = IF uses = "down" THEN DownNext(e) ELSE down
             /\ dwell' = IF uses = "dwell" THEN DwellNext(e) ELSE dwell
             /\ drag' = IF uses = "drag" THEN DragNext(e) ELSE drag
             /\ missed' = IF e.kind = "Lost" THEN missed \cup {e.tag}
                          ELSE IF e.kind \in {"Up", "Cancel"} THEN missed \ {e.tag} ELSE missed
             /\ dragging' = (starts \/ (dragging /\ ~ends))
             /\ orphaned' = (orphaned \/ (drag.on /\ ~DragNext(e).on /\ e.kind = "Down" /\ missed # {}))
             /\ twice' = (twice \/ (starts /\ dragging /\ ~orphaned))
    /\ list' = Tail(list)
    /\ UNCHANGED <<view, world, captured, binder, stream, drawing, held, uses, slop>>

\* The end of the frame: a pointer that has rested long enough dwells.
Drawn ==
    /\ drawing /\ list = <<>>
    /\ \E elapsed \in BOOLEAN : dwell' = [dwell EXCEPT !.on = dwell.armed /\ (@ \/ elapsed)]
    /\ drawing' = FALSE /\ held' = {}
    /\ UNCHANGED <<view, world, captured, binder, stream, list, uses, slop, over, down, drag, ghosts>>

\* A layout: the recognizers drop what they are in if the frame moved, Drag in any case.
set_frame(moved) ==
    /\ ~drawing
    /\ over' = IF moved THEN Idle ELSE over
    /\ down' = IF moved THEN Idle ELSE down
    /\ dwell' = IF moved THEN [armed |-> FALSE, on |-> FALSE] ELSE dwell
    /\ drag' = NoDrag /\ dragging' = FALSE
    /\ UNCHANGED <<view, world, captured, binder, stream, frame, uses, slop, missed, orphaned, twice>>

Next ==
    \/ \E p \in Places \cup {"away"} : WinMouseMove(p) \/ MacMouse(p)
    \/ \E b \in Buttons, double \in BOOLEAN : WinButtonDown(b, double)
    \/ \E b \in Buttons : WinButtonUp(b)
    \/ WinCaptureLost
    \/ \E b \in Buttons, ctrl \in BOOLEAN : MacMouseDown(b, ctrl)
    \/ \E b \in Buttons, ctrl, clicks \in BOOLEAN : MacMouseUp(b, ctrl, clicks)
    \/ \E t \in Fingers[view], p \in Places : TouchesBegan(t, p) \/ TouchesMoved(t, p) \/ HandleLongPress(t, p)
    \/ \E t \in Fingers[view], kind \in {"Up", "Cancel"} : TouchesEnded(t, kind)
    \/ \E t \in Fingers[view] \cup {None}, p \in Places : HandleTap(t, p)
    \/ \E t \in {Mouse} \cup Fingers[view], p \in Places \cup {"away"} : WebPointerMove(t, p)
    \/ \E t \in {Mouse} \cup Fingers[view], b \in Buttons, p \in Places \cup {"away"} : WebPointerDown(t, b, p)
    \/ \E t \in {Mouse} \cup Fingers[view], b \in Buttons : WebPointerUp(t, b)
    \/ \E t \in {Mouse} \cup Fingers[view] : WebPointerCancel(t)
    \/ consume
    \/ Process
    \/ Drawn
    \/ \E moved \in BOOLEAN : set_frame(moved)

----------------------------------------------------------------------------

TypeOK ==
    /\ view \in Views /\ captured \in BOOLEAN /\ slop \in BOOLEAN
    /\ world \in [Tags -> [at : Places \cup {"away"}, buttons : SUBSET Buttons, told : SUBSET Buttons]]
    /\ binder \in [left : Places \cup {None}, right : Places \cup {None}, mouseIn : BOOLEAN]
    /\ Len(events) <= MaxEvents[view] /\ Len(list) <= MaxEvents[view]
    /\ pointerOrigins \subseteq [tag : Tags, pos : Places]
    /\ over \in [on : BOOLEAN, tag : Tags \cup {None}] /\ down \in [on : BOOLEAN, tag : Tags \cup {None}]
    /\ dwell \in [armed : BOOLEAN, on : BOOLEAN]
    /\ drag \in [fpos : Places \cup {None}, tag : Tags \cup {None}, on : BOOLEAN]

Settled == ~drawing /\ events = <<>>
NothingHeld == \A t \in Tags : world[t].buttons = {}

\* Once no button or finger is down and a frame has been drawn, no control is pressed or dragged, unless a release
\* happened where the view is not told of it; the release it is told of next makes good for that too.  The editor has
\* been told of the end of every drag it was told the start of, before the next, but for one a press orphaned.
PressEnds ==
    /\ Settled /\ NothingHeld /\ missed = {} => ~down.on /\ drag = NoDrag /\ (dragging => orphaned)
    /\ ~twice

\* "On touch there is no pointer once the finger lifts, so nothing can be hovering": nor waits to.
NothingHovers ==
    Is("ios") /\ Settled /\ NothingHeld => ~over.on /\ ~dwell.on /\ ~dwell.armed

\* pointer_origins holds "the held pointer tags": those of the pointers held, and no other.
HeldTags == Settled /\ missed = {} => \A o \in pointerOrigins : world[o.tag].buttons # {}

=============================================================================
