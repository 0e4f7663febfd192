------------------------------ MODULE ViewLife ------------------------------
(***************************************************************************)
(* The life of an editor's view: a wrapper's View, on top of it            *)
(* platform::View with its View_delegate, and under them the native view   *)
(* and what drives its frames.  Each host opens and closes it in a way of  *)
(* its own, and the native view, a display link or a scheduled frame may   *)
(* outlive it.                                                             *)
(***************************************************************************)
EXTENDS Integers, Sequences

CONSTANTS Views,       \* bound: 1 .. the number of views opened
          None,
          Editions     \* which <<host, platform>>

Hosts == {"clap", "vst3", "aax", "auv2", "auv3", "web"}
Systems == {"win", "mac", "mac13", "ios", "web"}   \* mac13: before the Metal display link

VARIABLES host, platform,
          cur,         \* the wrapper's platform view, which its token names
          native,      \* the native views (on the web, the binders) there are
          placed,      \* those in a window
          context,     \* those whose delegate has its window context
          detached,    \* those whose delegate has forgotten the wrapper
          link,        \* whose display link or vsync thread runs; on the web `looping`
          wanted,      \* iOS: _link_wanted; on the web `shown`
          dead,        \* the web: told to free themselves
          due,         \* Windows: there is a WM_PAINT to come; on the web: the frames scheduled
          foreground,  \* iOS: the app or the extension's host is
          editor,      \* what the plug-in's editor was last told
          open,        \* it has drawn since its session was last closed
          visible,     \* CLAP, AUv3: what the host last showed or hid
          unit,        \* AUv3: the controller has its audio unit, and then the editor too
          setup,       \* AUv3: a dispatched setupViewAdapter
          gone,        \* AUv2: the unit is disposed of; AUv3: the controller is deallocated
          lapses       \* calls the editor got out of order, and frames it should not have got

native_views == <<native, placed, context, detached>>
frames == <<link, wanted, dead, due>>
told == <<editor, open, lapses>>
controller == <<visible, unit, setup, gone>>
vars == <<host, platform, cur, native_views, frames, foreground, told, controller>>

Calls == {"create", "show", "hide", "destroy"}

TypeOK ==
    /\ <<host, platform>> \in Editions /\ cur \in Views \cup {None}
    /\ \A S \in {native, placed, context, detached, link, wanted, dead} : S \subseteq Views
    /\ due \in [Views -> 0 .. 2]
    /\ foreground \in BOOLEAN /\ visible \in BOOLEAN /\ setup \in BOOLEAN /\ gone \in BOOLEAN /\ open \in BOOLEAN
    /\ editor \in {"none", "created", "shown", "hidden"} /\ unit \in {"none", "unit", "editor"}
    /\ lapses \subseteq Calls \cup {"draw", "frame", "null"}

Init ==
    /\ \E e \in Editions : host = e[1] /\ platform = e[2]
    /\ cur = None /\ native = {} /\ placed = {} /\ context = {} /\ detached = {}
    /\ link = {} /\ wanted = {} /\ dead = {} /\ due = [v \in Views |-> 0]
    /\ foreground = TRUE /\ editor = "none" /\ open = FALSE /\ visible = FALSE
    /\ unit = "none" /\ setup = FALSE /\ gone = FALSE /\ lapses = {}

On(p) == platform = p
Mac == platform \in {"mac", "mac13"}
Owned == host # "auv2"
Made == native \cup detached \cup dead
NextView(v) == v \in Views /\ v \notin Made /\ \A w \in Views : w < v => w \in Made

----------------------------------------------------------------------------
(* What the editor is told *)

Heard == [create |-> "created", show |-> "shown", hide |-> "hidden", destroy |-> "none"]
Expects == [none |-> {"create"}, created |-> {"show", "destroy"}, shown |-> {"hide"}, hidden |-> {"show", "destroy"}]

\* The calls of one handler.  `closes`: close_session among them.
Tell(calls, closes) ==
    LET before(i) == IF i = 1 THEN editor ELSE Heard[calls[i - 1]]
    IN /\ editor' = Heard[calls[Len(calls)]]
       /\ lapses' = lapses \cup {calls[i] : i \in {j \in DOMAIN calls : calls[j] \notin Expects[before(j)]}}
       /\ open' = (open /\ ~closes)

\* View_delegate::draw: without a context nothing, once detached nothing that reaches the wrapper.
Draw(v) ==
    /\ IF v \in context \ detached
       THEN /\ open' = TRUE
            /\ lapses' = IF cur = v /\ editor # "none" THEN lapses ELSE lapses \cup {"draw"}
       ELSE UNCHANGED <<open, lapses>>
    /\ UNCHANGED editor

----------------------------------------------------------------------------
(* platform::View *)

\* Before macOS 14 there is no display link out of a window's screen.
StartDisplayLink(v, within) == link' = IF On("mac13") /\ v \notin within THEN link \ {v} ELSE link \cup {v}

WinShow(v) == On("win") /\ link' = link \cup {v} /\ UNCHANGED <<wanted, due>>

\* The view is in a window if it is in `within`.
MacShow(v, within) == Mac /\ StartDisplayLink(v, within) /\ UNCHANGED <<wanted, due>>

IosShow(v) == On("ios") /\ link' = link \cup {v} /\ wanted' = wanted \cup {v} /\ UNCHANGED due

WebShow(v) ==
    /\ On("web") /\ wanted' = wanted \cup {v} /\ link' = link \cup {v}
    /\ due' = IF v \in link THEN due ELSE [due EXCEPT ![v] = @ + 1]

\* on_show
OnShow(v, within) == WinShow(v) \/ MacShow(v, within) \/ IosShow(v) \/ WebShow(v)

(* What a handler leaves of a view: on_hide, if it `hides`, and then on_destroy and ~View, if it `goes`. *)

\* on_destroy's invalidate_context
Drops(v) == cur' = None /\ context' = context \ {v} /\ placed' = IF Owned THEN placed \ {v} ELSE placed

WinLeaves(v, hides, goes) ==
    /\ On("win") /\ link' = link \ {v} /\ UNCHANGED <<wanted, dead>>
    /\ IF goes THEN /\ Drops(v) /\ detached' = detached \cup {v} /\ native' = native \ {v}
                    /\ due' = [due EXCEPT ![v] = 0]
       ELSE UNCHANGED <<cur, native_views, due>>

\* A view of the host's stays where it is, stopped and detached.
MacLeaves(v, hides, goes) ==
    /\ Mac /\ link' = (IF goes \/ (hides /\ Owned) THEN link \ {v} ELSE link) /\ UNCHANGED <<wanted, dead, due>>
    /\ IF goes THEN Drops(v) /\ detached' = detached \cup {v} /\ UNCHANGED native
       ELSE UNCHANGED <<cur, native_views>>

\* ~View neither stops the link nor detaches.
IosLeaves(v, hides, goes) ==
    /\ On("ios") /\ UNCHANGED <<dead, due>>
    /\ IF hides THEN link' = link \ {v} /\ wanted' = wanted \ {v} ELSE UNCHANGED <<link, wanted>>
    /\ IF goes THEN Drops(v) /\ UNCHANGED <<native, detached>> ELSE UNCHANGED <<cur, native_views>>

\* Mutant: the binder is freed at once, its next frame scheduled or not.
WebLeavesAtOnce(v, hides, goes) ==
    /\ On("web") /\ wanted' = (IF hides THEN wanted \ {v} ELSE wanted) /\ UNCHANGED <<link, due, dead>>
    /\ IF goes THEN Drops(v) /\ detached' = detached \cup {v} /\ native' = native \ {v}
       ELSE UNCHANGED <<cur, native_views>>

\* A binder whose loop runs frees itself.
WebLeaves(v, hides, goes) ==
    /\ On("web") /\ wanted' = (IF hides THEN wanted \ {v} ELSE wanted) /\ UNCHANGED <<link, due>>
    /\ IF goes THEN /\ Drops(v) /\ detached' = detached \cup {v}
                    /\ IF v \in link THEN dead' = dead \cup {v} /\ UNCHANGED native
                       ELSE native' = native \ {v} /\ UNCHANGED dead
       ELSE UNCHANGED <<cur, native_views, dead>>

Leaves(v, hides, goes) ==
    WinLeaves(v, hides, goes) \/ MacLeaves(v, hides, goes) \/ IosLeaves(v, hides, goes) \/ WebLeaves(v, hides, goes)

\* The constructor, and receive_parent where the same handler calls it.
Makes(v, parented) ==
    /\ cur' = v /\ native' = native \cup {v} /\ context' = context \cup {v}
    /\ placed' = IF parented THEN placed \cup {v} ELSE placed

----------------------------------------------------------------------------
(* CLAP: gui_create, gui_set_parent, gui_show, gui_hide, gui_destroy *)

GuiCreate(v) ==
    /\ host = "clap" /\ cur = None /\ NextView(v)
    /\ Makes(v, FALSE) /\ Tell(<<"create">>, FALSE)
    /\ UNCHANGED <<host, platform, detached, frames, foreground, controller>>

\* receive_parent; on Windows the window is shown and painted at once, on a Mac it moves to a window.
GuiSetParent(v) ==
    /\ host \in {"clap", "aax"} /\ cur = v /\ v \notin placed
    /\ placed' = placed \cup {v}
    /\ IF Mac THEN StartDisplayLink(v, {v}) /\ UNCHANGED told
       ELSE UNCHANGED link /\ Draw(v)
    /\ UNCHANGED <<host, platform, cur, native, context, detached, wanted, dead, due, foreground, controller>>

GuiShow(v) ==
    /\ host = "clap" /\ cur = v /\ ~visible
    /\ visible' = TRUE /\ OnShow(v, placed) /\ Tell(<<"show">>, FALSE)
    /\ UNCHANGED <<host, platform, cur, native_views, dead, foreground, unit, setup, gone>>

GuiHide(v) ==
    /\ host = "clap" /\ cur = v /\ visible
    /\ visible' = FALSE /\ Leaves(v, TRUE, FALSE) /\ Tell(<<"hide">>, TRUE)
    /\ UNCHANGED <<host, platform, foreground, unit, setup, gone>>

GuiDestroy(v) ==
    /\ host = "clap" /\ cur = v
    /\ visible' = FALSE /\ Leaves(v, FALSE, TRUE) /\ Tell(<<"destroy">>, FALSE)
    /\ UNCHANGED <<host, platform, foreground, unit, setup, gone>>

----------------------------------------------------------------------------
(* VST3: attached and removed; AAX: CreateViewContents, then the container, and DeleteViewContainer; the web: open_view *)

CreateViewContents(v) ==
    /\ host = "aax" /\ cur = None /\ NextView(v)
    /\ Makes(v, FALSE) /\ Tell(<<"create">>, FALSE)
    /\ UNCHANGED <<host, platform, detached, frames, foreground, controller>>

\* The rest of CreateViewContainer, once it has its parent (GuiSetParent).
CreateViewContainer(v) ==
    /\ host = "aax" /\ cur = v /\ v \in placed /\ editor = "created"
    /\ OnShow(v, placed) /\ Tell(<<"show">>, FALSE)
    /\ UNCHANGED <<host, platform, cur, native_views, dead, foreground, controller>>

OpensShown(v) ==
    /\ cur = None /\ NextView(v)
    /\ Makes(v, TRUE) /\ OnShow(v, {v}) /\ Tell(<<"create", "show">>, FALSE)
    /\ UNCHANGED <<host, platform, detached, dead, foreground, controller>>

Closes(v) ==
    /\ cur = v /\ editor = "shown"
    /\ Leaves(v, TRUE, TRUE) /\ Tell(<<"hide", "destroy">>, TRUE)
    /\ UNCHANGED <<host, platform, foreground, controller>>

Attached(v) == host = "vst3" /\ OpensShown(v)
Removed(v) == host = "vst3" /\ Closes(v)
DeleteViewContainer(v) == host = "aax" /\ Closes(v)
open_view(v) == host = "web" /\ OpensShown(v)
close_view(v) == host = "web" /\ Closes(v)

----------------------------------------------------------------------------
(* AUv2: the host owns the native view, and says nothing when it lets it go. *)

\* create_view, which a host may call while another of the unit's views is up: ~View detaches that one.
CreateView(v) ==
    /\ host = "auv2" /\ ~gone /\ NextView(v)
    /\ cur' = v /\ native' = native \cup {v} /\ context' = (context \ {cur}) \cup {v}
    /\ detached' = IF cur = None THEN detached ELSE detached \cup {cur}
    /\ link' = (link \ {cur}) \cup (IF On("mac13") THEN {} ELSE {v})
    /\ Tell(<<"create", "show">>, FALSE)
    /\ UNCHANGED <<host, platform, placed, wanted, dead, due, foreground, controller>>

\* -dealloc, and with it on_autorelease, unless the view is detached.  The platform view stays, and its token with it.
Released(v) ==
    /\ host = "auv2" /\ v \in native
    /\ native' = native \ {v} /\ placed' = placed \ {v} /\ link' = link \ {v}
    /\ IF v \in detached THEN UNCHANGED <<told, context, detached>>
       ELSE /\ Tell(<<"hide", "destroy">>, TRUE)
            /\ context' = context \ {v} /\ detached' = detached \cup {v}
    /\ UNCHANGED <<host, platform, cur, wanted, dead, due, foreground, controller>>

\* The unit goes: ~View of the wrapper, and then of the platform.
Dispose ==
    /\ host = "auv2" /\ ~gone /\ gone' = TRUE
    /\ IF cur # None /\ cur \in native THEN Tell(<<"hide", "destroy">>, FALSE) ELSE UNCHANGED told
    /\ IF cur = None THEN UNCHANGED <<cur, native_views, frames>> ELSE Leaves(cur, FALSE, TRUE)
    /\ UNCHANGED <<host, platform, foreground, visible, unit, setup>>

----------------------------------------------------------------------------
(* AUv3: the unit is made on any thread, the controller's view appears on main. *)

\* bindToAudioUnit: the unit, and after it the editor and a dispatched setupViewAdapter.
BindToAudioUnit ==
    /\ host = "auv3" /\ ~gone
    /\ \/ unit = "none" /\ unit' = "unit" /\ UNCHANGED setup
       \/ unit = "unit" /\ unit' = "editor" /\ setup' = TRUE
    /\ UNCHANGED <<host, platform, cur, native_views, frames, foreground, told, visible, gone>>

\* viewDidLoad, which comes before it appears, or the dispatched block.
SetupViewAdapter(v) ==
    /\ host = "auv3" /\ ~gone /\ unit # "none" /\ cur = None /\ NextView(v)
    /\ ~visible \/ setup
    /\ setup' = FALSE
    /\ Makes(v, visible)
    /\ IF unit = "editor" THEN Tell(<<"create">>, FALSE) ELSE lapses' = lapses \cup {"null"} /\ UNCHANGED <<editor, open>>
    /\ IF Mac /\ visible THEN StartDisplayLink(v, {v}) ELSE UNCHANGED link
    /\ UNCHANGED <<host, platform, detached, wanted, dead, due, foreground, visible, unit, gone>>

\* UIKit has nothing appear in the background.
ViewWillAppear ==
    /\ host = "auv3" /\ ~gone /\ ~visible /\ foreground
    /\ visible' = TRUE
    /\ IF cur = None THEN UNCHANGED <<cur, native_views, frames, told>>
       ELSE /\ OnShow(cur, {cur}) /\ placed' = placed \cup {cur} /\ Tell(<<"show">>, FALSE)
            /\ UNCHANGED <<cur, native, context, detached, dead>>
    /\ UNCHANGED <<host, platform, foreground, unit, setup, gone>>

ViewWillDisappear ==
    /\ host = "auv3" /\ ~gone /\ visible
    /\ visible' = FALSE
    /\ IF cur = None THEN UNCHANGED <<cur, native_views, frames, told>> ELSE Leaves(cur, TRUE, FALSE) /\ Tell(<<"hide">>, TRUE)
    /\ UNCHANGED <<host, platform, foreground, unit, setup, gone>>

ControllerDealloc ==
    /\ host = "auv3" /\ ~gone /\ ~visible /\ ~setup /\ unit # "unit"
    /\ gone' = TRUE
    /\ IF cur = None THEN UNCHANGED <<cur, native_views, frames, told>> ELSE Leaves(cur, FALSE, TRUE) /\ Tell(<<"destroy">>, FALSE)
    /\ UNCHANGED <<host, platform, foreground, visible, unit, setup>>

----------------------------------------------------------------------------
(* The native views *)

\* The display link's frame, on the main thread.
MacFrame(v) ==
    /\ Mac /\ v \in link /\ Draw(v)
    /\ UNCHANGED <<host, platform, cur, native_views, frames, foreground, controller>>

IosFrame(v) ==
    /\ On("ios") /\ v \in link /\ Draw(v)
    /\ UNCHANGED <<host, platform, cur, native_views, frames, foreground, controller>>

\* The vsync thread invalidates; the window procedure paints.
Vsync(v) ==
    /\ On("win") /\ v \in link /\ due[v] = 0
    /\ due' = [due EXCEPT ![v] = 1]
    /\ UNCHANGED <<host, platform, cur, native_views, link, wanted, dead, foreground, told, controller>>

Paint(v) ==
    /\ On("win") /\ due[v] = 1
    /\ due' = [due EXCEPT ![v] = 0] /\ Draw(v)
    /\ UNCHANGED <<host, platform, cur, native_views, link, wanted, dead, foreground, controller>>

\* The page's frame: it frees the binder, ends the loop, or draws and comes again.
Frame(v) ==
    /\ On("web") /\ due[v] > 0
    /\ IF v \notin native THEN lapses' = lapses \cup {"frame"} /\ UNCHANGED <<native, link, due, open, editor>>
       ELSE IF v \in dead THEN native' = native \ {v} /\ due' = [due EXCEPT ![v] = @ - 1] /\ UNCHANGED <<link, told>>
       ELSE IF v \notin wanted THEN link' = link \ {v} /\ due' = [due EXCEPT ![v] = @ - 1] /\ UNCHANGED <<native, told>>
       ELSE Draw(v) /\ UNCHANGED <<native, link, due>>
    /\ UNCHANGED <<host, platform, cur, placed, context, detached, wanted, dead, foreground, controller>>

\* viewDidMoveToWindow: the host takes its window apart, or puts another under the view; a controller's view that gets
\* one appears.
Moves(v) ==
    /\ Mac /\ v \in native
    /\ v \in placed \/ host # "auv3" \/ visible
    /\ placed' = IF v \in placed THEN placed \ {v} ELSE placed \cup {v}
    /\ IF v \in placed THEN link' = link \ {v} ELSE StartDisplayLink(v, {v})
    /\ UNCHANGED <<host, platform, cur, native, context, detached, wanted, dead, due, foreground, told, controller>>

\* windowDidChangeScreen, of any window, and screenParametersChanged.
ScreenChanges(v) ==
    /\ Mac /\ v \in native /\ StartDisplayLink(v, placed)
    /\ UNCHANGED <<host, platform, cur, native_views, wanted, dead, due, foreground, told, controller>>

\* An owned view that its View has released; on iOS a running display link keeps it.
Dealloc(v) ==
    /\ Owned /\ v \in native /\ cur # v
    /\ native' = native \ {v} /\ link' = link \ {v} /\ placed' = placed \ {v} /\ detached' = detached \cup {v}
    /\ UNCHANGED <<host, platform, cur, context, wanted, dead, due, foreground, told, controller>>

MacDealloc(v) == Mac /\ Dealloc(v)
IosDealloc(v) == On("ios") /\ v \notin link /\ Dealloc(v)

\* appDidEnterBackground and appWillEnterForeground.
Backgrounds ==
    /\ On("ios") /\ foreground' = ~foreground
    /\ link' = IF foreground THEN {} ELSE link \cup (wanted \cap native)
    /\ UNCHANGED <<host, platform, cur, native_views, wanted, dead, due, told, controller>>

----------------------------------------------------------------------------

\* A call of an editor that is not there ends it all.
Next ==
    /\ "null" \notin lapses
    /\ \/ \E v \in Views :
             \/ GuiCreate(v) \/ GuiSetParent(v) \/ GuiShow(v) \/ GuiHide(v) \/ GuiDestroy(v)
             \/ CreateViewContents(v) \/ CreateViewContainer(v) \/ DeleteViewContainer(v)
             \/ Attached(v) \/ Removed(v) \/ open_view(v) \/ close_view(v)
             \/ CreateView(v) \/ Released(v) \/ SetupViewAdapter(v)
             \/ MacFrame(v) \/ IosFrame(v) \/ Vsync(v) \/ Paint(v) \/ Frame(v)
             \/ Moves(v) \/ ScreenChanges(v) \/ MacDealloc(v) \/ IosDealloc(v)
       \/ Dispose \/ BindToAudioUnit \/ ViewWillAppear \/ ViewWillDisappear \/ ControllerDealloc \/ Backgrounds

----------------------------------------------------------------------------

\* What some hosts' ways of opening and closing bring about: CLAP's destroys what it has not hidden, AUv2's opens a view
\* over another, AUv3's controller appears before its editor is there, or has a unit without one.
Untimely == CASE host = "clap" -> {"destroy"} [] host = "auv2" -> {"create"} [] host = "auv3" -> {"hide", "null"}
              [] OTHER -> {}

\* The editor hears on_create, on_show, on_hide and on_destroy in their order but for those.  No frame reaches it
\* outside them, nor a wrapper's View that is no longer there, whatever of the native view, its display link or a
\* scheduled frame is left; and no frame finds its binder freed.  Its session is closed when it has gone, unless CLAP's
\* host never hid it, AUv2's let the unit go first, or macOS gave a hidden view its frames back.
EditorIsTold ==
    /\ lapses \subseteq Untimely
    /\ editor = "none" /\ open => host \in {"clap", "auv2"} \/ (host = "auv3" /\ Mac)

\* A view that is shown, in a window and in the foreground, has its frames.  Off macOS, whose links start again with a
\* screen or a window, none but a view that is shown has: on iOS in the background none at all.  And on the web every
\* binder with a loop has one frame scheduled, and one without a view goes with it.
FramesFollow ==
    /\ editor = "shown" /\ foreground /\ (Mac => cur \in placed) => cur \in link
    /\ platform \in {"win", "ios"} => \A v \in link : v = cur /\ (editor = "shown") /\ foreground
    /\ Mac => link \subseteq native
    /\ On("web") => \A v \in Views : /\ due[v] = (IF v \in link /\ v \in native THEN 1 ELSE 0)
                                    /\ v \in native /\ v # cur => v \in dead /\ due[v] = 1

=============================================================================
