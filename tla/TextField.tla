----------------------------- MODULE TextField -----------------------------
(***************************************************************************)
(* platform::Text: a native control over the editor, for typing a value.   *)
(* Enter, Escape, a press elsewhere in the editor, the loss of the         *)
(* keyboard, another field, cancel() and the end of the view or of its     *)
(* window all come to end it; the control itself goes away later, by a     *)
(* message to itself, and until then still tells of what happens to it.    *)
(* All of it is on the main thread.                                        *)
(***************************************************************************)
EXTENDS Naturals

CONSTANTS Fields,      \* bound: the calls of Text::edit
          Platforms    \* which of "win", "mac", "ios", "web"

VARIABLES platform,
          place,       \* the view: "shown" in a window, "bare" in none (on Windows: its window destroyed), "gone"
          asked,       \* the calls made
          finished,    \* their `finished` (on the web: `ended`)
          open,        \* open_fields at this editor, _textField, `fields`
          up,          \* the controls that exist
          closes,      \* those that have a message under way to be taken down
          answers      \* per call, how often its on_done was handed on

vars == <<platform, place, asked, finished, open, up, closes, answers>>

TypeOK ==
    /\ platform \in Platforms /\ place \in {"shown", "bare", "gone"}
    /\ asked \subseteq Fields /\ finished \subseteq asked /\ open \subseteq asked
    /\ up \subseteq asked /\ closes \subseteq asked
    /\ answers \in [Fields -> 0 .. 2]

Init ==
    /\ platform \in Platforms /\ place \in {"shown", "bare"} /\ (platform = "win" => place = "shown")
    /\ asked = {} /\ finished = {} /\ open = {} /\ up = {} /\ closes = {}
    /\ answers = [f \in Fields |-> 0]

----------------------------------------------------------------------------

Is(p) == platform = p

\* Mutant: each of what ends a field answers.
AnswersEach(S) == answers' = [f \in Fields |-> answers[f] + (IF f \in S /\ answers[f] < 2 THEN 1 ELSE 0)]

\* finish_field, -finish: and the page's `end`: "ends `field` once".
Answer(S) == answers' = [f \in Fields |-> answers[f] + (IF f \in S \ finished THEN 1 ELSE 0)]

\* Ends the fields of S.  The controls in `stays` go by a message of their own, but for the page's, which goes at once.
finish(S, stays) ==
    /\ Answer(S)
    /\ finished' = finished \cup S
    /\ open' = open \ S
    /\ IF platform = "web" THEN up' = stays \ S /\ UNCHANGED closes
       ELSE up' = stays /\ closes' = closes \cup ((S \cap stays) \ finished)

\* The control of a new field is up; the field that was open has been blurred.
ComesUp(f) ==
    /\ Answer(open) /\ finished' = finished \cup open
    /\ open' = {f}
    /\ IF platform = "web" THEN up' = (up \ open) \cup {f} /\ UNCHANGED closes
       ELSE up' = up \cup {f} /\ closes' = closes \cup open

Asks(f) == f \notin asked /\ asked' = asked \cup {f} /\ UNCHANGED <<platform, place>>

(* Text::edit, four times.  Without a view, or outside of a window, the call is cancelled at once; once the field that *)
(* is open has been blurred the new control may fail.                                                                  *)

\* It may be the container that fails, or the EDIT inside it: the container then stays.
WinEdit(f) ==
    /\ Is("win") /\ Asks(f)
    /\ IF place = "shown" THEN ComesUp(f) \/ (\E stays \in {up, up \cup {f}} : finish(open \cup {f}, stays))
       ELSE finish({f}, up)

\* -beginTextField: blurs first, and then looks for its window.
MacEdit(f) ==
    /\ Is("mac") /\ Asks(f)
    /\ IF place = "shown" THEN ComesUp(f) ELSE finish({f} \cup (IF place = "bare" THEN open ELSE {}), up)

IosEdit(f) ==
    /\ Is("ios") /\ Asks(f)
    /\ IF place = "shown" THEN ComesUp(f) ELSE finish({f} \cup (IF place = "bare" THEN open ELSE {}), up)

\* The page may have no element to put it over.
WebEdit(f) ==
    /\ Is("web") /\ Asks(f)
    /\ IF place = "shown" THEN ComesUp(f) \/ finish(open \cup {f}, up) ELSE finish({f}, up)

(* A key, or the loss of the keyboard, at a control that is still there, and an ended field's once more. *)

Told(f) == f \in up /\ finish({f}, up) /\ UNCHANGED <<platform, place, asked>>

WinTold(f) == Is("win") /\ Told(f)
MacTold(f) == Is("mac") /\ Told(f)
IosTold(f) == Is("ios") /\ Told(f)
tiny_web_text_done(f) == Is("web") /\ Told(f)

(* A press elsewhere in the editor, by blur_field and its like; and Text::cancel, whose token names the view while it *)
(* lives.                                                                                                             *)

EndOpen == place # "gone" /\ open # {} /\ finish(open, up) /\ UNCHANGED <<platform, place, asked>>

WinCancel == Is("win") /\ EndOpen
MacCancel == Is("mac") /\ EndOpen
IosCancel == Is("ios") /\ EndOpen
WebCancel == Is("web") /\ EndOpen

\* WM_TINY_FIELD_CLOSE and the dispatched block: losing the keyboard on its way out, the control tells of it once more.
TakeDown(f) ==
    /\ f \in closes
    /\ Answer({f}) /\ finished' = finished \cup {f} /\ open' = open \ {f}
    /\ up' = up \ {f} /\ closes' = closes \ {f}
    /\ UNCHANGED <<platform, place, asked>>

\* The host takes the view out of its window.  On Windows it destroys the window, and the controls with it: WM_NCDESTROY.
\* AppKit and UIKit may or may not end the editing.
WindowGone ==
    /\ place = "shown" /\ platform # "web" /\ place' = "bare"
    /\ IF platform = "win"
       THEN Answer(up) /\ finished' = finished \cup up /\ open' = {} /\ up' = {} /\ closes' = {}
       ELSE \E S \in {{}, open} : finish(S, up)
    /\ UNCHANGED <<platform, asked>>

\* receive_parent, or the host puts it back.
InWindow ==
    /\ place = "bare" /\ platform # "win" /\ place' = "shown"
    /\ UNCHANGED <<platform, asked, finished, open, up, closes, answers>>

\* ~View: the field ends first, or with the window.
WinGone ==
    /\ Is("win") /\ place # "gone" /\ place' = "gone"
    /\ Answer(up \cup open) /\ finished' = finished \cup up \cup open /\ open' = {} /\ up' = {} /\ closes' = {}
    /\ UNCHANGED <<platform, asked>>

ViewGone ==
    /\ ~Is("win") /\ place # "gone" /\ place' = "gone"
    /\ finish(open, up)
    /\ UNCHANGED <<platform, asked>>

Next ==
    \/ \E f \in Fields :
          \/ WinEdit(f) \/ MacEdit(f) \/ IosEdit(f) \/ WebEdit(f)
          \/ WinTold(f) \/ MacTold(f) \/ IosTold(f) \/ tiny_web_text_done(f)
          \/ TakeDown(f)
    \/ WinCancel \/ MacCancel \/ IosCancel \/ WebCancel
    \/ WindowGone
    \/ InWindow
    \/ WinGone
    \/ ViewGone

----------------------------------------------------------------------------

\* "`on_done` fires exactly once": once for a field that has ended, and the one field that has not is the one the view
\* knows as open, so that "opening another ends the first" and "Cancelled if the view closes first" can reach it.
FieldsAnswer ==
    /\ \A f \in asked : answers[f] = IF f \in finished THEN 1 ELSE 0
    /\ asked \ finished = open /\ \A f, g \in open : f = g
    /\ open \subseteq up /\ closes \subseteq up \cap finished
    /\ place = "gone" => open = {}

=============================================================================
