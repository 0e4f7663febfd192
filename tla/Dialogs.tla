------------------------------ MODULE Dialogs ------------------------------
(***************************************************************************)
(* platform::Dialogs on four platforms: a request is carried to the thread *)
(* that owns the view, waits for its turn there, is put up, and its answer *)
(* is posted to the task manager.  Meanwhile the view may close and the    *)
(* task manager shut down.                                                 *)
(***************************************************************************)
EXTENDS Naturals, Sequences, SequencesExt

CONSTANTS Requests,    \* bound: the dialogs asked for
          None, Platforms,
          MaxSheetWaits   \* max_sheet_waits, 8 in the code

Kinds == {"ask", "text", "pick", "save"}   \* message and confirm; text_input; open_file and choose_dir; save_file

VARIABLES platform,
          view,        \* the view that asks: "shown", "bare" (in no window; on Windows its window destroyed), "gone"
          host,        \* a window or a controller to hang a dialog off, other than the view's
          tasks,       \* the task manager has not shut down
          kind, named, \* per request, and whether its token names the view
          at,          \* per request, where it is
          waits,       \* per request, waits_left
          sheet,       \* the sheet attached to the host's window: a request's, the host's own, or None
          modals,      \* the modal loops of the main thread, the innermost last
          ended,       \* how a modal was ended, whose loop has yet to return
          buffer,      \* prompt_buffer: whose text it holds
          shared,      \* the text inputs that were up at the same time as another
          answers,     \* per request, how often its callback was posted or run
          told,        \* per request, whose text its answer was
          late         \* those whose callback ran after the shutdown

asker == <<platform, view, host, tasks, kind, named>>
main == <<waits, sheet, modals, ended, buffer, shared>>
answering == <<answers, told, late>>
vars == <<asker, at, main, answering>>

Places == {"idle", "queued", "background", "waiting", "up", "parked", "settled"}

TypeOK ==
    /\ platform \in Platforms /\ view \in {"shown", "bare", "gone"} /\ host \in BOOLEAN /\ tasks \in BOOLEAN
    /\ kind \in [Requests -> Kinds] /\ named \in [Requests -> BOOLEAN]
    /\ at \in [Requests -> Places] /\ waits \in [Requests -> 0 .. MaxSheetWaits]
    /\ sheet \in Requests \cup {"host", None} /\ ended \in [Requests -> {None, "ok", "cancel"}]
    /\ answers \in [Requests -> 0 .. 2] /\ late \subseteq Requests /\ shared \subseteq Requests

\* Only Apple's systems have a window of the host's to fall back on; Windows has this binary's only view.
Init ==
    /\ platform \in Platforms /\ view = "shown" /\ tasks = TRUE
    /\ host \in (IF platform \in {"mac", "ios"} THEN BOOLEAN ELSE {FALSE})
    /\ kind \in (IF platform = "mac" THEN [Requests -> {"ask"}] ELSE [Requests -> Kinds])   \* there all go the same way
    /\ named \in (IF platform = "mac" THEN [Requests -> BOOLEAN] ELSE {[r \in Requests |-> TRUE]})
    /\ at = [r \in Requests |-> "idle"]
    /\ waits = [r \in Requests |-> MaxSheetWaits]
    /\ sheet = None /\ modals = <<>> /\ ended = [r \in Requests |-> None]
    /\ buffer = None /\ shared = {} /\ answers = [r \in Requests |-> 0]
    /\ told = [r \in Requests |-> None] /\ late = {}

Is(p) == platform = p
Goes(r, where) == at' = [at EXCEPT ![r] = where]
Up(r) == at[r] = "up"
InLoop(r) == \E i \in DOMAIN modals : modals[i] = r

----------------------------------------------------------------------------
(* Answering *)

\* on_main and on_background: posted, and run, unless the manager has shut down.
Post(r) == /\ answers' = IF tasks THEN [answers EXCEPT ![r] = @ + 1] ELSE answers
           /\ UNCHANGED late

\* The browser's `later`: what the manager refuses runs at once.
later(r) == /\ answers' = [answers EXCEPT ![r] = @ + 1]
            /\ late' = IF tasks THEN late ELSE late \cup {r}

Answer(r, text) ==
    /\ IF Is("web") THEN later(r) ELSE Post(r)
    /\ told' = [told EXCEPT ![r] = text]

NoAnswer == UNCHANGED answering

----------------------------------------------------------------------------
(* Asking *)

\* dispatch_to_ui, or without a window to post to a task; dispatch_async; and on iOS a file is saved by a task before
\* anything is shown.
Ask(r) ==
    /\ at[r] = "idle" /\ tasks /\ ~Is("web")
    /\ Goes(r, IF (Is("win") /\ view # "shown") \/ (Is("ios") /\ kind[r] = "save") THEN "background" ELSE "queued")
    /\ UNCHANGED <<asker, main, answering>>

\* The page's alert, confirm and prompt block; a cancelled prompt answers nothing.  A save is the callback itself, and
\* so is a directory.  A picker waits for the page, in `pending`.
AskPage(r) ==
    /\ at[r] = "idle" /\ tasks /\ Is("web")
    /\ \/ kind[r] = "pick" /\ Goes(r, "parked") /\ NoAnswer
       \/ Goes(r, "settled") /\ Answer(r, r)
       \/ kind[r] = "text" /\ Goes(r, "settled") /\ NoAnswer
    /\ UNCHANGED <<asker, main>>

\* tiny_web_dialog_done: the first event of a picker takes its callback out.
DialogDone(r) ==
    /\ at[r] = "parked" /\ Goes(r, "settled") /\ Answer(r, r)
    /\ UNCHANGED <<asker, main>>

----------------------------------------------------------------------------
(* Windows: the dialog is a modal loop, inside which the window gets its other messages, requests among them. *)

\* A text input clears the buffer that all of them share.
Opens(r) ==
    /\ buffer' = IF kind[r] = "text" THEN None ELSE buffer
    /\ LET texts == {q \in Requests : kind[q] = "text" /\ (Up(q) \/ q = r)}
       IN shared' = IF kind[r] = "text" /\ texts # {r} THEN shared \cup texts ELSE shared

\* WM_TINY_RUN_DIALOG; and the task in its stead, on a thread of its own.  Without memory nothing is shown or answered,
\* which is left out.
RunQueuedDialog(r) ==
    /\ Is("win") /\ at[r] \in {"queued", "background"}
    /\ Goes(r, "up") /\ Opens(r)
    /\ modals' = IF at[r] = "queued" THEN Append(modals, r) ELSE modals
    /\ UNCHANGED <<asker, waits, sheet, ended, answering>>

\* dialog_proc: IDOK takes the text over.
EndDialog(r, how) ==
    /\ Is("win") /\ Up(r) /\ ended[r] = None
    /\ ended' = [ended EXCEPT ![r] = how]
    /\ buffer' = IF how = "ok" /\ kind[r] = "text" THEN r ELSE buffer
    /\ UNCHANGED <<asker, at, waits, sheet, modals, shared, answering>>

\* The loop returns once those inside it have.
DialogReturns(r) ==
    /\ Is("win") /\ Up(r) /\ ended[r] # None
    /\ InLoop(r) => modals[Len(modals)] = r
    /\ modals' = IF InLoop(r) THEN Front(modals) ELSE modals
    /\ Goes(r, "settled") /\ Answer(r, IF kind[r] = "text" /\ ended[r] = "ok" THEN buffer ELSE r)
    /\ UNCHANGED <<asker, waits, sheet, ended, buffer, shared>>

----------------------------------------------------------------------------
(* macOS: a sheet on the host's window.  While another is there a request waits, for a notification and then a block. *)

requester_gone(r) == named[r] /\ view # "shown"
host_window == view = "shown" \/ host

\* Mutant: a request waits as long as there is another sheet.
RunBlockEver(r) ==
    /\ Is("mac") /\ at[r] = "queued" /\ modals = <<>>
    /\ LET first == waits[r] = MaxSheetWaits
       IN IF first /\ requester_gone(r)
          THEN Goes(r, "settled") /\ Answer(r, r) /\ UNCHANGED <<sheet, modals>>
          ELSE IF first /\ ~host_window
          THEN Goes(r, "up") /\ modals' = <<r>> /\ NoAnswer /\ UNCHANGED sheet
          ELSE IF sheet = None
          THEN Goes(r, "up") /\ sheet' = (IF sheet = None THEN r ELSE sheet) /\ NoAnswer /\ UNCHANGED modals
          ELSE Goes(r, "waiting") /\ NoAnswer /\ UNCHANGED <<sheet, modals>>
    /\ UNCHANGED <<asker, waits, ended, buffer, shared>>

\* run_alert and run_panel, in a block of the main queue; or the block of a request that has waited.
RunBlock(r) ==
    /\ Is("mac") /\ at[r] = "queued" /\ modals = <<>>
    /\ LET first == waits[r] = MaxSheetWaits
       IN IF first /\ requester_gone(r)
          THEN Goes(r, "settled") /\ Answer(r, r) /\ UNCHANGED <<sheet, modals>>
          ELSE IF first /\ ~host_window
          THEN Goes(r, "up") /\ modals' = <<r>> /\ NoAnswer /\ UNCHANGED sheet
          ELSE IF sheet = None \/ waits[r] = 0
          THEN Goes(r, "up") /\ sheet' = (IF sheet = None THEN r ELSE sheet) /\ NoAnswer /\ UNCHANGED modals
          ELSE Goes(r, "waiting") /\ NoAnswer /\ UNCHANGED <<sheet, modals>>
    /\ UNCHANGED <<asker, waits, ended, buffer, shared>>

\* NSWindowDidEndSheetNotification: each request that waits dispatches a block to try again.
SheetEnds(others) ==
    /\ sheet' = None
    /\ at' = [r \in Requests |-> IF others[r] = "waiting" THEN "queued" ELSE others[r]]
    /\ waits' = [r \in Requests |-> IF others[r] = "waiting" THEN waits[r] - 1 ELSE waits[r]]

\* The user answers; the completion runs with the sheet still up.
Respond(r) ==
    /\ Is("mac") /\ Up(r)
    /\ Answer(r, r)
    /\ IF sheet = r THEN SheetEnds([at EXCEPT ![r] = "settled"]) ELSE Goes(r, "settled") /\ UNCHANGED <<sheet, waits>>
    /\ modals' = IF InLoop(r) THEN Front(modals) ELSE modals
    /\ UNCHANGED <<asker, ended, buffer, shared>>

\* The host's own sheets, a bounce's progress or a save prompt.
HostSheet ==
    /\ Is("mac")
    /\ \/ sheet = None /\ sheet' = "host" /\ UNCHANGED <<at, waits>>
       \/ sheet = "host" /\ SheetEnds(at)
    /\ UNCHANGED <<asker, modals, ended, buffer, shared, answering>>

----------------------------------------------------------------------------
(* iOS: presented by a view controller, or by none at all. *)

\* Written to a scratch file before the user is asked where it goes, which asks nothing more of the caller.
SaveScratch(r) ==
    /\ Is("ios") /\ at[r] = "background" /\ tasks
    /\ Goes(r, "queued") /\ Answer(r, r)
    /\ UNCHANGED <<asker, main>>

top_view_controller == view = "shown" \/ host

Present(r) ==
    /\ Is("ios") /\ at[r] = "queued"
    /\ Goes(r, IF top_view_controller THEN "up" ELSE "settled")
    /\ UNCHANGED <<asker, main, answering>>

Pick(r) ==
    /\ Is("ios") /\ Up(r) /\ Goes(r, "settled")
    /\ IF kind[r] = "save" THEN NoAnswer ELSE Answer(r, r)
    /\ UNCHANGED <<asker, main>>

----------------------------------------------------------------------------

\* The view leaves its window; on Windows the host destroys the window, and its messages with it.
\* ~View discards what is queued at it, and the token names nothing any more.
ViewGoes(to) ==
    /\ view # "gone" /\ to # view
    /\ view' = to
    /\ at' = IF Is("win") THEN [r \in Requests |-> IF at[r] = "queued" THEN "settled" ELSE at[r]] ELSE at
    /\ UNCHANGED <<platform, host, tasks, kind, named, main, answering>>

\* Task_manager::shutdown: what waits for a thread is dropped.
Shutdown ==
    /\ tasks /\ tasks' = FALSE
    /\ at' = [r \in Requests |-> IF at[r] = "background" THEN "settled" ELSE at[r]]
    /\ UNCHANGED <<platform, view, host, kind, named, main, answering>>

Next ==
    \/ \E r \in Requests : \/ Ask(r) \/ AskPage(r) \/ DialogDone(r)
                          \/ RunQueuedDialog(r) \/ DialogReturns(r)
                          \/ RunBlock(r) \/ Respond(r)
                          \/ SaveScratch(r) \/ Present(r) \/ Pick(r)
    \/ \E r \in Requests, how \in {"ok", "cancel"} : EndDialog(r, how)
    \/ HostSheet
    \/ \E to \in {"bare", "gone"} : ViewGoes(to)
    \/ Shutdown

----------------------------------------------------------------------------

Unanswered == {r \in Requests : at[r] = "settled" /\ answers[r] = 0}

\* No callback is called twice, nor, but for a browser's, once the task manager has shut down; and while the view stays
\* in its window a dialog that is over has called it, but for a browser's cancelled prompt.  What waits for a sheet
\* to go waits for one that is there.  A dialog that names its view never stops the host for want of a window.  And a
\* text input answers with its own text, unless another was up with it.
DialogsAnswer ==
    /\ \A r \in Requests : answers[r] <= 1
    /\ Is("web") \/ late = {}
    /\ tasks /\ view = "shown" => \A r \in Unanswered : Is("web") /\ kind[r] = "text"
    /\ \A r \in Requests : at[r] = "waiting" => sheet # None
    /\ Is("mac") => \A r \in Requests : InLoop(r) => ~named[r]
    /\ \A r \in Requests : told[r] \in {r, None} \/ r \in shared

\* "Every one of them fires exactly once, on every path", but "once the context's Task_manager has shut down, a late
\* answer is dropped".
FiresOnce == (tasks => Unanswered = {}) /\ late = {}

=============================================================================
