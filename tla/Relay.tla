------------------------------- MODULE Relay -------------------------------
(* Relay: a post from the audio thread becomes a call on the main thread,    *)
(* and a stop, from any thread, after which the owner is not called again.   *)
(* On Apple's systems a timer of the relay's own dispatches a block to the   *)
(* main queue.  On Windows all relays share a Main_dispatcher: one window,   *)
(* one pool timer, one message however many relays are due.  In a browser    *)
(* an interval fires on the main thread itself.                              *)
EXTENDS Naturals, Sequences, SequencesExt, FiniteSets

CONSTANTS Relays, Repeats, Platforms, None,
          MaxPosts,    \* posts in all
          MaxTicks     \* repeats of a repeating relay, posted or not

VARIABLES
    platform,
    life,        \* per relay: "new", "live", the steps of _stop, "stopped"
    stopper,     \* per relay, the thread that stops it: "main" or "other"
    within,      \* the relays that were stopped from inside a delivery
    alive, posted,
    firing,      \* Apple: the relays whose timer handler is between its two tests
    mail,        \* main's queue: blocks on Apple, window messages on Windows
    frames,      \* main's deliveries, the innermost last: what is due, and what executes now
    entries, window, windows, timer, messageQueued,   \* Main_dispatcher
    doomed,      \* per relay, the window its remove() took out of the dispatcher
    heeded,      \* history: the relays with no post that a call has not answered
    posts, ticks

relayVars == <<platform, life, stopper, within, alive, posted, firing, mail, frames, entries,
               window, windows, timer, messageQueued, doomed, heeded, posts, ticks>>
dispatcher == <<entries, window, windows, timer, messageQueued, doomed>>

TypeOK ==
    /\ life \in [Relays -> {"new", "live", "waiting", "removing", "closing", "stopped"}]
    /\ alive \subseteq Relays /\ posted \subseteq Relays /\ firing \subseteq Relays
    /\ entries \subseteq Relays /\ (platform # "windows" => entries = {})
    /\ window \in 0..windows /\ timer \in BOOLEAN /\ messageQueued \in BOOLEAN
    /\ \A i \in DOMAIN frames : frames[i].now \in Relays \cup {None}

\* Main_dispatcher is shared: what is live stays registered with a window and a timer.
Registered == platform = "windows" =>
    /\ \A r \in Relays : life[r] = "live" => r \in entries
    /\ entries # {} => window # 0 /\ timer

Init ==
    /\ platform \in Platforms
    /\ life = [r \in Relays |-> "new"] /\ stopper = [r \in Relays |-> None] /\ within = {}
    /\ alive = Relays /\ posted = {} /\ firing = {} /\ mail = <<>> /\ frames = <<>>
    /\ entries = {} /\ window = 0 /\ windows = 0 /\ timer = FALSE /\ messageQueued = FALSE
    /\ doomed = [r \in Relays |-> 0] /\ heeded = Relays /\ posts = 0 /\ ticks = 0

Inner == frames[Len(frames)]
Executing(r) == \E i \in DOMAIN frames : frames[i].now = r
\* Where main's own code runs: outside any delivery, or inside a call of `execute`.
MainIsFree == frames # <<>> => Inner.now # None
Becomes(r, where) == life' = [life EXCEPT ![r] = where]

----------------------------------------------------------------------------
(* The relay's own steps.                                                    *)

\* Mutant: what the earlier window was told still counts.
KeepsQueued == /\ windows' = windows + 1 /\ window' = windows + 1 /\ UNCHANGED messageQueued

\* _create_window: a message queued for an earlier window went with it.
CreateWindow == /\ windows' = windows + 1 /\ window' = windows + 1 /\ messageQueued' = FALSE

\* _start, which Windows wants on main.
Start(r) ==
    /\ life[r] = "new" /\ MainIsFree
    /\ Becomes(r, "live")
    /\ IF platform # "windows" THEN UNCHANGED dispatcher
       ELSE /\ entries' = entries \cup {r} /\ timer' = TRUE
            /\ IF window = 0 THEN CreateWindow ELSE UNCHANGED <<window, windows, messageQueued>>
            /\ UNCHANGED doomed
    /\ UNCHANGED <<platform, stopper, within, alive, posted, firing, mail, frames, heeded, posts, ticks>>

\* post(), one store on the audio thread.
Post(r) ==
    /\ life[r] = "live" /\ posts < MaxPosts
    /\ posted' = posted \cup {r} /\ heeded' = heeded \ {r} /\ posts' = posts + 1
    /\ UNCHANGED <<platform, life, stopper, within, alive, firing, mail, frames, dispatcher, ticks>>

\* _stop, from main or from another thread: first the flag.
Stop(r, thread) ==
    /\ life[r] = "live" /\ (thread = "main" => MainIsFree)
    /\ Becomes(r, "waiting") /\ stopper' = [stopper EXCEPT ![r] = thread]
    /\ alive' = alive \ {r}
    /\ within' = IF thread = "main" /\ frames # <<>> THEN within \cup {r} ELSE within
    /\ UNCHANGED <<platform, posted, firing, mail, frames, dispatcher, heeded, posts, ticks>>

\* Main runs nothing else while it stops a relay.
MainStops == \E r \in Relays : stopper[r] = "main" /\ life[r] \in {"waiting", "removing", "closing"}

\* Mutant: a stop only sets the flag.
NoWait(r) ==
    /\ life[r] = "waiting" /\ Becomes(r, "removing")
    /\ UNCHANGED <<platform, stopper, within, alive, posted, firing, mail, frames, dispatcher, heeded, posts, ticks>>

\* Then the lock, which a delivery holds, and which main may take again.
WaitOut(r) ==
    /\ life[r] = "waiting"
    /\ stopper[r] = "main" \/ ~Executing(r)
    /\ Becomes(r, "removing")
    /\ UNCHANGED <<platform, stopper, within, alive, posted, firing, mail, frames, dispatcher, heeded, posts, ticks>>

\* dispatch_source_cancel, clear_interval, or Main_dispatcher::remove under its lock.
Unregister(r) ==
    /\ life[r] = "removing"
    /\ IF platform # "windows" THEN Becomes(r, "stopped") /\ UNCHANGED dispatcher
       ELSE /\ entries' = entries \ {r}
            /\ IF entries' # {} THEN Becomes(r, "stopped") /\ UNCHANGED <<window, timer, doomed>>
               ELSE /\ Becomes(r, "closing") /\ timer' = FALSE /\ window' = 0
                    /\ doomed' = [doomed EXCEPT ![r] = window]
            /\ UNCHANGED <<windows, messageQueued>>
    /\ UNCHANGED <<platform, stopper, within, alive, posted, firing, mail, frames, heeded, posts, ticks>>

\* A window that is destroyed takes its messages along.
Without(w) == SelectSeq(mail, LAMBDA m : m.to # w)

\* Outside the lock: main destroys the window, another thread asks it to destroy itself.
CloseWindow(r) ==
    /\ life[r] = "closing"
    /\ mail' = IF stopper[r] = "main" THEN Without(doomed[r])
               ELSE Append(mail, [is |-> "destroy", to |-> doomed[r]])
    /\ Becomes(r, "stopped")
    /\ UNCHANGED <<platform, stopper, within, alive, posted, firing, frames, dispatcher, heeded, posts, ticks>>

Stopping(r) == WaitOut(r) \/ Unregister(r) \/ CloseWindow(r)

----------------------------------------------------------------------------
(* The timers.                                                               *)

Ticking(r) == r \in Repeats /\ ticks < MaxTicks
Count(r) == ticks' = IF r \in posted THEN ticks ELSE ticks + 1
MayFire(r) == r \in posted \/ Ticking(r)
Frame(due) == [due |-> due, now |-> None]

\* Apple's timer handler: it tests `alive`, takes the post, and dispatches a block.
HandlerFires(r) ==
    /\ platform = "apple" /\ life[r] # "new" /\ r \in alive \ firing /\ MayFire(r)
    /\ firing' = firing \cup {r}
    /\ UNCHANGED <<platform, life, stopper, within, alive, posted, mail, frames, dispatcher, heeded, posts, ticks>>

HandlerDispatches(r) ==
    /\ r \in firing
    /\ firing' = firing \ {r} /\ posted' = posted \ {r}
    /\ \/ /\ MayFire(r) /\ mail' = Append(mail, [is |-> "block", to |-> r]) /\ Count(r)
       \/ /\ ~MayFire(r) /\ UNCHANGED <<mail, ticks>>
    /\ UNCHANGED <<platform, life, stopper, within, alive, frames, dispatcher, heeded, posts>>

\* A browser's interval fires on main, between its other tasks.
IntervalFires(r) ==
    /\ platform = "web" /\ frames = <<>> /\ ~MainStops
    /\ life[r] # "new" /\ r \in alive /\ MayFire(r)
    /\ posted' = posted \ {r} /\ Count(r)
    /\ frames' = <<Frame(<<r>>)>>
    /\ UNCHANGED <<platform, life, stopper, within, alive, firing, mail, dispatcher, heeded, posts>>

Due == {r \in entries : MayFire(r)}

\* The pool's timer: at most one message, and none without a window.
TimerFires ==
    /\ timer /\ Due # {} /\ window # 0 /\ ~messageQueued
    /\ messageQueued' = TRUE
    /\ mail' = Append(mail, [is |-> "deliver", to |-> window])
    /\ UNCHANGED <<platform, life, stopper, within, alive, posted, firing, frames, entries, window,
                   windows, timer, doomed, heeded, posts, ticks>>

----------------------------------------------------------------------------
(* Main.                                                                     *)

\* A block of the main queue, which does not nest.
RunBlock ==
    /\ mail # <<>> /\ Head(mail).is = "block" /\ frames = <<>> /\ ~MainStops
    /\ mail' = Tail(mail)
    /\ frames' = <<Frame(<<Head(mail).to>>)>>
    /\ UNCHANGED <<platform, life, stopper, within, alive, posted, firing, dispatcher, heeded, posts, ticks>>

\* A window message comes between other things, or in a modal loop inside an
\* `execute`.  _deliver: what is due is collected under the lock.
Deliver ==
    /\ mail # <<>> /\ Head(mail).is = "deliver" /\ Len(frames) < 2 /\ MainIsFree /\ ~MainStops
    /\ mail' = Tail(mail) /\ messageQueued' = FALSE
    /\ frames' = Append(frames, Frame(SetToSeq(Due)))
    /\ posted' = posted \ entries
    /\ ticks' = ticks + Cardinality(Due \ posted)
    /\ UNCHANGED <<platform, life, stopper, within, alive, firing, entries, window, windows, timer, doomed,
                   heeded, posts>>

DestroyMessage ==
    /\ mail # <<>> /\ Head(mail).is = "destroy" /\ Len(frames) < 2 /\ MainIsFree /\ ~MainStops
    /\ mail' = Without(Head(mail).to)
    /\ UNCHANGED <<platform, life, stopper, within, alive, posted, firing, frames, dispatcher, heeded, posts, ticks>>

InnerBecomes(f) == frames' = [frames EXCEPT ![Len(frames)] = f]
Next1 == Head(Inner.due)

\* Under `delivering`, and only what is still alive.
Execute ==
    /\ frames # <<>> /\ Inner.now = None /\ Inner.due # <<>>
    /\ InnerBecomes([due |-> Tail(Inner.due), now |-> IF Next1 \in alive THEN Next1 ELSE None])
    /\ heeded' = IF Next1 \in alive THEN heeded \cup {Next1} ELSE heeded
    /\ UNCHANGED <<platform, life, stopper, within, alive, posted, firing, mail, dispatcher, posts, ticks>>

ExecuteReturns ==
    /\ frames # <<>> /\ ~MainStops
    /\ \/ Inner.now # None /\ InnerBecomes([Inner EXCEPT !.now = None])
       \/ Inner.now = None /\ Inner.due = <<>> /\ frames' = SubSeq(frames, 1, Len(frames) - 1)
    /\ UNCHANGED <<platform, life, stopper, within, alive, posted, firing, mail, dispatcher, heeded, posts, ticks>>

Main == RunBlock \/ Deliver \/ DestroyMessage \/ Execute \/ ExecuteReturns
Timers == TimerFires \/ \E r \in Relays : HandlerFires(r) \/ HandlerDispatches(r) \/ IntervalFires(r)

Next ==
    \/ \E r \in Relays : \/ Start(r) /\ ~MainStops
                         \/ Post(r) \/ Stop(r, "other") \/ Stopping(r)
                         \/ Stop(r, "main") /\ ~MainStops
    \/ Timers \/ Main

Spec == Init /\ [][Next]_relayVars

Progress == Timers \/ Main \/ \E r \in Relays : Stopping(r)

\* Timers tick, main comes round to its queue, and calls return.  Posts and ticks
\* are bounded: fairness to all steps is fairness to each.
Fairness == WF_relayVars(Progress)

----------------------------------------------------------------------------

\* "After this returns nothing reaches the owner": once a stop has returned, no
\* delivery is inside `execute`, unless main stopped the relay from inside one.
StopIsFinal == \A r \in Relays \ within : life[r] = "stopped" => ~Executing(r)

\* A post to a relay that is not stopped comes to a call on main, started after it.
PostsArrive == heeded # Relays ~> \A r \in Relays : life[r] = "live" => r \in heeded

=============================================================================
