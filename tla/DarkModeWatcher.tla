-------------------------- MODULE DarkModeWatcher --------------------------
(* Windows' Dark_mode_watcher, a thread that waits for the theme's registry  *)
(* key to change, between the View's constructor that starts it and the      *)
(* destructor that joins it.                                                 *)
EXTENDS Naturals

CONSTANT MaxChanges    \* bound: how often the theme changes

VARIABLES theme, changes,
          armed,       \* the key has been asked for its changes
          signal,      \* the event, of which the thread has the handle
          hevent,      \* _hevent, as the thread left it
          stop,        \* _stop
          thread,      \* where the thread is
          view,        \* where the View is: its constructor, or its destructor and what that has read of _hevent
          read,        \* the theme its constructor read
          dark,        \* View_delegate's _dark
          raced,       \* the destructor read _hevent before the thread that makes it could see _stop
          early        \* the theme changed before the View was made and the thread had asked for changes

vars == <<theme, changes, armed, signal, hevent, stop, thread, view, read, dark, raced, early>>

TypeOK ==
    /\ theme \in BOOLEAN /\ read \in BOOLEAN /\ dark \in BOOLEAN /\ changes \in 0 .. MaxChanges
    /\ armed \in BOOLEAN /\ signal \in BOOLEAN /\ hevent \in BOOLEAN /\ stop \in BOOLEAN /\ raced \in BOOLEAN /\ early \in BOOLEAN
    /\ thread \in {"none", "starts", "checks", "asks", "waits", "calls", "done"}
    /\ view \in {"reads", "starts", "sets", "open", "loaded", "stored", "wakes", "joins", "gone"}

Init ==
    /\ theme \in BOOLEAN /\ changes = 0 /\ armed = FALSE /\ signal = FALSE /\ hevent = FALSE /\ stop = FALSE
    /\ thread = "none" /\ view = "reads" /\ read = FALSE /\ dark = FALSE /\ raced = FALSE /\ early = FALSE

\* platform::View::View: it reads the theme, starts the watcher, and then sets what it read.
Construct ==
    /\ \/ view = "reads" /\ view' = "starts" /\ read' = theme /\ UNCHANGED <<thread, dark>>
       \/ view = "starts" /\ view' = "sets" /\ thread' = "starts" /\ UNCHANGED <<read, dark>>
       \/ view = "sets" /\ view' = "open" /\ dark' = read /\ UNCHANGED <<read, thread>>
    /\ UNCHANGED <<theme, changes, armed, signal, hevent, stop, raced, early>>

\* ~Dark_mode_watcher.  _hevent is no atomic, and what the processor reads of it may come before _stop is seen set.
Destroy ==
    /\ \/ view = "open" /\ view' = "stored" /\ stop' = TRUE /\ UNCHANGED raced
       \/ view = "stored" /\ view' = (IF hevent THEN "wakes" ELSE "joins") /\ UNCHANGED <<stop, raced>>
       \/ view = "open" /\ ~hevent /\ view' = "loaded" /\ raced' = TRUE /\ UNCHANGED stop
       \/ view = "loaded" /\ view' = "joins" /\ stop' = TRUE /\ UNCHANGED raced
    /\ UNCHANGED <<theme, changes, armed, signal, hevent, thread, read, dark, early>>

\* Mutant: the destructor only stops and joins.
WakeNot ==
    /\ view = "wakes" /\ view' = "joins"
    /\ UNCHANGED <<theme, changes, armed, signal, hevent, stop, thread, read, dark, raced, early>>

\* SetEvent
Wake ==
    /\ view = "wakes" /\ view' = "joins" /\ signal' = TRUE
    /\ UNCHANGED <<theme, changes, armed, hevent, stop, thread, read, dark, raced, early>>

Join ==
    /\ view = "joins" /\ thread = "done" /\ view' = "gone"
    /\ UNCHANGED <<theme, changes, armed, signal, hevent, stop, thread, read, dark, raced, early>>

\* watch_loop.  Opening the key, making the event and asking for changes may each fail.
WatchLoop ==
    /\ \/ thread = "starts" /\ thread' \in {"checks", "done"}
          /\ hevent' = (thread' = "checks") /\ UNCHANGED <<armed, signal, dark>>
       \/ thread = "checks" /\ thread' = (IF stop THEN "done" ELSE "asks")
          /\ hevent' = ~stop /\ UNCHANGED <<armed, signal, dark>>
       \/ thread = "asks" /\ thread' = "waits" /\ armed' = TRUE /\ UNCHANGED <<signal, hevent, dark>>
       \/ thread = "asks" /\ thread' = "done" /\ hevent' = FALSE /\ UNCHANGED <<armed, signal, dark>>
       \/ thread = "waits" /\ signal /\ signal' = FALSE
          /\ thread' = (IF stop THEN "checks" ELSE "calls") /\ UNCHANGED <<armed, hevent, dark>>
       \/ thread = "calls" /\ dark' = theme /\ thread' = "checks" /\ UNCHANGED <<armed, signal, hevent>>
    /\ early' = (early /\ (thread # "calls" \/ view # "open"))
    /\ UNCHANGED <<theme, changes, stop, view, read, raced>>

\* The user's doing.
Change ==
    /\ changes < MaxChanges /\ changes' = changes + 1
    /\ theme' = ~theme /\ signal' = (signal \/ armed)
    /\ early' = (early \/ ~armed \/ view \in {"starts", "sets"})
    /\ UNCHANGED <<armed, hevent, stop, thread, view, read, dark, raced>>

Next == Construct \/ Destroy \/ Wake \/ Join \/ WatchLoop \/ Change

----------------------------------------------------------------------------

Waits == thread = "waits" /\ ~signal

\* "Don't hang": the destructor comes to wait for a thread that waits for ever only if it raced with the event.  And while
\* the thread waits the editor has the theme's colours, unless it last changed while the View was made.
WatcherEnds ==
    /\ view = "joins" /\ Waits => raced
    /\ view = "open" /\ Waits => dark = theme \/ early

=============================================================================
