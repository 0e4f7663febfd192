---------------------------- MODULE WorkerRunner ----------------------------
(* work::Runner: the plug-in's worker, a thread that polls two inboxes from  *)
(* start() to stop().  One owner starts and stops it, as the wrappers do;    *)
(* the processor and the editor post whether it runs or not.                 *)
EXTENDS Naturals

CONSTANTS Capacity,    \* inbound_capacity
          MaxSent      \* messages in all

Senders == {"processor", "editor"}

VARIABLES active,      \* _running
          worker,      \* where the thread is: "none" when there is no thread to join
          owner,       \* "away", or "joining" inside stop()
          inbox,       \* per sender, the messages that wait
          drained,     \* the pass has handled a message
          sent

workerVars == <<active, worker, owner, inbox, drained, sent>>

TypeOK ==
    /\ active \in BOOLEAN /\ drained \in BOOLEAN
    /\ worker \in {"none", "starting", "test", "processor", "editor", "cycle", "sleep", "stopping", "ended"}
    /\ owner \in {"away", "joining"}
    /\ inbox \in [Senders -> 0..Capacity] /\ sent \in 0..MaxSent

Init ==
    /\ active = FALSE /\ worker = "none" /\ owner = "away"
    /\ inbox = [s \in Senders |-> 0] /\ drained = FALSE /\ sent = 0

\* An actor's post; a full inbox refuses, which changes nothing here.
Send(s) ==
    /\ sent < MaxSent /\ inbox[s] < Capacity
    /\ inbox' = [inbox EXCEPT ![s] = @ + 1] /\ sent' = sent + 1
    /\ UNCHANGED <<active, worker, owner, drained>>

\* A start() of a worker that runs does nothing.
Start ==
    /\ owner = "away" /\ ~active
    /\ active' = TRUE /\ worker' = "starting"
    /\ UNCHANGED <<owner, inbox, drained, sent>>

Stop ==
    /\ owner = "away" /\ active
    /\ active' = FALSE /\ owner' = "joining"
    /\ UNCHANGED <<worker, inbox, drained, sent>>

Joined ==
    /\ owner = "joining" /\ worker = "ended"
    /\ owner' = "away" /\ worker' = "none"
    /\ UNCHANGED <<active, inbox, drained, sent>>

Goes(from, to) == worker = from /\ worker' = to

\* on_start, the loop's test, and on_stop.
Boundary ==
    /\ \/ Goes("starting", "test")
       \/ Goes("test", IF active THEN "processor" ELSE "stopping")
       \/ Goes("stopping", "ended")
    /\ drained' = FALSE /\ UNCHANGED <<active, owner, inbox, sent>>

\* while (pop) handle: one message, or on to what comes next.
Drain(s, next) ==
    /\ worker = s /\ UNCHANGED <<active, owner, sent>>
    /\ \/ inbox[s] > 0 /\ inbox' = [inbox EXCEPT ![s] = @ - 1] /\ drained' = TRUE /\ UNCHANGED worker
       \/ inbox[s] = 0 /\ worker' = next /\ UNCHANGED <<inbox, drained>>

\* The post-cycle callback, on_update, and a sleep if the pass found nothing.
Cycle ==
    /\ \/ Goes("cycle", IF drained THEN "test" ELSE "sleep")
       \/ Goes("sleep", "test")
    /\ UNCHANGED <<active, owner, inbox, drained, sent>>

Working == Boundary \/ Drain("processor", "editor") \/ Drain("editor", "cycle") \/ Cycle

Next == \/ \E s \in Senders : Send(s)
        \/ Start \/ Stop \/ Joined \/ Working

Spec == Init /\ [][Next]_workerVars

\* The thread runs on, and a join that can return does.
Progress == Working \/ Joined
Fairness == WF_workerVars(Progress)

\* After stop() has returned the worker is in none of its handlers.
QuietOnceStopped == owner = "away" /\ ~active => worker = "none"

\* What is in an inbox is handled, unless the worker is stopped.
Handled == (\E s \in Senders : inbox[s] > 0) ~> ~active \/ \A s \in Senders : inbox[s] = 0

=============================================================================
