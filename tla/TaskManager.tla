---------------------------- MODULE TaskManager ----------------------------
(* Task_manager: a main lane that the view pumps, a background and a serial  *)
(* lane with a thread each, and a shutdown that any thread may call, a task  *)
(* of the manager's own included.  Tasks are counted, not told apart: what   *)
(* matters is whether one still runs, and whether its captures still live.   *)
EXTENDS Naturals, Sequences, FiniteSets

CONSTANTS
    Scenarios,   \* who may shut down: [callers : SUBSET (Threads \X BOOLEAN), nests : BOOLEAN]
    MaxPosts     \* posts that are accepted

Lanes == {"main", "background", "serial"}
Own == {"background", "serial"}          \* the lanes with a thread of the manager's
Threads == Lanes \cup {"host"}

VARIABLES
    scenario,
    queued,      \* tasks waiting, per lane
    closed, running,
    stack,       \* per thread, the tasks it is inside of: "body", or "dead" when the captures are gone
    call,        \* per thread, where its shutdown() is
    discarded,   \* per thread, the tasks in shutdown()'s local deque
    handle,      \* per lane thread, what the manager's std::thread holds
    exited,      \* the lane threads that have left their loop
    returned,    \* the calls of shutdown() that have returned: who called, and whether from a task
    posts

taskVars == <<scenario, queued, closed, running, stack, call, discarded, handle, exited,
              returned, posts>>

\* The tasks that are being run, one for each thread and depth.
InsideOf(tasks) == {d \in Threads \X (1..2) : d[2] \in DOMAIN tasks[d[1]]}

Calls == {"none", "wait", "discard", "background", "serial"}

TypeOK ==
    /\ queued \in [Lanes -> 0..MaxPosts] /\ closed \in BOOLEAN
    /\ running = Cardinality(InsideOf(stack))
    /\ \A t \in Threads : Len(stack[t]) <= 2 /\ \A i \in DOMAIN stack[t] : stack[t][i] \in {"body", "dead"}
    /\ call \in [Threads -> Calls] /\ discarded \in [Threads -> 0..MaxPosts]
    /\ handle \in [Own -> {"joinable", "joined", "detached"}]
    /\ exited \subseteq Own /\ returned \subseteq Threads \X BOOLEAN /\ posts \in 0..MaxPosts

Init ==
    /\ scenario \in Scenarios
    /\ queued = [l \in Lanes |-> 0] /\ closed = FALSE /\ running = 0
    /\ stack = [t \in Threads |-> <<>>] /\ call = [t \in Threads |-> "none"]
    /\ discarded = [t \in Threads |-> 0]
    /\ handle = [l \in Own |-> "joinable"] /\ exited = {} /\ returned = {} /\ posts = 0

----------------------------------------------------------------------------

Free(t) == call[t] = "none"
Inside(t) == stack[t] # <<>>
Top(t) == stack[t][Len(stack[t])]
InBody(t) == Inside(t) /\ Top(t) = "body"

\* An actor's on_main, on_background or on_serial.  After the close it is refused, which changes nothing.
Post(t, lane) ==
    /\ Free(t) /\ ~closed /\ posts < MaxPosts
    /\ t \in {"host", "main"} \/ InBody(t)
    /\ queued' = [queued EXCEPT ![lane] = @ + 1] /\ posts' = posts + 1
    /\ UNCHANGED <<scenario, closed, running, stack, call, discarded, handle, exited, returned>>

\* The locked half of run_one.  run_main is called by whoever pumps main, a
\* modal loop inside one of its own tasks included.
RunOne(t) ==
    /\ Free(t) /\ ~closed /\ queued[t] > 0
    /\ \/ ~Inside(t)
       \/ t = "main" /\ scenario.nests /\ InBody(t) /\ Len(stack[t]) = 1
    /\ queued' = [queued EXCEPT ![t] = @ - 1]
    /\ running' = running + 1
    /\ stack' = [stack EXCEPT ![t] = Append(@, "body")]
    /\ UNCHANGED <<scenario, closed, call, discarded, handle, exited, returned, posts>>

\* task() returned; task = nullptr.
TaskEnds(t) ==
    /\ Free(t) /\ InBody(t)
    /\ stack' = [stack EXCEPT ![t][Len(stack[t])] = "dead"]
    /\ UNCHANGED <<scenario, queued, closed, running, call, discarded, handle, exited, returned, posts>>

\* Mutant: the count is not brought down.
NeverCountsDown(t) ==
    /\ Inside(t) /\ Top(t) = "dead"
    /\ stack' = [stack EXCEPT ![t] = SubSeq(@, 1, Len(@) - 1)]
    /\ UNCHANGED <<scenario, queued, closed, running, call, discarded, handle, exited, returned, posts>>

CountDown(t) ==
    /\ Inside(t) /\ Top(t) = "dead"
    /\ stack' = [stack EXCEPT ![t] = SubSeq(@, 1, Len(@) - 1)]
    /\ running' = running - 1
    /\ UNCHANGED <<scenario, queued, closed, call, discarded, handle, exited, returned, posts>>

\* A lane thread finds the manager closed and leaves its loop.
LaneExits(l) ==
    /\ closed /\ ~Inside(l) /\ l \notin exited
    /\ exited' = exited \cup {l}
    /\ UNCHANGED <<scenario, queued, closed, running, stack, call, discarded, handle, returned, posts>>

----------------------------------------------------------------------------

\* shutdown(), up to the wait.
Shutdown(t) ==
    /\ Free(t) /\ <<t, Inside(t)>> \in scenario.callers \ returned
    /\ Inside(t) => InBody(t)
    /\ closed' = TRUE
    /\ discarded' = [discarded EXCEPT ![t] = queued["main"] + queued["background"] + queued["serial"]]
    /\ queued' = [l \in Lanes |-> 0]
    /\ call' = [call EXCEPT ![t] = "wait"]
    /\ UNCHANGED <<scenario, running, stack, handle, exited, returned, posts>>

\* Mutant: a task that calls shutdown() waits for itself.
NoSelf(t) == 0

\* idle.wait: a caller inside a task does not wait for itself.
Self(t) == IF Inside(t) THEN 1 ELSE 0

Idle(t) ==
    /\ call[t] = "wait" /\ running = Self(t)
    /\ call' = [call EXCEPT ![t] = "discard"]
    /\ UNCHANGED <<scenario, queued, closed, running, stack, discarded, handle, exited, returned, posts>>

Discard(t) ==
    /\ call[t] = "discard"
    /\ discarded' = [discarded EXCEPT ![t] = 0]
    /\ call' = [call EXCEPT ![t] = "background"]
    /\ UNCHANGED <<scenario, queued, closed, running, stack, handle, exited, returned, posts>>

\* One turn of the loop over the two threads: join, or detach one's own.
Join(t, l) ==
    /\ call[t] = l
    /\ \/ handle[l] # "joinable" /\ UNCHANGED handle
       \/ handle[l] = "joinable" /\ t = l /\ handle' = [handle EXCEPT ![l] = "detached"]
       \/ handle[l] = "joinable" /\ t # l /\ l \in exited /\ handle' = [handle EXCEPT ![l] = "joined"]
    /\ IF l = "background" THEN call' = [call EXCEPT ![t] = "serial"] /\ UNCHANGED returned
       ELSE call' = [call EXCEPT ![t] = "none"] /\ returned' = returned \cup {<<t, Inside(t)>>}
    /\ UNCHANGED <<scenario, queued, closed, running, stack, discarded, exited, posts>>

ShuttingDown(t) == Idle(t) \/ Discard(t) \/ \E l \in Own : Join(t, l)
Ending(t) == TaskEnds(t) \/ CountDown(t)

Next ==
    \/ \E t \in Threads : \/ \E l \in Lanes : Post(t, l)
                          \/ Ending(t) \/ Shutdown(t) \/ ShuttingDown(t)
    \/ \E t \in Lanes : RunOne(t)
    \/ \E l \in Own : LaneExits(l)

Spec == Init /\ [][Next]_taskVars

Progress == \/ \E t \in Threads : Ending(t) \/ ShuttingDown(t)
            \/ \E l \in Own : RunOne(l) \/ LaneExits(l)

\* Tasks return, and threads run on.  Nobody need pump main, or shut down.  No
\* step can be taken for ever, so to be fair to all of them is to be fair to each.
Fairness == WF_taskVars(Progress)

----------------------------------------------------------------------------

\* "After it returns nothing new is accepted, nothing queued runs, and nothing
\* is still running": but for the task that called it, no task is alive, not
\* even as a capture, once shutdown() has returned.
NothingRuns ==
    \A c \in returned :
        /\ closed /\ \A l \in Lanes : queued[l] = 0
        /\ \A u \in Threads \ {c[1]} : ~Inside(u)
        /\ ~c[2] => ~Inside(c[1]) /\ \A u \in Threads : discarded[u] = 0
        /\ \A l \in Own : handle[l] # "joinable"

\* A shutdown() that was called returns (each thread calls once).
ShutdownReturns == (\E t \in Threads : call[t] # "none") ~> (\A t \in Threads : call[t] = "none")

=============================================================================
