----------------------------- MODULE MC_Threads -----------------------------
(* What lets work cross threads, and how each is torn down: the log, the     *)
(* task manager, the relay and the worker's runner.  They share nothing, so  *)
(* a behaviour is about one of them.                                         *)
EXTENDS Logger, FiniteSetTheorems, SequenceTheorems, TLAPS

CONSTANTS w1, w2, MaxPosts, r1, r2, Relays, Repeats, Platforms, MaxTicks,
          Scenarios, Capacity, MaxSent

VARIABLES subject,
          scenario, queued, closed, running, stack, call, discarded, handle, exited, returned, posts,
          platform, life, stopper, within, alive, posted, firing, mail, frames, entries, window,
          windows, timer, messageQueued, doomed, heeded, calls, ticks,
          active, worker, owner, inbox, drained, sent

Tasks == INSTANCE TaskManager
Relay == INSTANCE Relay WITH posts <- calls
Runner == INSTANCE WorkerRunner

Who(nests, callers) == [callers |-> callers, nests |-> nests]

\* One call from outside a task, and one from inside.
OneTask == {Who(TRUE, {<<"host", FALSE>>, <<"background", TRUE>>}),
            Who(FALSE, {<<"host", FALSE>>, <<"main", TRUE>>}),
            Who(TRUE, {<<"main", FALSE>>, <<"serial", TRUE>>})}

\* Two tasks, on lanes of their own; and one inside another on main.
TwoTasks == {Who(FALSE, {<<"background", TRUE>>, <<"serial", TRUE>>}),
             Who(TRUE, {<<"main", TRUE>>})}

tasks == <<scenario, queued, closed, running, stack, call, discarded, handle, exited, returned, posts>>
relay == <<platform, life, stopper, within, alive, posted, firing, mail, frames, entries, window,
           windows, timer, messageQueued, doomed, heeded, calls, ticks>>
runner == <<active, worker, owner, inbox, drained, sent>>

Subjects == {"log", "tasks", "relay", "runner"}

MCInit == /\ Init /\ Tasks!Init /\ Relay!Init /\ Runner!Init
          /\ subject \in Subjects
          \* What a behaviour is not about starts in one way.
          /\ subject = "tasks" \/ scenario = CHOOSE s \in Scenarios : TRUE
          /\ subject = "relay" \/ platform = CHOOSE p \in Platforms : TRUE

MCNext == /\ UNCHANGED subject
          /\ \/ subject = "log" /\ Next /\ UNCHANGED <<tasks, relay, runner>>
             \/ subject = "tasks" /\ Tasks!Next /\ UNCHANGED <<vars, relay, runner>>
             \/ subject = "relay" /\ Relay!Next /\ UNCHANGED <<vars, tasks, runner>>
             \/ subject = "runner" /\ Runner!Next /\ UNCHANGED <<vars, tasks, relay>>

allVars == <<subject, vars, tasks, relay, runner>>

\* Each component's own fairness.
MCSpec == /\ MCInit /\ [][MCNext]_allVars
          /\ WF_vars(subject = "log" /\ Draining)
          /\ \A w \in Writers : /\ WF_vars(subject = "log" /\ Pushing(w))
                                /\ SF_vars(subject = "log" /\ PushClaim(w))
          /\ WF_tasks(subject = "tasks" /\ Tasks!Progress)
          /\ WF_relay(subject = "relay" /\ Relay!Progress)
          /\ WF_runner(subject = "runner" /\ Runner!Progress)

\* The type invariants of the four.
AllTyped == TypeOK /\ Tasks!TypeOK /\ Relay!TypeOK /\ Relay!Registered /\ Runner!TypeOK

\* The log hands each record over once and whole, in the order of the claims, up to its last batch;
\* and a flush waits for all of them but the drainer's batch.
LogSound == CellsExclusive /\ InOrder /\ ClosesComplete /\ FlushReaches

AllWho == OneTask \cup TwoTasks

\* shutdown() is "callable from any thread, including from inside a task": it returns, unless two tasks
\* are in it.
ShutdownReturns == scenario \in OneTask => Tasks!ShutdownReturns

\* After a relay's stop no delivery is inside the owner, after the runner's no handler is, and after
\* Task_manager::shutdown() nothing of the manager's runs or is kept.
StopIsFinal == Relay!StopIsFinal /\ Runner!QuietOnceStopped /\ Tasks!NothingRuns

\* What the audio thread posts, through a relay or into the worker's inbox, is answered; and once the threads that log
\* fall silent, what was logged is written, and what was dropped is told.
PostsArrive == Relay!PostsArrive /\ Runner!Handled /\ (subject = "log" => AllTold)

-----------------------------------------------------------------------------
(* Proofs.  WorkerRunner: a thread there is to join, or none.                *)

\* While the worker is active its thread is in the loop; a stop that is not done has one to join.
RunnerInv ==
    /\ Runner!TypeOK
    /\ active => owner = "away" /\ worker \notin {"none", "stopping", "ended"}
    /\ owner = "joining" => worker # "none"
    /\ owner = "away" /\ ~active => worker = "none"

LEMMA RunnerInvariance ==
    ASSUME Capacity \in Nat, MaxSent \in Nat
    PROVE  Runner!Spec => []RunnerInv
<1>1. Runner!Init => RunnerInv
  <2> SUFFICES ASSUME Runner!Init PROVE RunnerInv
    OBVIOUS
  <2>1. 0 \in 0 .. Capacity /\ 0 \in 0 .. MaxSent
    OBVIOUS
  <2> QED BY <2>1, Zenon DEF Runner!Init, RunnerInv, Runner!TypeOK
<1>2. RunnerInv /\ [Runner!Next]_Runner!workerVars => RunnerInv'
  <2> SUFFICES ASSUME RunnerInv, [Runner!Next]_Runner!workerVars PROVE RunnerInv'
    OBVIOUS
  <2> USE DEF RunnerInv, Runner!TypeOK
  <2>1. ASSUME NEW s \in Runner!Senders, Runner!Send(s) PROVE RunnerInv'
    <3>1. inbox' \in [Runner!Senders -> 0 .. Capacity]
      BY <2>1 DEF Runner!Send
    <3> QED BY <2>1, <3>1 DEF Runner!Send
  <2>2. CASE Runner!Start
    BY <2>2 DEF Runner!Start
  <2>3. CASE Runner!Stop
    BY <2>3 DEF Runner!Stop
  <2>4. CASE Runner!Joined
    BY <2>4 DEF Runner!Joined
  <2>5. CASE Runner!Boundary
    BY <2>5 DEF Runner!Boundary, Runner!Goes
  <2>6. ASSUME NEW s \in Runner!Senders, NEW next \in {"editor", "cycle"}, Runner!Drain(s, next) PROVE RunnerInv'
    <3>1. inbox' \in [Runner!Senders -> 0 .. Capacity]
      BY <2>6 DEF Runner!Drain
    <3> QED BY <2>6, <3>1 DEF Runner!Drain, Runner!Senders
  <2>7. CASE Runner!Cycle
    BY <2>7 DEF Runner!Cycle, Runner!Goes
  <2>8. CASE UNCHANGED Runner!workerVars
    BY <2>8 DEF Runner!workerVars
  <2> QED BY <2>1, <2>2, <2>3, <2>4, <2>5, <2>6, <2>7, <2>8 DEF Runner!Next, Runner!Working, Runner!Senders
<1> QED BY <1>1, <1>2, PTL DEF Runner!Spec

-----------------------------------------------------------------------------
(* Proofs.  TaskManager: what is counted is what runs.                       *)

Waiting == queued["main"] + queued["background"] + queued["serial"]

\* Who calls shutdown: of the callers a scenario names, at most one is outside the manager's tasks.
TasksAssumption ==
    /\ MaxPosts \in Nat
    /\ \A s \in Scenarios :
          /\ s.callers \subseteq Tasks!Threads \X BOOLEAN
          /\ \A c, d \in s.callers : ~c[2] /\ ~d[2] => c = d

TasksTyped ==
    /\ scenario \in Scenarios /\ posts \in 0 .. MaxPosts
    /\ queued \in [Tasks!Lanes -> Nat] /\ Waiting <= posts
    /\ closed \in BOOLEAN
    /\ stack \in [Tasks!Threads -> Seq({"body", "dead"})]
    /\ \A t \in Tasks!Threads : Len(stack[t]) <= 2
    /\ running = Cardinality(Tasks!InsideOf(stack))
    /\ call \in [Tasks!Threads -> Tasks!Calls] /\ discarded \in [Tasks!Threads -> 0 .. MaxPosts]
    /\ handle \in [Tasks!Own -> {"joinable", "joined", "detached"}]
    /\ exited \subseteq Tasks!Own /\ returned \subseteq Tasks!Threads \X BOOLEAN

Alone(t) == \A u \in Tasks!Threads \ {t} : ~Tasks!Inside(u)

\* A call of shutdown() closed the manager, is one its scenario names and has not returned; past the wait it is
\* alone.
Calling(t) ==
    /\ call[t] # "none" => /\ closed /\ <<t, Tasks!Inside(t)>> \in scenario.callers \ returned
                           /\ Tasks!Inside(t) => Tasks!InBody(t)
    /\ call[t] \in {"discard", "background", "serial"} => Alone(t)
    /\ discarded[t] # 0 => call[t] \in {"wait", "discard"}
    /\ call[t] = "serial" => handle["background"] # "joinable"

TasksInv ==
    /\ TasksTyped
    /\ closed => \A l \in Tasks!Lanes : queued[l] = 0
    /\ \A t \in Tasks!Threads : Calling(t)
    /\ Tasks!NothingRuns

LEMMA InsideFinite == ASSUME NEW s PROVE IsFiniteSet(Tasks!InsideOf(s))
<1>1. Tasks!Threads = {"main"} \cup {"background"} \cup {"serial"} \cup {"host"}
  BY DEF Tasks!Threads, Tasks!Lanes
<1>2. IsFiniteSet({"main"})
  BY FS_Singleton
<1>3. IsFiniteSet({"main"} \cup {"background"})
  BY <1>2, FS_AddElement, Zenon
<1>4. IsFiniteSet({"main"} \cup {"background"} \cup {"serial"})
  BY <1>3, FS_AddElement, Zenon
<1>5. IsFiniteSet(Tasks!Threads)
  BY <1>1, <1>4, FS_AddElement, Zenon
<1>6. IsFiniteSet(1 .. 2)
  <2>1. 1 \in Int /\ 2 \in Int
    OBVIOUS
  <2> QED BY <2>1, FS_Interval, Zenon
<1>7. IsFiniteSet(Tasks!Threads \X (1 .. 2))
  BY <1>5, <1>6, FS_Product, Zenon
<1>8. Tasks!InsideOf(s) \in SUBSET (Tasks!Threads \X (1 .. 2))
  BY DEF Tasks!InsideOf
<1> QED BY <1>7, <1>8, FS_Subset, Zenon

LEMMA InsideLength ==
    ASSUME TasksTyped, NEW t \in Tasks!Threads
    PROVE  /\ stack[t] \in Seq({"body", "dead"})
           /\ Len(stack[t]) \in 0 .. 2 /\ DOMAIN stack[t] = 1 .. Len(stack[t])
           /\ Tasks!Inside(t) <=> Len(stack[t]) # 0
<1> DEFINE n == Len(stack[t])
<1>1. stack[t] \in Seq({"body", "dead"}) /\ n <= 2
  BY DEF TasksTyped
<1>2. n \in Nat /\ DOMAIN stack[t] = 1 .. n
  BY <1>1, LenProperties
<1>3. Tasks!Inside(t) <=> n # 0
  BY <1>1, EmptySeq DEF Tasks!Inside
<1> HIDE DEF n
<1>4. n \in 0 .. 2
  BY <1>1, <1>2
<1> QED BY <1>1, <1>2, <1>3, <1>4 DEF n

\* The count says who is inside a task.
LEMMA CountSays ==
    ASSUME TasksTyped, NEW t \in Tasks!Threads, running = Tasks!Self(t)
    PROVE  Alone(t)
<1> DEFINE S == Tasks!InsideOf(stack)
<1>1. IsFiniteSet(S) /\ running = Cardinality(S)
  BY InsideFinite DEF TasksTyped
<1>2. ASSUME NEW u \in Tasks!Threads, Tasks!Inside(u) PROVE <<u, 1>> \in S
  BY <1>2, InsideLength DEF Tasks!InsideOf
<1>3. CASE Tasks!Inside(t)
  <2>1. Cardinality(S) = 1
    BY <1>1, <1>3 DEF Tasks!Self
  <2>2. PICK x : S = {x}
    BY <1>1, <2>1, FS_Singleton
  <2>3. x = <<t, 1>>
    BY <1>2, <1>3, <2>2
  <2> QED BY <1>2, <2>2, <2>3 DEF Alone
<1>4. CASE ~Tasks!Inside(t)
  <2>1. S = {}
    BY <1>1, <1>4, FS_EmptySet DEF Tasks!Self
  <2> QED BY <1>2, <2>1 DEF Alone
<1> QED BY <1>3, <1>4

\* What a step does to the stacks: a task more, a task less, or a task that ends.
LEMMA CountUp ==
    ASSUME TasksTyped, NEW t \in Tasks!Threads, Len(stack[t]) < 2,
           stack' = [stack EXCEPT ![t] = Append(stack[t], "body")], running' = running + 1
    PROVE  /\ stack' \in [Tasks!Threads -> Seq({"body", "dead"})]
           /\ \A u \in Tasks!Threads : Len(stack'[u]) <= 2
           /\ running' = Cardinality(Tasks!InsideOf(stack'))
<1> DEFINE s == Append(stack[t], "body")
<1>1. PICK n : n = Len(s) /\ n \in 1 .. 2 /\ n - 1 = Len(stack[t])
  <2>1. PICK m : m = Len(stack[t])
    OBVIOUS
  <2>2. m \in 0 .. 2 /\ m < 2
    BY <2>1, InsideLength
  <2>3. Len(s) = m + 1
    BY <2>1, InsideLength, AppendProperties
  <2> HIDE DEF s
  <2>4. m + 1 \in 1 .. 2 /\ m + 1 - 1 = m
    BY <2>2
  <2> QED BY <2>1, <2>3, <2>4
<1>2. s \in Seq({"body", "dead"})
  BY InsideLength, AppendProperties
<1> HIDE DEF s
<1>3. stack' \in [Tasks!Threads -> Seq({"body", "dead"})] /\ stack'[t] = s
      /\ \A u \in Tasks!Threads \ {t} : stack'[u] = stack[u]
  BY <1>2 DEF TasksTyped, s
<1>4. DOMAIN stack[t] = 1 .. n - 1 /\ DOMAIN stack'[t] = 1 .. n
  BY <1>1, <1>2, <1>3, InsideLength, LenProperties
<1>5. Tasks!InsideOf(stack') = Tasks!InsideOf(stack) \cup {<<t, n>>}
  <2>1. ASSUME NEW d \in Tasks!Threads \X (1 .. 2)
        PROVE  d[2] \in DOMAIN stack'[d[1]] <=> d[2] \in DOMAIN stack[d[1]] \/ d = <<t, n>>
    <3>1. CASE d[1] = t
      <4>1. d[2] \in 1 .. 2
        OBVIOUS
      <4> QED BY <3>1, <4>1, <1>1, <1>4
    <3>2. CASE d[1] # t
      BY <3>2, <1>3
    <3> QED BY <3>1, <3>2
  <2>2. <<t, n>> \in Tasks!Threads \X (1 .. 2)
    BY <1>1
  <2> QED BY <2>1, <2>2, Zenon DEF Tasks!InsideOf
<1>6. <<t, n>> \notin Tasks!InsideOf(stack)
  <2>1. n \notin DOMAIN stack[t]
    BY <1>1, <1>4
  <2> QED BY <2>1 DEF Tasks!InsideOf
<1>7. Cardinality(Tasks!InsideOf(stack')) = Cardinality(Tasks!InsideOf(stack)) + 1
  BY <1>5, <1>6, InsideFinite, FS_AddElement
<1>8. Len(stack'[t]) <= 2
  BY <1>1, <1>3
<1> QED BY <1>3, <1>7, <1>8 DEF TasksTyped

LEMMA CountedDown ==
    ASSUME TasksTyped, NEW t \in Tasks!Threads, Tasks!CountDown(t)
    PROVE  /\ stack' \in [Tasks!Threads -> Seq({"body", "dead"})]
           /\ \A u \in Tasks!Threads : Len(stack'[u]) <= 2
           /\ running' = Cardinality(Tasks!InsideOf(stack'))
           /\ \A u \in Tasks!Threads \ {t} : stack'[u] = stack[u]
<1>1. PICK n : n = Len(stack[t]) /\ n \in 1 .. 2 /\ n \in Nat
  <2>1. PICK m : m = Len(stack[t])
    OBVIOUS
  <2>2. m \in 0 .. 2 /\ m # 0
    BY <2>1, InsideLength DEF Tasks!CountDown
  <2>3. m \in 1 .. 2 /\ m \in Nat
    BY <2>2
  <2> QED BY <2>1, <2>3
<1>a. n \in 1 .. 2 /\ n \in Nat
  BY <1>1
<1>2. DOMAIN stack[t] = 1 .. n /\ stack[t] \in Seq({"body", "dead"})
  BY <1>1, InsideLength
<1>3. SubSeq(stack[t], 1, n - 1) \in Seq({"body", "dead"}) /\ Len(SubSeq(stack[t], 1, n - 1)) = n - 1
  <2>1. n - 1 \in Int /\ 1 \in Int /\ (IF 1 <= n - 1 THEN n - 1 - 1 + 1 ELSE 0) = n - 1
    BY <1>1
  <2>2. \A i \in 1 .. n - 1 : i \in 1 .. n
    BY <1>1
  <2>3. \A i \in 1 .. n - 1 : stack[t][i] \in {"body", "dead"}
    BY <1>1, <1>2, <2>2, ElementOfSeq
  <2> QED BY <2>1, <2>3, SubSeqProperties
<1>4. stack' \in [Tasks!Threads -> Seq({"body", "dead"})] /\ stack'[t] = SubSeq(stack[t], 1, n - 1)
      /\ \A u \in Tasks!Threads \ {t} : stack'[u] = stack[u]
  BY <1>1, <1>3 DEF TasksTyped, Tasks!CountDown
<1>5. DOMAIN stack'[t] = 1 .. n - 1
  BY <1>3, <1>4, LenProperties
<1>6. Tasks!InsideOf(stack') = Tasks!InsideOf(stack) \ {<<t, n>>}
  <2>1. ASSUME NEW d \in Tasks!Threads \X (1 .. 2)
        PROVE  d[2] \in DOMAIN stack'[d[1]] <=> d[2] \in DOMAIN stack[d[1]] /\ d # <<t, n>>
    <3>1. CASE d[1] = t
      <4>1. d[2] \in 1 .. 2
        OBVIOUS
      <4>2. d[2] \in 1 .. n - 1 <=> d[2] \in 1 .. n /\ d[2] # n
        BY <1>1, <4>1
      <4> QED BY <3>1, <4>2, <1>2, <1>5
    <3>2. CASE d[1] # t
      BY <3>2, <1>4
    <3> QED BY <3>1, <3>2
  <2> QED BY <2>1, Zenon DEF Tasks!InsideOf
<1>7. <<t, n>> \in Tasks!InsideOf(stack)
  <2>1. n \in 1 .. n /\ <<t, n>> \in Tasks!Threads \X (1 .. 2)
    BY <1>a
  <2>2. n \in DOMAIN stack[t]
    BY <2>1, <1>2
  <2> QED BY <2>1, <2>2, Zenon DEF Tasks!InsideOf
<1>8. Cardinality(Tasks!InsideOf(stack')) = Cardinality(Tasks!InsideOf(stack)) - 1
  BY <1>6, <1>7, InsideFinite, FS_RemoveElement
<1>9. n - 1 <= 2
  BY <1>a
<1> QED BY <1>3, <1>4, <1>8, <1>9 DEF TasksTyped, Tasks!CountDown

LEMMA EndedStill ==
    ASSUME TasksTyped, NEW t \in Tasks!Threads, Tasks!TaskEnds(t)
    PROVE  /\ stack' \in [Tasks!Threads -> Seq({"body", "dead"})]
           /\ \A u \in Tasks!Threads : Len(stack'[u]) = Len(stack[u])
           /\ running' = Cardinality(Tasks!InsideOf(stack'))
           /\ \A u \in Tasks!Threads \ {t} : stack'[u] = stack[u]
<1>1. PICK n : n = Len(stack[t]) /\ n \in 1 .. n
  <2>1. PICK m : m = Len(stack[t])
    OBVIOUS
  <2>2. m \in 0 .. 2 /\ m # 0
    BY <2>1, InsideLength DEF Tasks!TaskEnds, Tasks!InBody
  <2>3. m \in 1 .. m
    BY <2>2
  <2> QED BY <2>1, <2>3
<1>2. PICK s : s = [stack[t] EXCEPT ![n] = "dead"]
  OBVIOUS
<1>3. s \in Seq({"body", "dead"}) /\ Len(s) = n
  <2>1. "dead" \in {"body", "dead"} /\ n \in 1 .. Len(stack[t])
    BY <1>1
  <2> QED BY <1>1, <1>2, <2>1, InsideLength, ExceptSeq
<1>4. stack' = [stack EXCEPT ![t] = s]
  BY <1>1, <1>2 DEF Tasks!TaskEnds
<1>5. stack' \in [Tasks!Threads -> Seq({"body", "dead"})] /\ stack'[t] = s
      /\ \A u \in Tasks!Threads \ {t} : stack'[u] = stack[u]
  BY <1>3, <1>4 DEF TasksTyped
<1>6. \A u \in Tasks!Threads : DOMAIN stack'[u] = DOMAIN stack[u]
  BY <1>1, <1>3, <1>5, InsideLength, LenProperties
<1>7. Tasks!InsideOf(stack') = Tasks!InsideOf(stack)
  BY <1>6 DEF Tasks!InsideOf
<1> QED BY <1>1, <1>3, <1>5, <1>7 DEF TasksTyped, Tasks!TaskEnds

\* A step that leaves the stacks alone.
LEMMA StacksKept ==
    ASSUME TasksTyped, UNCHANGED <<stack, running>>
    PROVE  /\ stack' \in [Tasks!Threads -> Seq({"body", "dead"})]
           /\ \A t \in Tasks!Threads : Len(stack'[t]) <= 2
           /\ running' = Cardinality(Tasks!InsideOf(stack'))
BY DEF TasksTyped

LEMMA WaitingType ==
    ASSUME TasksTyped
    PROVE  /\ queued["main"] \in Nat /\ queued["background"] \in Nat /\ queued["serial"] \in Nat
           /\ Waiting \in Nat
BY DEF TasksTyped, Waiting, Tasks!Lanes

LEMMA TasksTypedKept ==
    ASSUME TasksAssumption, TasksTyped, [Tasks!Next]_Tasks!taskVars
    PROVE  TasksTyped'
<1>a. Tasks!Lanes = {"main", "background", "serial"} /\ posts \in Nat /\ MaxPosts \in Nat
  BY DEF Tasks!Lanes, TasksTyped, TasksAssumption
<1>1. ASSUME NEW t \in Tasks!Threads, NEW lane \in Tasks!Lanes, Tasks!Post(t, lane) PROVE TasksTyped'
  <2>a. /\ queued \in [Tasks!Lanes -> Nat] /\ queued' = [queued EXCEPT ![lane] = queued[lane] + 1]
        /\ posts' = posts + 1 /\ posts < MaxPosts
    BY <1>1 DEF TasksTyped, Tasks!Post
  <2>b. queued' \in [Tasks!Lanes -> Nat]
    BY <2>a
  <2>c. Waiting' = Waiting + 1
    <3>1. CASE lane = "main"
      BY <3>1, <2>a, <1>a, WaitingType DEF Waiting
    <3>2. CASE lane = "background"
      BY <3>2, <2>a, <1>a, WaitingType DEF Waiting
    <3>3. CASE lane = "serial"
      BY <3>3, <2>a, <1>a, WaitingType DEF Waiting
    <3> QED BY <3>1, <3>2, <3>3, <1>a
  <2>1. queued' \in [Tasks!Lanes -> Nat] /\ Waiting' = Waiting + 1 /\ posts' = posts + 1 /\ posts < MaxPosts
    BY <2>a, <2>b, <2>c
  <2>2. posts' \in 0 .. MaxPosts /\ Waiting' <= posts'
    <3>1. Waiting \in Nat /\ Waiting <= posts
      BY WaitingType DEF TasksTyped
    <3> HIDE DEF Waiting
    <3>2. posts + 1 \in 0 .. MaxPosts /\ Waiting + 1 <= posts + 1
      BY <1>a, <2>1, <3>1
    <3> QED BY <2>1, <3>2
  <2> QED BY <1>1, <2>1, <2>2, StacksKept DEF TasksTyped, Tasks!Post
<1>2. ASSUME NEW t \in Tasks!Lanes, Tasks!RunOne(t) PROVE TasksTyped'
  <2>1. queued' \in [Tasks!Lanes -> Nat] /\ Waiting' = Waiting - 1
    BY <1>2, <1>a, WaitingType DEF TasksTyped, Tasks!RunOne, Waiting
  <2>2. Waiting' <= posts
    BY <2>1, <1>a, WaitingType DEF TasksTyped
  <2>3. t \in Tasks!Threads /\ Len(stack[t]) < 2
    <3>1. t \in Tasks!Threads
      BY DEF Tasks!Threads
    <3>2. ~Tasks!Inside(t) => Len(stack[t]) = 0
      BY <3>1, InsideLength
    <3>3. Len(stack[t]) = 0 \/ Len(stack[t]) = 1
      BY <1>2, <3>2 DEF Tasks!RunOne
    <3>4. 0 < 2 /\ 1 < 2
      OBVIOUS
    <3> QED BY <3>1, <3>3, <3>4, Zenon
  <2> QED BY <1>2, <2>1, <2>2, <2>3, CountUp DEF TasksTyped, Tasks!RunOne
<1>3. ASSUME NEW t \in Tasks!Threads, Tasks!TaskEnds(t) PROVE TasksTyped'
  BY <1>3, EndedStill DEF TasksTyped, Tasks!TaskEnds, Waiting
<1>4. ASSUME NEW t \in Tasks!Threads, Tasks!CountDown(t) PROVE TasksTyped'
  BY <1>4, CountedDown DEF TasksTyped, Tasks!CountDown, Waiting
<1>5. ASSUME NEW t \in Tasks!Threads, Tasks!Shutdown(t) PROVE TasksTyped'
  <2>1. queued' \in [Tasks!Lanes -> Nat] /\ Waiting' = 0
    BY <1>5, <1>a DEF Tasks!Shutdown, Waiting
  <2>2. Waiting \in 0 .. MaxPosts
    BY <1>a, WaitingType DEF TasksTyped
  <2>3. discarded' \in [Tasks!Threads -> 0 .. MaxPosts]
    BY <1>5, <2>2 DEF Tasks!Shutdown, Waiting, TasksTyped
  <2> QED BY <1>5, <1>a, <2>1, <2>3, StacksKept DEF TasksTyped, Tasks!Shutdown, Tasks!Calls
<1>6. ASSUME NEW t \in Tasks!Threads, Tasks!Idle(t) PROVE TasksTyped'
  BY <1>6, StacksKept DEF TasksTyped, Tasks!Idle, Waiting, Tasks!Calls
<1>7. ASSUME NEW t \in Tasks!Threads, Tasks!Discard(t) PROVE TasksTyped'
  <2>1. 0 \in 0 .. MaxPosts
    BY <1>a
  <2> QED BY <1>7, <2>1, StacksKept DEF TasksTyped, Tasks!Discard, Waiting, Tasks!Calls
<1>8. ASSUME NEW t \in Tasks!Threads, NEW l \in Tasks!Own, Tasks!Join(t, l) PROVE TasksTyped'
  <2>1. handle' \in [Tasks!Own -> {"joinable", "joined", "detached"}]
    BY <1>8 DEF TasksTyped, Tasks!Join
  <2>2. call' \in [Tasks!Threads -> Tasks!Calls] /\ returned' \subseteq Tasks!Threads \X BOOLEAN
    <3>1. <<t, Tasks!Inside(t)>> \in Tasks!Threads \X BOOLEAN
      BY Zenon DEF Tasks!Inside
    <3>2. returned' \subseteq returned \cup {<<t, Tasks!Inside(t)>>}
      BY <1>8, Zenon DEF Tasks!Join
    <3>3. call' = [call EXCEPT ![t] = "serial"] \/ call' = [call EXCEPT ![t] = "none"]
      BY <1>8, Zenon DEF Tasks!Join
    <3>4. call' \in [Tasks!Threads -> Tasks!Calls]
      BY <3>3 DEF TasksTyped, Tasks!Calls
    <3> QED BY <3>1, <3>2, <3>4 DEF TasksTyped
  <2> QED BY <1>8, <2>1, <2>2, StacksKept DEF TasksTyped, Tasks!Join, Waiting
<1>9. ASSUME NEW l \in Tasks!Own, Tasks!LaneExits(l) PROVE TasksTyped'
  BY <1>9, StacksKept DEF TasksTyped, Tasks!LaneExits, Waiting
<1>10. CASE UNCHANGED Tasks!taskVars
  BY <1>10 DEF TasksTyped, Tasks!taskVars, Waiting
<1> QED BY <1>1, <1>2, <1>3, <1>4, <1>5, <1>6, <1>7, <1>8, <1>9, <1>10
        DEF Tasks!Next, Tasks!Ending, Tasks!ShuttingDown

\* Who is inside a task after a step: nobody that was not, once the manager is closed.
LEMMA ClosedStacks ==
    ASSUME TasksTyped, closed, [Tasks!Next]_Tasks!taskVars, NEW t \in Tasks!Threads
    PROVE  /\ closed'
           /\ Tasks!Inside(t)' => Tasks!Inside(t)
           /\ call[t] # "none" /\ (Tasks!Inside(t) => Tasks!InBody(t)) => stack'[t] = stack[t]
<1>1. CASE stack' = stack
  <2>1. closed'
    BY DEF Tasks!Next, Tasks!taskVars, Tasks!Post, Tasks!RunOne, Tasks!Ending, Tasks!TaskEnds, Tasks!CountDown,
           Tasks!LaneExits, Tasks!Shutdown, Tasks!ShuttingDown, Tasks!Idle, Tasks!Discard, Tasks!Join
  <2> QED BY <1>1, <2>1 DEF Tasks!Inside
<1>2. ASSUME NEW u \in Tasks!Threads, Tasks!TaskEnds(u)
      PROVE  /\ closed' /\ (Tasks!Inside(t)' => Tasks!Inside(t))
             /\ call[t] # "none" => stack'[t] = stack[t]
  <2>1. call[u] = "none" /\ Tasks!Inside(u) /\ closed'
    BY <1>2 DEF Tasks!TaskEnds, Tasks!Free, Tasks!InBody
  <2> QED BY <1>2, <2>1, EndedStill DEF Tasks!Inside
<1>3. ASSUME NEW u \in Tasks!Threads, Tasks!CountDown(u)
      PROVE  /\ closed' /\ (Tasks!Inside(t)' => Tasks!Inside(t))
             /\ (Tasks!Inside(t) => Tasks!InBody(t)) => stack'[t] = stack[t]
  <2>1. Tasks!Inside(u) /\ ~Tasks!InBody(u) /\ closed'
    BY <1>3 DEF Tasks!CountDown, Tasks!InBody
  <2> QED BY <1>3, <2>1, CountedDown DEF Tasks!Inside
<1>4. \/ stack' = stack
      \/ \E u \in Tasks!Threads : Tasks!TaskEnds(u) \/ Tasks!CountDown(u)
  BY DEF Tasks!Next, Tasks!taskVars, Tasks!Post, Tasks!RunOne, Tasks!Ending, Tasks!LaneExits,
         Tasks!Shutdown, Tasks!ShuttingDown, Tasks!Idle, Tasks!Discard, Tasks!Join
<1> QED BY <1>1, <1>2, <1>3, <1>4

\* Once closed the manager stays empty, and a thread that is joined or detached stays so.
LEMMA EmptyStays ==
    ASSUME TasksTyped, closed => \A l \in Tasks!Lanes : queued[l] = 0, [Tasks!Next]_Tasks!taskVars
    PROVE  /\ closed' => \A l \in Tasks!Lanes : queued'[l] = 0
           /\ \A l \in Tasks!Own : handle[l] # "joinable" => handle'[l] # "joinable"
<1>1. ASSUME NEW t \in Tasks!Threads, Tasks!Shutdown(t)
      PROVE  queued' = [l \in Tasks!Lanes |-> 0] /\ UNCHANGED handle
  BY <1>1 DEF Tasks!Shutdown
<1>2. ASSUME NEW t \in Tasks!Threads, NEW l \in Tasks!Own, Tasks!Join(t, l)
      PROVE  /\ UNCHANGED <<queued, closed>>
             /\ \A k \in Tasks!Own : handle[k] # "joinable" => handle'[k] # "joinable"
  BY <1>2 DEF Tasks!Join, TasksTyped
<1>3. ASSUME NEW t \in Tasks!Threads, Tasks!TaskEnds(t) \/ Tasks!CountDown(t) \/ Tasks!Idle(t) \/ Tasks!Discard(t)
      PROVE  UNCHANGED <<queued, closed, handle>>
  BY <1>3 DEF Tasks!TaskEnds, Tasks!CountDown, Tasks!Idle, Tasks!Discard
<1>4. ASSUME NEW t \in Tasks!Threads, NEW l \in Tasks!Lanes, Tasks!Post(t, l) \/ Tasks!RunOne(l)
      PROVE  ~closed /\ UNCHANGED <<closed, handle>>
  BY <1>4 DEF Tasks!Post, Tasks!RunOne
<1>5. ASSUME NEW l \in Tasks!Own, Tasks!LaneExits(l)
      PROVE  UNCHANGED <<queued, closed, handle>>
  BY <1>5 DEF Tasks!LaneExits
<1>6. "host" \in Tasks!Threads
  BY DEF Tasks!Threads
<1>7. CASE UNCHANGED Tasks!taskVars
  BY <1>7 DEF Tasks!taskVars
<1> QED BY <1>1, <1>2, <1>3, <1>4, <1>5, <1>6, <1>7 DEF Tasks!Next, Tasks!Ending, Tasks!ShuttingDown

\* A thread whose own call stays where it is.
LEMMA CallingKept ==
    ASSUME TasksInv, [Tasks!Next]_Tasks!taskVars, UNCHANGED scenario, NEW t \in Tasks!Threads,
           call'[t] = call[t], discarded'[t] = discarded[t],
           \A b \in BOOLEAN : <<t, b>> \in returned' => <<t, b>> \in returned
    PROVE  Calling(t)'
<1>1. CASE call[t] = "none"
  BY <1>1 DEF TasksInv, Calling
<1>2. CASE call[t] # "none"
  <2>1. closed /\ closed' /\ stack'[t] = stack[t]
    BY <1>2, ClosedStacks DEF TasksInv, Calling
  <2>2. Alone(t) => Alone(t)'
    BY <2>1, ClosedStacks DEF TasksInv, Alone
  <2>3. Tasks!Inside(t)' = Tasks!Inside(t) /\ (Tasks!InBody(t)' <=> Tasks!InBody(t))
    BY <2>1 DEF Tasks!Inside, Tasks!InBody, Tasks!Top
  <2>4. <<t, Tasks!Inside(t)>> \in scenario.callers \ returned
    BY <1>2 DEF TasksInv, Calling
  <2>5. <<t, Tasks!Inside(t)'>> \in scenario'.callers \ returned'
    <3>1. PICK b \in BOOLEAN : b = Tasks!Inside(t)
      BY Zenon DEF Tasks!Inside
    <3> QED BY <2>3, <2>4, <3>1
  <2>6. Tasks!Inside(t) => Tasks!InBody(t)
    BY <1>2 DEF TasksInv, Calling
  <2>7. handle["background"] # "joinable" => handle'["background"] # "joinable"
    BY EmptyStays DEF TasksInv, Tasks!Own
  <2>8. /\ call[t] \in {"discard", "background", "serial"} => Alone(t)
        /\ discarded[t] # 0 => call[t] \in {"wait", "discard"}
        /\ call[t] = "serial" => handle["background"] # "joinable"
    BY DEF TasksInv, Calling
  <2> QED BY <2>1, <2>2, <2>3, <2>5, <2>6, <2>7, <2>8 DEF Calling
<1> QED BY <1>1, <1>2

LEMMA CallingStays ==
    ASSUME TasksInv, [Tasks!Next]_Tasks!taskVars, NEW t \in Tasks!Threads
    PROVE  Calling(t)'
<1>1. ASSUME NEW u \in Tasks!Threads, Tasks!Shutdown(u) PROVE Calling(t)'
  <2>1. CASE u # t
    BY <1>1, <2>1, CallingKept DEF Tasks!Shutdown, TasksInv, TasksTyped
  <2>2. CASE u = t
    <3>1. /\ call'[t] = "wait" /\ closed' /\ stack' = stack /\ scenario' = scenario /\ returned' = returned
          /\ <<t, Tasks!Inside(t)>> \in scenario.callers \ returned /\ (Tasks!Inside(t) => Tasks!InBody(t))
      BY <1>1, <2>2 DEF Tasks!Shutdown, TasksInv, TasksTyped
    <3> QED BY <3>1 DEF Calling, Tasks!Inside, Tasks!InBody, Tasks!Top
  <2> QED BY <2>1, <2>2
<1>2. ASSUME NEW u \in Tasks!Threads, Tasks!Idle(u) PROVE Calling(t)'
  <2>1. CASE u # t
    BY <1>2, <2>1, CallingKept DEF Tasks!Idle, TasksInv, TasksTyped
  <2>2. CASE u = t
    <3>1. /\ call'[t] = "discard" /\ call[t] = "wait" /\ running = Tasks!Self(t)
          /\ UNCHANGED <<closed, stack, scenario, returned>>
      BY <1>2, <2>2 DEF Tasks!Idle, TasksInv, TasksTyped
    <3>2. Alone(t)
      BY <3>1, CountSays DEF TasksInv
    <3> QED BY <3>1, <3>2 DEF TasksInv, Calling, Alone, Tasks!Inside, Tasks!InBody, Tasks!Top
  <2> QED BY <2>1, <2>2
<1>3. ASSUME NEW u \in Tasks!Threads, Tasks!Discard(u) PROVE Calling(t)'
  <2>1. CASE u # t
    BY <1>3, <2>1, CallingKept DEF Tasks!Discard, TasksInv, TasksTyped
  <2>2. CASE u = t
    <3>1. /\ call'[t] = "background" /\ call[t] = "discard" /\ discarded'[t] = 0
          /\ UNCHANGED <<closed, stack, scenario, returned>>
      BY <1>3, <2>2 DEF Tasks!Discard, TasksInv, TasksTyped
    <3> QED BY <3>1 DEF TasksInv, Calling, Alone, Tasks!Inside, Tasks!InBody, Tasks!Top
  <2> QED BY <2>1, <2>2
<1>4. ASSUME NEW u \in Tasks!Threads, NEW l \in Tasks!Own, Tasks!Join(u, l) PROVE Calling(t)'
  <2>0. UNCHANGED <<closed, stack, scenario, discarded>> /\ call[u] = l
    BY <1>4 DEF Tasks!Join
  <2>1. CASE u # t
    <3>1. call'[t] = call[t] /\ returned' \subseteq returned \cup {<<u, Tasks!Inside(u)>>}
      BY <1>4, <2>1 DEF Tasks!Join, TasksInv, TasksTyped
    <3>2. \A b \in BOOLEAN : <<t, b>> \in returned' => <<t, b>> \in returned
      BY <2>1, <3>1
    <3> QED BY <2>0, <3>1, <3>2, CallingKept
  <2>2. CASE u = t /\ l = "background"
    <3>1. call'[t] = "serial" /\ returned' = returned
      BY <1>4, <2>2 DEF Tasks!Join, TasksInv, TasksTyped
    <3>2. handle'["background"] # "joinable"
      BY <1>4, <2>2 DEF Tasks!Join, TasksInv, TasksTyped
    <3> QED BY <2>0, <2>2, <3>1, <3>2 DEF TasksInv, Calling, Alone, Tasks!Inside, Tasks!InBody, Tasks!Top
  <2>3. CASE u = t /\ l = "serial"
    <3>1. call'[t] = "none" /\ discarded[t] = 0
      BY <1>4, <2>0, <2>3 DEF Tasks!Join, TasksInv, TasksTyped, Calling
    <3> QED BY <2>0, <3>1 DEF Calling
  <2> QED BY <2>1, <2>2, <2>3 DEF Tasks!Own
<1>5. CASE UNCHANGED <<scenario, call, discarded, returned>>
  BY <1>5, CallingKept
<1>6. \/ UNCHANGED <<scenario, call, discarded, returned>>
      \/ \E u \in Tasks!Threads : \/ Tasks!Shutdown(u) \/ Tasks!Idle(u) \/ Tasks!Discard(u)
                                  \/ \E l \in Tasks!Own : Tasks!Join(u, l)
  BY DEF Tasks!Next, Tasks!taskVars, Tasks!Post, Tasks!RunOne, Tasks!Ending, Tasks!TaskEnds, Tasks!CountDown,
         Tasks!LaneExits, Tasks!ShuttingDown
<1> QED BY <1>1, <1>2, <1>3, <1>4, <1>5, <1>6

\* What is quiet after a shutdown stays quiet.
LEMMA QuietStays ==
    ASSUME TasksInv, [Tasks!Next]_Tasks!taskVars, NEW c \in returned
    PROVE  /\ closed' /\ \A l \in Tasks!Lanes : queued'[l] = 0
           /\ \A u \in Tasks!Threads \ {c[1]} : ~Tasks!Inside(u)'
           /\ ~c[2] => ~Tasks!Inside(c[1])' /\ \A u \in Tasks!Threads : discarded'[u] = 0
           /\ \A l \in Tasks!Own : handle'[l] # "joinable"
<1>1. /\ closed /\ \A l \in Tasks!Lanes : queued[l] = 0
      /\ \A u \in Tasks!Threads \ {c[1]} : ~Tasks!Inside(u)
      /\ ~c[2] => ~Tasks!Inside(c[1]) /\ \A u \in Tasks!Threads : discarded[u] = 0
      /\ \A l \in Tasks!Own : handle[l] # "joinable"
  BY DEF TasksInv, Tasks!NothingRuns
<1>2. c[1] \in Tasks!Threads
  BY DEF TasksInv, TasksTyped
<1>3. \A u \in Tasks!Threads : Tasks!Inside(u)' => Tasks!Inside(u)
  BY <1>1, ClosedStacks DEF TasksInv
<1>4. /\ closed' /\ \A l \in Tasks!Lanes : queued'[l] = 0
      /\ \A l \in Tasks!Own : handle'[l] # "joinable"
  BY <1>1, <1>2, ClosedStacks, EmptyStays DEF TasksInv
<1>5. ASSUME NEW u \in Tasks!Threads, discarded[u] = 0 PROVE discarded'[u] = 0
  <2>1. ASSUME NEW t \in Tasks!Threads, Tasks!Shutdown(t) PROVE discarded'[u] = 0
    <3>1. queued["main"] + queued["background"] + queued["serial"] = 0
      BY <1>1 DEF Tasks!Lanes
    <3> QED BY <2>1, <3>1, <1>5 DEF Tasks!Shutdown, TasksInv, TasksTyped
  <2>2. ASSUME NEW t \in Tasks!Threads, Tasks!Discard(t) PROVE discarded'[u] = 0
    BY <2>2, <1>5 DEF Tasks!Discard, TasksInv, TasksTyped
  <2>3. \/ UNCHANGED discarded
        \/ \E t \in Tasks!Threads : Tasks!Shutdown(t) \/ Tasks!Discard(t)
    BY DEF Tasks!Next, Tasks!taskVars, Tasks!Post, Tasks!RunOne, Tasks!Ending, Tasks!TaskEnds, Tasks!CountDown,
           Tasks!LaneExits, Tasks!ShuttingDown, Tasks!Idle, Tasks!Join
  <2> QED BY <1>5, <2>1, <2>2, <2>3
<1> QED BY <1>1, <1>2, <1>3, <1>4, <1>5

\* What is quiet when one returns.
LEMMA QuietOnReturn ==
    ASSUME TasksAssumption, TasksInv, NEW t \in Tasks!Threads, Tasks!Join(t, "serial")
    PROVE  /\ closed' /\ \A l \in Tasks!Lanes : queued'[l] = 0
           /\ \A u \in Tasks!Threads \ {t} : ~Tasks!Inside(u)'
           /\ ~Tasks!Inside(t) => ~Tasks!Inside(t)' /\ \A u \in Tasks!Threads : discarded'[u] = 0
           /\ \A l \in Tasks!Own : handle'[l] # "joinable"
<1>1. /\ call[t] = "serial" /\ closed /\ Alone(t) /\ <<t, Tasks!Inside(t)>> \in scenario.callers \ returned
      /\ handle["background"] # "joinable" /\ discarded[t] = 0
  BY DEF TasksInv, Calling, Tasks!Join
<1>2. UNCHANGED <<closed, queued, stack, discarded>>
  BY DEF Tasks!Join
<1>3. ASSUME ~Tasks!Inside(t), NEW u \in Tasks!Threads, discarded[u] # 0 PROVE FALSE
  <2>1. u # t /\ ~Tasks!Inside(u) /\ call[u] # "none"
    BY <1>1, <1>3 DEF Alone, TasksInv, Calling
  <2>2. <<u, Tasks!Inside(u)>> \in scenario.callers
    BY <2>1 DEF TasksInv, Calling
  <2>3. <<u, Tasks!Inside(u)>> = <<t, Tasks!Inside(t)>>
    BY <1>1, <1>3, <2>1, <2>2 DEF TasksAssumption, TasksInv, TasksTyped
  <2> QED BY <2>1, <2>3
<1>4. \A l \in Tasks!Own : handle'[l] # "joinable"
  BY <1>1 DEF Tasks!Join, Tasks!Own, TasksInv, TasksTyped
<1>5. \A l \in Tasks!Lanes : queued[l] = 0
  BY <1>1 DEF TasksInv
<1> QED BY <1>1, <1>2, <1>3, <1>4, <1>5 DEF Alone, Tasks!Inside

LEMMA TasksInvariance ==
    ASSUME TasksAssumption
    PROVE  Tasks!Spec => []TasksInv
<1>1. Tasks!Init => TasksInv
  <2> SUFFICES ASSUME Tasks!Init PROVE TasksInv
    OBVIOUS
  <2>0. 0 \in 0 .. MaxPosts /\ 0 <= 0 /\ 0 <= 2
    BY DEF TasksAssumption
  <2>1. /\ queued = [l \in Tasks!Lanes |-> 0] /\ stack = [t \in Tasks!Threads |-> <<>>]
        /\ discarded = [t \in Tasks!Threads |-> 0] /\ call = [t \in Tasks!Threads |-> "none"]
        /\ returned = {} /\ closed = FALSE /\ running = 0
    BY DEF Tasks!Init
  <2>2. Waiting = 0 /\ queued \in [Tasks!Lanes -> Nat]
    BY <2>1 DEF Waiting, Tasks!Lanes
  <2>3. \A t \in Tasks!Threads : Len(stack[t]) <= 2
    <3>1. Len(<<>>) = 0
      OBVIOUS
    <3> QED BY <2>0, <2>1, <3>1
  <2>4. Tasks!InsideOf(stack) = {}
    <3>1. \A t \in Tasks!Threads : DOMAIN stack[t] = {}
      BY <2>1
    <3> QED BY <3>1 DEF Tasks!InsideOf
  <2>5. running = Cardinality(Tasks!InsideOf(stack))
    BY <2>1, <2>4, FS_EmptySet
  <2>6. stack \in [Tasks!Threads -> Seq({"body", "dead"})]
    BY <2>1
  <2>7. TasksTyped
    BY <2>0, <2>1, <2>2, <2>3, <2>5, <2>6 DEF TasksTyped, Tasks!Init, Tasks!Calls
  <2> QED BY <2>1, <2>7 DEF TasksInv, Calling, Tasks!NothingRuns
<1>2. TasksInv /\ [Tasks!Next]_Tasks!taskVars => TasksInv'
  <2> SUFFICES ASSUME TasksInv, [Tasks!Next]_Tasks!taskVars PROVE TasksInv'
    OBVIOUS
  <2>1. TasksTyped' /\ (closed => \A l \in Tasks!Lanes : queued[l] = 0)' /\ \A t \in Tasks!Threads : Calling(t)'
    BY TasksTypedKept, EmptyStays, CallingStays DEF TasksInv
  <2>2. ASSUME NEW c \in returned'
        PROVE  /\ closed' /\ \A l \in Tasks!Lanes : queued'[l] = 0
               /\ \A u \in Tasks!Threads \ {c[1]} : ~Tasks!Inside(u)'
               /\ ~c[2] => ~Tasks!Inside(c[1])' /\ \A u \in Tasks!Threads : discarded'[u] = 0
               /\ \A l \in Tasks!Own : handle'[l] # "joinable"
    <3>1. CASE c \in returned
      BY <3>1, QuietStays
    <3>2. ASSUME NEW t \in Tasks!Threads, Tasks!Join(t, "serial"), c = <<t, Tasks!Inside(t)>>
          PROVE  /\ closed' /\ \A l \in Tasks!Lanes : queued'[l] = 0
                 /\ \A u \in Tasks!Threads \ {c[1]} : ~Tasks!Inside(u)'
                 /\ ~c[2] => ~Tasks!Inside(c[1])' /\ \A u \in Tasks!Threads : discarded'[u] = 0
                 /\ \A l \in Tasks!Own : handle'[l] # "joinable"
      <4>1. c[1] = t /\ (c[2] <=> Tasks!Inside(t))
        BY <3>2
      <4> QED BY <3>2, <4>1, QuietOnReturn
    <3>3. \/ c \in returned
          \/ \E t \in Tasks!Threads : Tasks!Join(t, "serial") /\ c = <<t, Tasks!Inside(t)>>
      BY DEF Tasks!Next, Tasks!taskVars, Tasks!Post, Tasks!RunOne, Tasks!Ending, Tasks!TaskEnds, Tasks!CountDown,
             Tasks!LaneExits, Tasks!Shutdown, Tasks!ShuttingDown, Tasks!Idle, Tasks!Discard, Tasks!Join, Tasks!Own
    <3> QED BY <3>1, <3>2, <3>3
  <2> QED BY <2>1, <2>2 DEF TasksInv, Tasks!NothingRuns
<1> QED BY <1>1, <1>2, PTL DEF Tasks!Spec

-----------------------------------------------------------------------------
(* Proofs.  Relay: what is stopped is not called.                            *)

\* A delivery that is due, or executes one of the relays.
FramesOver(D) == [due : D, now : Relays \cup {None}]

\* Main's deliveries are a sequence, whatever lists of what is due they hold.
Framed == \E D : frames \in Seq(FramesOver(D))

RelayTyped ==
    /\ life \in [Relays -> {"new", "live", "waiting", "removing", "closing", "stopped"}]
    /\ DOMAIN stopper = Relays
    /\ alive \subseteq Relays /\ posted \subseteq Relays /\ firing \subseteq Relays
    /\ entries \subseteq Relays /\ (platform # "windows" => entries = {})
    /\ windows \in Nat /\ window \in 0 .. windows /\ timer \in BOOLEAN /\ messageQueued \in BOOLEAN
    /\ Framed

\* Past the lock of its stop, or stopped by main itself, a relay is not being called unless main
\* was inside a delivery when it stopped it.
PastTheLock(r) == life[r] \in {"removing", "closing", "stopped"} \/ (life[r] = "waiting" /\ stopper[r] = "main")

RelayInv ==
    /\ RelayTyped /\ Relay!Registered
    /\ \A r \in Relays : r \in alive <=> life[r] \in {"new", "live"}
    /\ \A r \in Relays \ within : PastTheLock(r) => ~Relay!Executing(r)

LEMMA WiderFrames ==
    ASSUME NEW D, NEW d, NEW s \in Seq(FramesOver(D))
    PROVE  s \in Seq(FramesOver(D \cup {d}))
<1>1. FramesOver(D) \subseteq FramesOver(D \cup {d})
  BY DEF FramesOver
<1> QED BY <1>1, SeqMonotonic

\* What a new delivery executes: nothing yet.
LEMMA NewDelivery ==
    ASSUME Framed, NEW d, frames' = Append(frames, Relay!Frame(d)) \/ frames' = <<Relay!Frame(d)>>
    PROVE  /\ Framed'
           /\ \A i \in DOMAIN frames' : frames'[i].now = None \/ (i \in DOMAIN frames /\ frames'[i] = frames[i])
<1>1. PICK D : frames \in Seq(FramesOver(D))
  BY DEF Framed
<1> DEFINE S == FramesOver(D \cup {d})
<1>2. frames \in Seq(S) /\ Relay!Frame(d) \in S /\ Relay!Frame(d).now = None
  BY <1>1, WiderFrames DEF FramesOver, Relay!Frame
<1> HIDE DEF S
<1>3. CASE frames' = Append(frames, Relay!Frame(d))
  <2>1. PICK n : n = Len(frames)
    OBVIOUS
  <2>2. n \in Nat /\ DOMAIN frames = 1 .. n
    BY <1>2, <2>1, LenProperties
  <2>3. /\ frames' \in Seq(S) /\ Len(frames') = n + 1
        /\ \A i \in 1 .. n : frames'[i] = frames[i]
        /\ frames'[n + 1] = Relay!Frame(d)
    BY <1>2, <1>3, <2>1, AppendProperties
  <2>4. DOMAIN frames' = 1 .. n + 1
    BY <2>3, LenProperties
  <2>5. \A i \in 1 .. n + 1 : i = n + 1 \/ i \in 1 .. n
    BY <2>2
  <2> QED BY <1>2, <2>2, <2>3, <2>4, <2>5 DEF Framed, S
<1>4. CASE frames' = <<Relay!Frame(d)>>
  <2>1. <<Relay!Frame(d)>> \in Seq(S)
    BY <1>2
  <2>2. DOMAIN <<Relay!Frame(d)>> = {1} /\ <<Relay!Frame(d)>>[1] = Relay!Frame(d)
    OBVIOUS
  <2> QED BY <1>2, <1>4, <2>1, <2>2 DEF Framed, S
<1> QED BY <1>3, <1>4

\* The innermost delivery takes a step.
LEMMA InnerStep ==
    ASSUME Framed, frames # <<>>, NEW f, frames' = [frames EXCEPT ![Len(frames)] = f],
           NEW d, NEW n \in Relays \cup {None}, f = [due |-> d, now |-> n]
    PROVE  /\ Framed'
           /\ \A i \in DOMAIN frames' : frames'[i].now = n \/ (i \in DOMAIN frames /\ frames'[i] = frames[i])
<1>1. PICK D : frames \in Seq(FramesOver(D))
  BY DEF Framed
<1> DEFINE S == FramesOver(D \cup {d})
<1>2. frames \in Seq(S) /\ f \in S /\ f.now = n
  BY <1>1, WiderFrames DEF FramesOver
<1> HIDE DEF S
<1>3. PICK k : k = Len(frames)
  OBVIOUS
<1>4. k \in Nat /\ k # 0 /\ DOMAIN frames = 1 .. k
  BY <1>2, <1>3, LenProperties, EmptySeq
<1>5. k \in 1 .. k
  BY <1>4
<1>6. /\ frames' \in Seq(S) /\ Len(frames') = k
      /\ \A j \in 1 .. k : frames'[j] = IF j = k THEN f ELSE frames[j]
  <2>1. frames' = [frames EXCEPT ![k] = f] /\ k \in 1 .. Len(frames)
    BY <1>3, <1>5
  <2> QED BY <1>2, <1>3, <2>1, ExceptSeq
<1>7. DOMAIN frames' = 1 .. k
  BY <1>6, LenProperties
<1> QED BY <1>2, <1>4, <1>6, <1>7 DEF Framed, S

LEMMA InnerType ==
    ASSUME Framed, frames # <<>>
    PROVE  \E d, n : n \in Relays \cup {None} /\ Relay!Inner = [due |-> d, now |-> n]
<1>1. PICK D : frames \in Seq(FramesOver(D))
  BY DEF Framed
<1>2. PICK k : k = Len(frames)
  OBVIOUS
<1>3. k \in Nat /\ k # 0
  BY <1>1, <1>2, LenProperties, EmptySeq
<1>4. k \in 1 .. k
  BY <1>3
<1>5. Relay!Inner \in FramesOver(D)
  BY <1>1, <1>2, <1>4, ElementOfSeq DEF Relay!Inner
<1> QED BY <1>5 DEF FramesOver

\* The innermost delivery is over.
LEMMA LastDelivery ==
    ASSUME Framed, frames # <<>>, frames' = SubSeq(frames, 1, Len(frames) - 1)
    PROVE  /\ Framed'
           /\ \A i \in DOMAIN frames' : i \in DOMAIN frames /\ frames'[i] = frames[i]
<1>1. PICK D : frames \in Seq(FramesOver(D))
  BY DEF Framed
<1>2. PICK k : k = Len(frames)
  OBVIOUS
<1>3. k \in Nat /\ k # 0 /\ DOMAIN frames = 1 .. k
  BY <1>1, <1>2, LenProperties, EmptySeq
<1>4. /\ 1 \in Int /\ k - 1 \in Int /\ k - 1 - 1 + 1 = k - 1 /\ (IF 1 <= k - 1 THEN k - 1 - 1 + 1 ELSE 0) = k - 1
      /\ \A i \in 1 .. k - 1 : i \in 1 .. k /\ 1 + i - 1 = i
  BY <1>3
<1>5. \A i \in 1 .. k - 1 : frames[i] \in FramesOver(D)
  BY <1>1, <1>2, <1>4, ElementOfSeq
<1>6. frames' = SubSeq(frames, 1, k - 1)
  BY <1>2
<1>7. /\ frames' \in Seq(FramesOver(D)) /\ Len(frames') = k - 1
      /\ \A i \in 1 .. k - 1 : frames'[i] = frames[i]
  BY <1>4, <1>5, <1>6, SubSeqProperties
<1>8. DOMAIN frames' = 1 .. k - 1
  BY <1>7, LenProperties
<1> QED BY <1>3, <1>4, <1>7, <1>8 DEF Framed

\* A relay that is executed and was not before is alive.
LEMMA FramesStep ==
    ASSUME None \notin Relays, RelayTyped, [Relay!Next]_Relay!relayVars
    PROVE  /\ Framed'
           /\ \A r \in Relays : Relay!Executing(r)' => Relay!Executing(r) \/ r \in alive
<1>0. Framed
  BY DEF RelayTyped
<1>a. ASSUME Framed',
             \A i \in DOMAIN frames' : \/ frames'[i].now = None \/ frames'[i].now \in alive
                                       \/ i \in DOMAIN frames /\ frames'[i] = frames[i]
      PROVE  /\ Framed'
             /\ \A r \in Relays : Relay!Executing(r)' => Relay!Executing(r) \/ r \in alive
  BY <1>a DEF Relay!Executing
<1>1. ASSUME NEW r \in Relays, Relay!IntervalFires(r)
      PROVE  \E d : frames' = <<Relay!Frame(d)>>
  BY <1>1 DEF Relay!IntervalFires
<1>2. CASE \E d : frames' = Append(frames, Relay!Frame(d)) \/ frames' = <<Relay!Frame(d)>>
  BY <1>0, <1>2, <1>a, NewDelivery
<1>3. CASE Relay!Execute
  <2>1. PICK n : n = IF Relay!Next1 \in alive THEN Relay!Next1 ELSE None
    OBVIOUS
  <2>2. n \in Relays \cup {None} /\ (n = None \/ n \in alive)
    BY <2>1 DEF RelayTyped
  <2>3. PICK d : d = Tail(Relay!Inner.due)
    OBVIOUS
  <2>4. PICK f : f = [due |-> d, now |-> n]
    OBVIOUS
  <2>5. frames' = [frames EXCEPT ![Len(frames)] = f] /\ frames # <<>>
    BY <1>3, <2>1, <2>3, <2>4 DEF Relay!Execute, Relay!InnerBecomes
  <2>6. /\ Framed'
        /\ \A i \in DOMAIN frames' : frames'[i].now = n \/ (i \in DOMAIN frames /\ frames'[i] = frames[i])
    BY <1>0, <2>2, <2>4, <2>5, InnerStep
  <2> QED BY <2>2, <2>6, <1>a
<1>4. CASE Relay!ExecuteReturns
  <2>1. CASE Relay!InnerBecomes([Relay!Inner EXCEPT !.now = None])
    <3>1. frames # <<>>
      BY <1>4 DEF Relay!ExecuteReturns
    <3>2. PICK d, n : n \in Relays \cup {None} /\ Relay!Inner = [due |-> d, now |-> n]
      BY <1>0, <3>1, InnerType
    <3>3. PICK f : f = [due |-> d, now |-> None]
      OBVIOUS
    <3>4. frames' = [frames EXCEPT ![Len(frames)] = f]
      <4>1. PICK g : g = Relay!Inner
        OBVIOUS
      <4>2. g = [due |-> d, now |-> n] /\ frames' = [frames EXCEPT ![Len(frames)] = [g EXCEPT !.now = None]]
        BY <2>1, <3>2, <4>1 DEF Relay!InnerBecomes
      <4>3. [g EXCEPT !.now = None] = f
        BY <3>3, <4>2
      <4> QED BY <4>2, <4>3
    <3>5. /\ Framed'
          /\ \A i \in DOMAIN frames' : frames'[i].now = None \/ (i \in DOMAIN frames /\ frames'[i] = frames[i])
      BY <1>0, <3>1, <3>3, <3>4, InnerStep
    <3> QED BY <3>5, <1>a
  <2>2. CASE frames' = SubSeq(frames, 1, Len(frames) - 1)
    <3>1. frames # <<>>
      BY <1>4 DEF Relay!ExecuteReturns
    <3> QED BY <1>0, <2>2, <3>1, <1>a, LastDelivery
  <2> QED BY <1>4, <2>1, <2>2 DEF Relay!ExecuteReturns
<1>5. CASE frames' = frames
  BY <1>0, <1>5, <1>a DEF Framed
<1>6. CASE Relay!RunBlock \/ Relay!Deliver
  BY <1>2, <1>6 DEF Relay!RunBlock, Relay!Deliver
<1>7. \/ frames' = frames \/ Relay!RunBlock \/ Relay!Deliver \/ Relay!Execute \/ Relay!ExecuteReturns
      \/ \E r \in Relays : Relay!IntervalFires(r)
  BY DEF Relay!Next, Relay!relayVars, Relay!Start, Relay!Post, Relay!Stop, Relay!Stopping, Relay!WaitOut,
         Relay!Unregister, Relay!CloseWindow, Relay!Timers, Relay!TimerFires, Relay!HandlerFires,
         Relay!HandlerDispatches, Relay!Main, Relay!DestroyMessage
<1> QED BY <1>1, <1>2, <1>3, <1>4, <1>5, <1>6, <1>7

\* The dispatcher of Windows: what is live is registered, and what is registered has a window.
LEMMA RelayTypedKept ==
    ASSUME None \notin Relays, RelayTyped, Relay!Registered, [Relay!Next]_Relay!relayVars
    PROVE  RelayTyped' /\ Relay!Registered'
<1>0. Framed'
  BY FramesStep
<1> USE DEF RelayTyped, Relay!Registered, Relay!dispatcher
<1>1. ASSUME NEW r \in Relays, Relay!Start(r) PROVE RelayTyped' /\ Relay!Registered'
  <2>1. CASE platform # "windows"
    BY <1>0, <1>1, <2>1 DEF Relay!Start, Relay!Becomes
  <2>2. CASE platform = "windows" /\ window = 0
    <3>1. windows' = windows + 1 /\ window' = windows + 1 /\ messageQueued' = FALSE
      BY <1>1, <2>2 DEF Relay!Start, Relay!CreateWindow
    <3>2. windows' \in Nat /\ window' \in 0 .. windows' /\ window' # 0
      BY <3>1
    <3> QED BY <1>0, <1>1, <2>2, <3>1, <3>2 DEF Relay!Start, Relay!Becomes
  <2>3. CASE platform = "windows" /\ window # 0
    BY <1>0, <1>1, <2>3 DEF Relay!Start, Relay!Becomes
  <2> QED BY <2>1, <2>2, <2>3
<1>2. ASSUME NEW r \in Relays, Relay!Post(r) PROVE RelayTyped' /\ Relay!Registered'
  BY <1>0, <1>2 DEF Relay!Post
<1>3. ASSUME NEW r \in Relays, NEW thread \in {"main", "other"}, Relay!Stop(r, thread)
      PROVE  RelayTyped' /\ Relay!Registered'
  BY <1>0, <1>3 DEF Relay!Stop, Relay!Becomes
<1>4. ASSUME NEW r \in Relays, Relay!WaitOut(r) PROVE RelayTyped' /\ Relay!Registered'
  BY <1>0, <1>4 DEF Relay!WaitOut, Relay!Becomes
<1>5. ASSUME NEW r \in Relays, Relay!Unregister(r) PROVE RelayTyped' /\ Relay!Registered'
  <2>1. CASE platform # "windows"
    BY <1>0, <1>5, <2>1 DEF Relay!Unregister, Relay!Becomes
  <2>2. CASE platform = "windows" /\ entries \ {r} # {}
    BY <1>0, <1>5, <2>2 DEF Relay!Unregister, Relay!Becomes
  <2>3. CASE platform = "windows" /\ entries \ {r} = {}
    <3>1. 0 \in 0 .. windows
      OBVIOUS
    <3>2. \A u \in Relays : life'[u] # "live"
      BY <1>5, <2>3 DEF Relay!Unregister, Relay!Becomes
    <3> QED BY <1>0, <1>5, <2>3, <3>1, <3>2 DEF Relay!Unregister, Relay!Becomes
  <2> QED BY <2>1, <2>2, <2>3
<1>6. ASSUME NEW r \in Relays, Relay!CloseWindow(r) PROVE RelayTyped' /\ Relay!Registered'
  BY <1>0, <1>6 DEF Relay!CloseWindow, Relay!Becomes
<1>7. ASSUME NEW r \in Relays, Relay!HandlerFires(r) \/ Relay!HandlerDispatches(r) \/ Relay!IntervalFires(r)
      PROVE  RelayTyped' /\ Relay!Registered'
  BY <1>0, <1>7 DEF Relay!HandlerFires, Relay!HandlerDispatches, Relay!IntervalFires
<1>8. CASE Relay!TimerFires
  BY <1>0, <1>8 DEF Relay!TimerFires
<1>9. CASE Relay!Main
  BY <1>0, <1>9 DEF Relay!Main, Relay!RunBlock, Relay!Deliver, Relay!DestroyMessage, Relay!Execute, Relay!ExecuteReturns
<1>10. CASE UNCHANGED Relay!relayVars
  BY <1>0, <1>10 DEF Relay!relayVars
<1> QED BY <1>1, <1>2, <1>3, <1>4, <1>5, <1>6, <1>7, <1>8, <1>9, <1>10
        DEF Relay!Next, Relay!Stopping, Relay!Timers

LEMMA LivesKept ==
    ASSUME None \notin Relays, RelayInv, [Relay!Next]_Relay!relayVars
    PROVE  /\ (\A r \in Relays : r \in alive <=> life[r] \in {"new", "live"})'
           /\ \A r \in Relays \ within' : PastTheLock(r)' => ~Relay!Executing(r)'
<1>0. /\ \A r \in Relays : r \in alive <=> life[r] \in {"new", "live"}
      /\ \A r \in Relays \ within : PastTheLock(r) => ~Relay!Executing(r)
      /\ \A r \in Relays : Relay!Executing(r)' => Relay!Executing(r) \/ r \in alive
      /\ DOMAIN life = Relays /\ DOMAIN stopper = Relays
  BY FramesStep DEF RelayInv, RelayTyped
<1>a. CASE UNCHANGED <<life, stopper, alive, within>>
  BY <1>0, <1>a DEF PastTheLock
<1>1. ASSUME NEW r \in Relays, Relay!Start(r)
      PROVE  /\ (\A u \in Relays : u \in alive <=> life[u] \in {"new", "live"})'
             /\ \A u \in Relays \ within' : PastTheLock(u)' => ~Relay!Executing(u)'
  BY <1>0, <1>1 DEF Relay!Start, Relay!Becomes, PastTheLock
<1>2. ASSUME NEW r \in Relays, NEW thread \in {"main", "other"}, Relay!Stop(r, thread)
      PROVE  /\ (\A u \in Relays : u \in alive <=> life[u] \in {"new", "live"})'
             /\ \A u \in Relays \ within' : PastTheLock(u)' => ~Relay!Executing(u)'
  <2>1. /\ life' = [life EXCEPT ![r] = "waiting"] /\ stopper' = [stopper EXCEPT ![r] = thread]
        /\ alive' = alive \ {r} /\ frames' = frames
    BY <1>2 DEF Relay!Stop, Relay!Becomes
  <2>2. thread = "main" => frames = <<>> \/ r \in within'
    BY <1>2 DEF Relay!Stop
  <2>3. within \subseteq within'
    BY <1>2 DEF Relay!Stop
  <2>4. frames = <<>> => ~Relay!Executing(r)'
    BY <2>1 DEF Relay!Executing
  <2>5. PastTheLock(r)' => thread = "main"
    BY <1>0, <2>1 DEF PastTheLock
  <2>6. ASSUME NEW u \in Relays \ {r} PROVE PastTheLock(u)' = PastTheLock(u) /\ life'[u] = life[u]
    BY <1>0, <2>1 DEF PastTheLock
  <2>7. life'[r] = "waiting"
    BY <1>0, <2>1
  <2>8. \A u \in Relays : u \in alive' <=> life'[u] \in {"new", "live"}
    BY <1>0, <2>1, <2>6, <2>7
  <2>9. ASSUME NEW u \in Relays \ within', PastTheLock(u)' PROVE ~Relay!Executing(u)'
    <3>1. CASE u = r
      BY <2>2, <2>4, <2>5, <2>9, <3>1
    <3>2. CASE u # r
      BY <1>0, <2>1, <2>3, <2>6, <2>9, <3>2 DEF Relay!Executing
    <3> QED BY <3>1, <3>2
  <2> QED BY <2>8, <2>9
<1>3. ASSUME NEW r \in Relays, Relay!WaitOut(r)
      PROVE  /\ (\A u \in Relays : u \in alive <=> life[u] \in {"new", "live"})'
             /\ \A u \in Relays \ within' : PastTheLock(u)' => ~Relay!Executing(u)'
  <2>1. /\ life' = [life EXCEPT ![r] = "removing"] /\ UNCHANGED <<stopper, alive, within, frames>>
        /\ life[r] = "waiting" /\ (stopper[r] = "main" \/ ~Relay!Executing(r))
    BY <1>3 DEF Relay!WaitOut, Relay!Becomes
  <2>2. \A u \in Relays : Relay!Executing(u)' = Relay!Executing(u)
    BY <2>1 DEF Relay!Executing
  <2> QED BY <1>0, <2>1, <2>2 DEF PastTheLock
<1>4. ASSUME NEW r \in Relays, Relay!Unregister(r) \/ Relay!CloseWindow(r)
      PROVE  /\ (\A u \in Relays : u \in alive <=> life[u] \in {"new", "live"})'
             /\ \A u \in Relays \ within' : PastTheLock(u)' => ~Relay!Executing(u)'
  <2>1. /\ life[r] \in {"removing", "closing"} /\ UNCHANGED <<stopper, alive, within>>
        /\ \/ life' = [life EXCEPT ![r] = "closing"]
           \/ life' = [life EXCEPT ![r] = "stopped"]
    BY <1>4 DEF Relay!Unregister, Relay!CloseWindow, Relay!Becomes
  <2> QED BY <1>0, <2>1 DEF PastTheLock
<1>5. \/ UNCHANGED <<life, stopper, alive, within>>
      \/ \E r \in Relays : \/ Relay!Start(r) \/ Relay!WaitOut(r) \/ Relay!Unregister(r) \/ Relay!CloseWindow(r)
                           \/ \E thread \in {"main", "other"} : Relay!Stop(r, thread)
  BY DEF Relay!Next, Relay!relayVars, Relay!Post, Relay!Stopping, Relay!Timers, Relay!TimerFires,
         Relay!HandlerFires, Relay!HandlerDispatches, Relay!IntervalFires, Relay!Main, Relay!RunBlock, Relay!Deliver,
         Relay!DestroyMessage, Relay!Execute, Relay!ExecuteReturns
<1> QED BY <1>a, <1>1, <1>2, <1>3, <1>4, <1>5

LEMMA RelayInvariance ==
    ASSUME None \notin Relays
    PROVE  Relay!Spec => []RelayInv
<1>1. Relay!Init => RelayInv
  <2> SUFFICES ASSUME Relay!Init PROVE RelayInv
    OBVIOUS
  <2>1. 0 \in 0 .. 0 /\ 0 \in Nat
    OBVIOUS
  <2>2. Framed
    BY DEF Relay!Init, Framed
  <2> QED BY <2>1, <2>2 DEF Relay!Init, RelayInv, RelayTyped, Relay!Registered, PastTheLock
<1>2. RelayInv /\ [Relay!Next]_Relay!relayVars => RelayInv'
  BY RelayTypedKept, LivesKept DEF RelayInv
<1> QED BY <1>1, <1>2, PTL DEF Relay!Spec

-----------------------------------------------------------------------------
(* Proofs.  Logger: which position a cell is at, and who has it.             *)

\* A power of two, and not one: one cell that is full would look like the next one free.
LogAssumption ==
    /\ Slots \in Nat /\ Slots >= 2 /\ Burst \in Nat \ {0}
    /\ Drainer \notin Writers /\ Flusher \notin Writers

LEMMA CellDivides ==
    ASSUME LogAssumption, NEW p \in Nat
    PROVE  /\ p = Slots * (p \div Slots) + Cell(p)
           /\ (p \div Slots) \in Nat /\ Cell(p) \in 0 .. Slots - 1
BY DEF LogAssumption, Cell

LEMMA CellApart ==
    ASSUME LogAssumption, NEW p \in Nat, NEW q \in Nat, p < q, q < p + Slots
    PROVE  Cell(p) # Cell(q)
<1> SUFFICES ASSUME Cell(p) = Cell(q) PROVE FALSE
  OBVIOUS
<1>0. Slots \in Nat /\ Slots >= 2
  BY DEF LogAssumption
<1>1. PICK a \in Nat, r \in 0 .. Slots - 1 : p = Slots * a + r /\ r = Cell(p)
  BY CellDivides
<1>2. PICK b \in Nat : q = Slots * b + r
  BY <1>1, CellDivides
<1>3. PICK c \in Int : c = b - a
  OBVIOUS
<1>4. q - p = Slots * b - Slots * a
  <2>1. p = Slots * a + r
    BY <1>1
  <2> QED BY <1>0, <2>1, <1>2
<1>5. Slots * b - Slots * a = Slots * (b - a)
  BY <1>0
<1>6. 0 < Slots * c /\ Slots * c < Slots
  BY <1>0, <1>3, <1>4, <1>5
<1>7. c > 0
  BY <1>0, <1>6
<1>8. c < 1
  BY <1>0, <1>6
<1> QED BY <1>7, <1>8

LEMMA CellComesRound ==
    ASSUME LogAssumption, NEW p \in Nat
    PROVE  Cell(p + Slots) = Cell(p)
<1>0. Slots \in Nat /\ Slots >= 2
  BY DEF LogAssumption
<1>q. PICK q \in Nat : q = p + Slots
  BY <1>0
<1>1. PICK a \in Nat, r \in 0 .. Slots - 1 : p = Slots * a + r /\ r = Cell(p)
  BY CellDivides
<1>2. PICK b \in Nat, rest \in 0 .. Slots - 1 : q = Slots * b + rest /\ rest = Cell(q)
  BY CellDivides
<1>3. PICK c \in Int : c = b - a - 1
  OBVIOUS
<1>4. Slots * c = r - rest
  <2>1. Slots * b - Slots * a - Slots = Slots * (b - a - 1)
    BY <1>0
  <2>2. Slots * c = Slots * (b - a - 1)
    BY <1>3
  <2>3. Slots * b - Slots * a - Slots = r - rest
    <3>1. p = Slots * a + r
      BY <1>1
    <3>2. q = Slots * b + rest
      BY <1>2
    <3>3. \A x, y \in Int : p = x + r /\ q = y + rest => y - x - Slots = r - rest
      BY <1>0, <1>q
    <3>4. Slots * a \in Int /\ Slots * b \in Int
      BY <1>0
    <3> QED BY <3>1, <3>2, <3>3, <3>4
  <2> QED BY <2>1, <2>2, <2>3
<1>5. Slots * c < Slots /\ Slots * c > 0 - Slots
  BY <1>0, <1>4
<1>6. c < 1 /\ c > -1
  BY <1>0, <1>5
<1>7. c = 0
  BY <1>6
<1>8. r = rest
  BY <1>0, <1>4, <1>7
<1> QED BY <1>q, <1>1, <1>2, <1>8

\* The first position whose cell has not been given back.
Done == IF pc[Drainer] = "read" THEN dequeue - 1 ELSE dequeue

LogTyped ==
    /\ enqueue \in Nat /\ dequeue \in Nat
    /\ seq \in [0 .. Slots - 1 -> Nat] /\ cells \in [0 .. Slots - 1 -> Writers \cup {None}]
    /\ pc \in [Threads -> {"idle", "look", "drop", "claim", "write", "read", "emit", "wait"}]
    /\ \A w \in Writers : pc[w] \in {"idle", "look", "drop", "claim", "write"}
    /\ pc[Drainer] \in {"idle", "look", "claim", "read", "emit"} /\ pc[Flusher] \in {"idle", "wait"}
    /\ at \in [Threads -> Nat]
    /\ dropped \in Nat /\ reported \in 0 .. dropped
    /\ batch \in Seq(Writers) /\ written \in Seq(Writers) /\ claimed \in Seq(Writers)
    /\ stop \in {"no", "stopping", "joined", "closed"}
    /\ target \in Nat /\ flushed \in Nat /\ owed \in Nat

\* The cells from Done on hold the positions from Done on; the drainer is at the next of them.
Placed ==
    /\ Len(claimed) = enqueue /\ dequeue <= enqueue /\ Done \in Nat /\ enqueue <= Done + Slots
    /\ pc[Drainer] = "read" => at[Drainer] = Done
    /\ pc[Drainer] \in {"look", "claim"} => at[Drainer] = dequeue
    /\ pc[Drainer] = "claim" => dequeue < enqueue /\ seq[Cell(dequeue)] = dequeue + 1

\* A position that was claimed has its record, or the thread that claimed it is copying it; the others are free.
Holds ==
    \A p \in Done .. Done + Slots - 1 :
        \/ p < enqueue /\ seq[Cell(p)] = p + 1 /\ cells[Cell(p)] = claimed[p + 1]
        \/ /\ dequeue <= p /\ p < enqueue /\ seq[Cell(p)] = p
           /\ pc[claimed[p + 1]] = "write" /\ at[claimed[p + 1]] = p
        \/ p >= enqueue /\ seq[Cell(p)] = p

WriterAt(w) ==
    /\ pc[w] = "write" => /\ dequeue <= at[w] /\ at[w] < enqueue /\ claimed[at[w] + 1] = w
                          /\ seq[Cell(at[w])] = at[w]
    /\ pc[w] = "claim" => at[w] < Done + Slots
    /\ pc[w] \in {"look", "claim"} => at[w] <= enqueue

\* What was claimed and popped is written, or in the batch.
Trace ==
    /\ Len(written) + Len(batch) = Done
    /\ \A i \in 1 .. Done : (written \o batch)[i] = claimed[i]

Traced ==
    /\ Trace
    /\ Len(batch) <= Burst /\ (pc[Drainer] \in {"look", "claim", "read"} => Len(batch) < Burst)
    /\ pc[Drainer] = "idle" => batch = <<>>
    /\ flushed <= dequeue

\* Nobody logs past the stop; the last drain takes everything or a whole batch.
Ended ==
    /\ stop # "no" => (\A w \in Writers : pc[w] = "idle") /\ enqueue <= Len(written) + owed
    /\ stop = "joined" /\ pc[Drainer] = "emit" => dequeue = enqueue \/ Len(batch) >= Burst
    /\ stop = "closed" => pc[Drainer] = "idle" /\ (owed <= Burst => written = claimed /\ reported = dropped)

LogInv == LogTyped /\ Placed /\ Holds /\ (\A w \in Writers : WriterAt(w)) /\ Traced /\ Ended

LEMMA CellType ==
    ASSUME LogAssumption, NEW p \in Nat
    PROVE  Cell(p) \in 0 .. Slots - 1
BY CellDivides

LEMMA WindowApart ==
    ASSUME LogAssumption, NEW d \in Nat, NEW p \in d .. d + Slots - 1, NEW q \in d .. d + Slots - 1, p # q
    PROVE  Cell(p) # Cell(q)
<1>0. Slots \in Nat /\ p \in Nat /\ q \in Nat
  BY DEF LogAssumption
<1>1. CASE p < q
  <2>1. q < p + Slots
    BY <1>0
  <2> QED BY <1>0, <1>1, <2>1, CellApart
<1>2. CASE q < p
  <2>1. p < q + Slots
    BY <1>0
  <2> QED BY <1>0, <1>2, <2>1, CellApart
<1> QED BY <1>0, <1>1, <1>2

LEMMA LogTypedKept ==
    ASSUME LogAssumption, LogInv, [Next]_vars
    PROVE  LogTyped'
<1> USE DEF LogTyped, LogInv
<1>0. /\ Slots \in Nat /\ Writers \subseteq Threads /\ Drainer \in Threads /\ Flusher \in Threads
      /\ Drainer \notin Writers /\ Flusher \notin Writers /\ Drainer # Flusher
  BY DEF LogAssumption, Threads, Drainer, Flusher
<1>1. ASSUME NEW w \in Writers, PushBegin(w) \/ PushClaimFails(w) PROVE LogTyped'
  BY <1>0, <1>1 DEF PushBegin, PushClaimFails, Goto, ring, flushing
<1>2. ASSUME NEW w \in Writers, PushLook(w) PROVE LogTyped'
  BY <1>0, <1>2 DEF PushLook, Goto, ring, flushing
<1>3. ASSUME NEW w \in Writers, Drop(w) PROVE LogTyped'
  BY <1>0, <1>3 DEF Drop, Goto, ring, flushing
<1>4. ASSUME NEW w \in Writers, PushClaim(w) PROVE LogTyped'
  BY <1>0, <1>4 DEF PushClaim, Goto, flushing
<1>5. ASSUME NEW w \in Writers, PushWrite(w) PROVE LogTyped'
  <2>1. Cell(at[w]) \in 0 .. Slots - 1 /\ at[w] \in Nat
    BY <1>0, CellType
  <2> QED BY <1>0, <1>5, <2>1 DEF PushWrite, Goto, flushing
<1>6. CASE DrainBegin \/ PopLook \/ PopClaim
  <2>1. CASE DrainBegin
    BY <1>0, <2>1 DEF DrainBegin, Goto, ring, flushing
  <2>2. CASE PopLook
    <3>1. PICK label \in {"claim", "emit"} : pc' = [pc EXCEPT ![Drainer] = label]
      BY <2>2 DEF PopLook, Goto
    <3> QED BY <1>0, <2>2, <3>1 DEF PopLook, ring, flushing
  <2>3. CASE PopClaim
    BY <1>0, <2>3 DEF PopClaim, Goto, flushing
  <2> QED BY <1>6, <2>1, <2>2, <2>3
<1>7. CASE PopRead
  <2>1. Cell(at[Drainer]) \in 0 .. Slots - 1 /\ at[Drainer] \in Nat
    BY <1>0, CellType
  <2>2. cells[Cell(at[Drainer])] \in Writers
    <3>1. pc[Drainer] = "read" /\ at[Drainer] = Done /\ Done \in Nat /\ Done < dequeue /\ Done < enqueue
      BY <1>7 DEF PopRead, Placed, Done
    <3>2. Done \in Done .. Done + Slots - 1
      BY <3>1 DEF LogAssumption
    <3>3. cells[Cell(at[Drainer])] = claimed[Done + 1]
      BY <3>1, <3>2 DEF Holds
    <3>4. claimed[Done + 1] \in Writers
      BY <3>1 DEF Placed
    <3> QED BY <3>3, <3>4
  <2>3. PICK label \in {"emit", "look"} : pc' = [pc EXCEPT ![Drainer] = label]
    BY <1>7 DEF PopRead, Goto
  <2>4. seq' \in [0 .. Slots - 1 -> Nat] /\ batch' \in Seq(Writers)
    BY <1>0, <1>7, <2>1, <2>2 DEF PopRead
  <2> QED BY <1>0, <1>7, <2>3, <2>4 DEF PopRead, flushing
<1>8. CASE Emit
  BY <1>0, <1>8 DEF Emit, Goto, ring, flushing
<1>9. CASE Flushing
  BY <1>0, <1>9 DEF Flushing, FlushBegin, FlushReturns, FlushGivesUp, Goto, ring, flushing
<1>10. CASE Stop
  <2>1. Len(claimed) - Len(written) \in Nat
    BY DEF Placed, Traced, Trace, Done
  <2> QED BY <1>0, <1>10, <2>1 DEF Stop, ring
<1>11. CASE Join
  BY <1>0, <1>11 DEF Join, Goto, ring, flushing
<1>12. CASE Closed \/ UNCHANGED vars
  BY <1>12 DEF Closed, vars, ring, flushing
<1> QED BY <1>1, <1>2, <1>3, <1>4, <1>5, <1>6, <1>7, <1>8, <1>9, <1>10, <1>11, <1>12
        DEF Next, Pushing, Draining

LEMMA ThreadsApart ==
    ASSUME LogAssumption
    PROVE  /\ Writers \subseteq Threads /\ Drainer \in Threads /\ Flusher \in Threads
           /\ Drainer \notin Writers /\ Flusher \notin Writers /\ Drainer # Flusher
BY DEF LogAssumption, Threads, Drainer, Flusher

RingInv == Placed /\ Holds /\ \A w \in Writers : WriterAt(w)

\* A writer moves that copies nothing, before and after.
LEMMA WriterMoves ==
    ASSUME LogAssumption, LogInv, NEW w \in Writers, UNCHANGED ring, pc[w] # "write",
           NEW label \in {"idle", "look", "drop", "claim"}, pc' = [pc EXCEPT ![w] = label],
           NEW a \in Nat, at' = [at EXCEPT ![w] = a],
           label = "claim" => a < Done + Slots, label \in {"look", "claim"} => a <= enqueue
    PROVE  RingInv'
<1>0. /\ \A t \in Threads \ {w} : pc'[t] = pc[t] /\ at'[t] = at[t]
      /\ pc'[w] = label /\ at'[w] = a /\ Drainer \in Threads \ {w} /\ Writers \subseteq Threads
  BY ThreadsApart DEF LogInv, LogTyped
<1>1. Done' = Done /\ UNCHANGED <<enqueue, dequeue, seq, cells, claimed>>
  BY <1>0 DEF Done, ring
<1>2. Placed'
  BY <1>0, <1>1 DEF LogInv, Placed
<1>3. Holds'
  <2> SUFFICES ASSUME NEW p \in Done .. Done + Slots - 1
               PROVE  \/ p < enqueue /\ seq[Cell(p)] = p + 1 /\ cells[Cell(p)] = claimed[p + 1]
                      \/ /\ dequeue <= p /\ p < enqueue /\ seq[Cell(p)] = p
                         /\ pc'[claimed[p + 1]] = "write" /\ at'[claimed[p + 1]] = p
                      \/ p >= enqueue /\ seq[Cell(p)] = p
    BY <1>1 DEF Holds, ring, Cell
  <2>1. CASE p < enqueue
    <3>1. p + 1 \in 1 .. Len(claimed)
      BY <2>1 DEF LogInv, LogTyped, Placed
    <3>2. claimed[p + 1] \in Writers
      BY <3>1 DEF LogInv, LogTyped
    <3>3. pc[claimed[p + 1]] = "write" => pc'[claimed[p + 1]] = "write" /\ at'[claimed[p + 1]] = at[claimed[p + 1]]
      BY <1>0, <3>2
    <3> QED BY <3>3 DEF LogInv, Holds
  <2>2. CASE ~(p < enqueue)
    BY <2>2 DEF LogInv, Holds
  <2> QED BY <2>1, <2>2
<1>4. ASSUME NEW u \in Writers PROVE WriterAt(u)'
  <2>1. CASE u = w
    BY <1>0, <1>1, <2>1 DEF WriterAt
  <2>2. CASE u # w
    BY <1>0, <1>1, <2>2 DEF WriterAt, LogInv
  <2> QED BY <2>1, <2>2
<1> QED BY <1>2, <1>3, <1>4 DEF RingInv

\* A thread other than a writer moves, and no cell changes hands.
LEMMA OthersMove ==
    ASSUME LogAssumption, LogInv, UNCHANGED ring,
           \A w \in Writers : pc'[w] = pc[w] /\ at'[w] = at[w],
           pc[Drainer] # "read", pc'[Drainer] # "read",
           pc'[Drainer] \in {"look", "claim"} => at'[Drainer] = dequeue,
           pc'[Drainer] = "claim" => dequeue < enqueue /\ seq[Cell(dequeue)] = dequeue + 1
    PROVE  RingInv'
<1>1. Done' = Done /\ UNCHANGED <<enqueue, dequeue, seq, cells, claimed>>
  BY DEF Done, ring
<1>2. Placed'
  BY <1>1 DEF LogInv, Placed, Cell
<1>3. Holds'
  <2> SUFFICES ASSUME NEW p \in Done .. Done + Slots - 1
               PROVE  \/ p < enqueue /\ seq[Cell(p)] = p + 1 /\ cells[Cell(p)] = claimed[p + 1]
                      \/ /\ dequeue <= p /\ p < enqueue /\ seq[Cell(p)] = p
                         /\ pc'[claimed[p + 1]] = "write" /\ at'[claimed[p + 1]] = p
                      \/ p >= enqueue /\ seq[Cell(p)] = p
    BY <1>1 DEF Holds, ring, Cell
  <2>1. CASE p < enqueue
    <3>1. p + 1 \in 1 .. Len(claimed)
      BY <2>1 DEF LogInv, LogTyped, Placed
    <3>2. claimed[p + 1] \in Writers
      BY <3>1 DEF LogInv, LogTyped
    <3> QED BY <3>2 DEF LogInv, Holds
  <2>2. CASE ~(p < enqueue)
    BY <2>2 DEF LogInv, Holds
  <2> QED BY <2>1, <2>2
<1>4. ASSUME NEW u \in Writers PROVE WriterAt(u)'
  BY <1>1 DEF WriterAt, LogInv, Cell
<1> QED BY <1>2, <1>3, <1>4 DEF RingInv

\* What holds of a claimed position names a writer.
LEMMA ClaimedType ==
    ASSUME LogInv, NEW p \in Nat, p < enqueue
    PROVE  claimed[p + 1] \in Writers
<1>1. p + 1 \in 1 .. Len(claimed)
  BY DEF LogInv, LogTyped, Placed
<1> QED BY <1>1 DEF LogInv, LogTyped

\* The next position, which a writer has found free, is free.
LEMMA PushClaimStep ==
    ASSUME LogAssumption, LogInv, NEW w \in Writers, PushClaim(w)
    PROVE  RingInv'
<1>0. /\ \A t \in Threads \ {w} : pc'[t] = pc[t]
      /\ pc[w] = "claim" /\ pc'[w] = "write" /\ at' = at /\ at[w] = enqueue
      /\ Drainer \in Threads \ {w} /\ Writers \subseteq Threads
      /\ enqueue' = enqueue + 1 /\ UNCHANGED <<dequeue, seq, cells>>
  BY ThreadsApart DEF LogInv, LogTyped, PushClaim, Goto
<1>1. Done' = Done /\ Done \in Nat /\ enqueue \in Nat /\ dequeue \in Nat /\ Done <= dequeue /\ dequeue <= enqueue
      /\ enqueue < Done + Slots /\ Slots \in Nat
  BY <1>0 DEF Done, LogInv, LogTyped, Placed, WriterAt, LogAssumption
<1>2. /\ Len(claimed') = enqueue + 1 /\ claimed'[enqueue + 1] = w
      /\ \A p \in Nat : p < enqueue => claimed'[p + 1] = claimed[p + 1]
  <2>1. claimed \in Seq(Writers) /\ claimed' = Append(claimed, w) /\ Len(claimed) = enqueue
    BY DEF LogInv, LogTyped, Placed, PushClaim
  <2>2. /\ Len(claimed') = enqueue + 1 /\ claimed'[enqueue + 1] = w
        /\ \A i \in 1 .. enqueue : claimed'[i] = claimed[i]
    BY <2>1, AppendProperties
  <2>3. \A p \in Nat : p < enqueue => p + 1 \in 1 .. enqueue
    BY <1>1
  <2> QED BY <2>2, <2>3
<1>3. Placed'
  <2>1. enqueue' <= Done' + Slots /\ dequeue' <= enqueue'
    BY <1>0, <1>1
  <2>2. pc'[Drainer] = "claim" => dequeue' < enqueue'
    BY <1>0, <1>1
  <2> QED BY <1>0, <1>1, <1>2, <2>1, <2>2 DEF LogInv, Placed, Cell
<1>4. seq[Cell(enqueue)] = enqueue
  <2>1. enqueue \in Done .. Done + Slots - 1 /\ ~(enqueue < enqueue)
    BY <1>1
  <2> QED BY <2>1 DEF LogInv, Holds
<1>5. Holds'
  <2> SUFFICES ASSUME NEW p \in Done .. Done + Slots - 1
               PROVE  \/ p < enqueue' /\ seq[Cell(p)] = p + 1 /\ cells[Cell(p)] = claimed'[p + 1]
                      \/ /\ dequeue <= p /\ p < enqueue' /\ seq[Cell(p)] = p
                         /\ pc'[claimed'[p + 1]] = "write" /\ at[claimed'[p + 1]] = p
                      \/ p >= enqueue' /\ seq[Cell(p)] = p
    BY <1>0, <1>1 DEF Holds, Cell
  <2>1. CASE p = enqueue
    <3>1. claimed'[p + 1] = w /\ p < enqueue' /\ dequeue <= p
      BY <1>0, <1>1, <1>2, <2>1
    <3> QED BY <1>0, <1>4, <2>1, <3>1
  <2>2. CASE p < enqueue
    <3>1. p \in Nat /\ p < enqueue'
      BY <1>0, <1>1, <2>2
    <3>2. claimed[p + 1] \in Writers /\ claimed'[p + 1] = claimed[p + 1]
      BY <1>2, <2>2, <3>1, ClaimedType
    <3>3. pc[claimed[p + 1]] = "write" => pc'[claimed[p + 1]] = "write"
      BY <1>0, <3>2
    <3>4. \/ seq[Cell(p)] = p + 1 /\ cells[Cell(p)] = claimed[p + 1]
          \/ dequeue <= p /\ seq[Cell(p)] = p /\ pc[claimed[p + 1]] = "write" /\ at[claimed[p + 1]] = p
      BY <1>1, <2>2, <3>1 DEF LogInv, Holds
    <3> QED BY <3>1, <3>2, <3>3, <3>4
  <2>3. CASE p > enqueue
    <3>1. seq[Cell(p)] = p /\ p >= enqueue'
      BY <1>0, <1>1, <2>3 DEF LogInv, Holds
    <3> QED BY <3>1
  <2> QED BY <1>1, <2>1, <2>2, <2>3
<1>6. ASSUME NEW u \in Writers PROVE WriterAt(u)'
  <2>0. at[u] \in Nat
    BY <1>0 DEF LogInv, LogTyped
  <2>1. CASE u = w
    <3>1. dequeue <= at[w] /\ at[w] < enqueue'
      BY <1>0, <1>1
    <3> QED BY <1>0, <1>2, <1>4, <2>1, <3>1 DEF WriterAt, Cell
  <2>2. CASE u # w
    <3>1. pc'[u] = pc[u] /\ WriterAt(u)
      BY <1>0, <2>2 DEF LogInv
    <3>2. at[u] <= enqueue => at[u] <= enqueue'
      BY <1>0, <1>1, <2>0
    <3>3. at[u] < enqueue => at[u] < enqueue' /\ claimed'[at[u] + 1] = claimed[at[u] + 1]
      BY <1>0, <1>1, <1>2, <2>0
    <3> QED BY <1>0, <1>1, <3>1, <3>2, <3>3 DEF WriterAt, Cell
  <2> QED BY <2>1, <2>2
<1> QED BY <1>3, <1>5, <1>6 DEF RingInv

LEMMA PushWriteStep ==
    ASSUME LogAssumption, LogInv, NEW w \in Writers, PushWrite(w)
    PROVE  RingInv'
<1>0. /\ \A t \in Threads \ {w} : pc'[t] = pc[t]
      /\ pc[w] = "write" /\ pc'[w] = "idle" /\ at' = at
      /\ Drainer \in Threads \ {w} /\ Writers \subseteq Threads
      /\ UNCHANGED <<enqueue, dequeue, claimed>>
  BY ThreadsApart DEF LogInv, LogTyped, PushWrite, Goto
<1>1. Done' = Done /\ Done \in Nat /\ enqueue \in Nat /\ dequeue \in Nat /\ Done <= dequeue /\ dequeue <= enqueue
      /\ enqueue <= Done + Slots /\ Slots \in Nat
  BY <1>0 DEF Done, LogInv, LogTyped, Placed, LogAssumption
<1>2. PICK q : q = at[w]
  OBVIOUS
<1>3. /\ q \in Nat /\ dequeue <= q /\ q < enqueue /\ claimed[q + 1] = w /\ seq[Cell(q)] = q
  BY <1>0, <1>2 DEF LogInv, LogTyped, WriterAt
<1>4. q \in Done .. Done + Slots - 1
  BY <1>1, <1>3
<1>5. /\ seq'[Cell(q)] = q + 1 /\ cells'[Cell(q)] = w
      /\ \A p \in Done .. Done + Slots - 1 :
            p # q => seq'[Cell(p)] = seq[Cell(p)] /\ cells'[Cell(p)] = cells[Cell(p)]
  <2>1. \A p \in Done .. Done + Slots - 1 : Cell(p) \in 0 .. Slots - 1 /\ (p # q => Cell(p) # Cell(q))
    <3>1. \A p \in Done .. Done + Slots - 1 : p \in Nat
      BY <1>1
    <3> QED BY <1>1, <1>4, <3>1, CellType, WindowApart
  <2>2. /\ cells' = [cells EXCEPT ![Cell(q)] = w] /\ seq' = [seq EXCEPT ![Cell(q)] = q + 1]
        /\ seq \in [0 .. Slots - 1 -> Nat] /\ DOMAIN cells = 0 .. Slots - 1
    BY <1>2 DEF PushWrite, LogInv, LogTyped
  <2> QED BY <1>4, <2>1, <2>2
<1>6. Placed'
  <2>1. pc[Drainer] = "claim" => dequeue \in Done .. Done + Slots - 1 /\ dequeue # q
    <3>1. pc[Drainer] = "claim" => seq[Cell(dequeue)] = dequeue + 1 /\ Done = dequeue
      BY DEF LogInv, Placed, Done
    <3>2. dequeue # dequeue + 1
      BY <1>1
    <3> QED BY <1>1, <1>3, <3>1, <3>2
  <2> QED BY <1>0, <1>1, <1>5, <2>1 DEF LogInv, Placed, Cell
<1>7. Holds'
  <2> SUFFICES ASSUME NEW p \in Done .. Done + Slots - 1
               PROVE  \/ p < enqueue /\ seq'[Cell(p)] = p + 1 /\ cells'[Cell(p)] = claimed[p + 1]
                      \/ /\ dequeue <= p /\ p < enqueue /\ seq'[Cell(p)] = p
                         /\ pc'[claimed[p + 1]] = "write" /\ at[claimed[p + 1]] = p
                      \/ p >= enqueue /\ seq'[Cell(p)] = p
    BY <1>0, <1>1 DEF Holds, Cell
  <2>1. CASE p = q
    BY <1>3, <1>5, <2>1
  <2>2. CASE p # q /\ p < enqueue
    <3>1. claimed[p + 1] \in Writers /\ p \in Nat
      BY <1>1, <2>2, ClaimedType
    <3>2. at[claimed[p + 1]] = p => claimed[p + 1] # w
      BY <1>2, <2>2
    <3>3. \/ seq[Cell(p)] = p + 1 /\ cells[Cell(p)] = claimed[p + 1]
          \/ dequeue <= p /\ seq[Cell(p)] = p /\ pc[claimed[p + 1]] = "write" /\ at[claimed[p + 1]] = p
      BY <1>1, <2>2, <3>1 DEF LogInv, Holds
    <3>4. pc[claimed[p + 1]] = "write" /\ at[claimed[p + 1]] = p => pc'[claimed[p + 1]] = "write"
      BY <1>0, <3>1, <3>2
    <3> QED BY <1>5, <2>2, <3>3, <3>4
  <2>3. CASE p # q /\ ~(p < enqueue)
    BY <1>5, <2>3 DEF LogInv, Holds
  <2> QED BY <2>1, <2>2, <2>3
<1>8. ASSUME NEW u \in Writers PROVE WriterAt(u)'
  <2>1. CASE u = w
    BY <1>0, <2>1 DEF WriterAt
  <2>2. CASE u # w
    <3>1. pc'[u] = pc[u] /\ WriterAt(u) /\ at[u] \in Nat
      BY <1>0, <2>2 DEF LogInv, LogTyped
    <3>2. pc[u] = "write" => at[u] # q /\ at[u] \in Done .. Done + Slots - 1
      BY <1>1, <1>3, <2>2, <3>1 DEF WriterAt
    <3> QED BY <1>0, <1>1, <1>5, <3>1, <3>2 DEF WriterAt, Cell
  <2> QED BY <2>1, <2>2
<1> QED BY <1>6, <1>7, <1>8 DEF RingInv

\* What every position in the window is at, as a fact about that position alone.
LEMMA HoldsAt ==
    ASSUME LogInv, NEW p \in Done .. Done + Slots - 1
    PROVE  \/ p < enqueue /\ seq[Cell(p)] = p + 1 /\ cells[Cell(p)] = claimed[p + 1]
           \/ /\ dequeue <= p /\ p < enqueue /\ seq[Cell(p)] = p
              /\ pc[claimed[p + 1]] = "write" /\ at[claimed[p + 1]] = p
           \/ p >= enqueue /\ seq[Cell(p)] = p
BY DEF LogInv, Holds

LEMMA PopClaimStep ==
    ASSUME LogAssumption, LogInv, PopClaim
    PROVE  RingInv'
<1>0. /\ \A t \in Writers : pc'[t] = pc[t]
      /\ pc[Drainer] = "claim" /\ pc'[Drainer] = "read" /\ at' = at
      /\ dequeue' = dequeue + 1 /\ UNCHANGED <<enqueue, seq, cells, claimed>>
  BY ThreadsApart DEF LogInv, LogTyped, PopClaim, Goto
<1>1. /\ Done = dequeue /\ Done' = dequeue /\ dequeue \in Nat /\ enqueue \in Nat /\ Slots \in Nat
      /\ dequeue < enqueue /\ enqueue <= dequeue + Slots
      /\ at[Drainer] = dequeue /\ seq[Cell(dequeue)] = dequeue + 1
  BY <1>0 DEF Done, LogInv, LogTyped, Placed, LogAssumption
<1>2. Placed'
  <2>1. dequeue' <= enqueue' /\ Done' \in Nat /\ enqueue' <= Done' + Slots
    BY <1>0, <1>1
  <2> QED BY <1>0, <1>1, <2>1 DEF LogInv, Placed
<1>3. Holds'
  <2> SUFFICES ASSUME NEW p \in Done .. Done + Slots - 1
               PROVE  \/ p < enqueue /\ seq[Cell(p)] = p + 1 /\ cells[Cell(p)] = claimed[p + 1]
                      \/ /\ dequeue + 1 <= p /\ p < enqueue /\ seq[Cell(p)] = p
                         /\ pc'[claimed[p + 1]] = "write" /\ at[claimed[p + 1]] = p
                      \/ p >= enqueue /\ seq[Cell(p)] = p
    BY <1>0, <1>1 DEF Holds, Cell
  <2>1. CASE p = dequeue
    <3>1. p < enqueue /\ seq[Cell(p)] # p
      BY <1>1, <2>1
    <3> QED BY <1>1, <3>1, HoldsAt
  <2>2. CASE p # dequeue /\ p < enqueue
    <3>1. p \in Nat /\ dequeue + 1 <= p
      BY <1>1, <2>2
    <3>2. pc'[claimed[p + 1]] = pc[claimed[p + 1]]
      BY <1>0, <2>2, <3>1, ClaimedType
    <3> QED BY <1>1, <3>1, <3>2, HoldsAt
  <2>3. CASE ~(p < enqueue)
    BY <2>3, HoldsAt
  <2> QED BY <2>1, <2>2, <2>3
<1>4. ASSUME NEW u \in Writers PROVE WriterAt(u)'
  <2>1. WriterAt(u) /\ at[u] \in Nat
    BY ThreadsApart DEF LogInv, LogTyped
  <2>2. pc[u] = "write" => at[u] # dequeue
    <3>1. dequeue # dequeue + 1
      BY <1>1
    <3> QED BY <1>1, <2>1, <3>1 DEF WriterAt
  <2>3. dequeue <= at[u] /\ at[u] # dequeue => dequeue + 1 <= at[u]
    BY <1>1, <2>1
  <2> QED BY <1>0, <1>1, <2>1, <2>2, <2>3 DEF WriterAt, Cell
<1> QED BY <1>2, <1>3, <1>4 DEF RingInv

\* The cell goes to the position a whole ring later, which is the new end of the window.
LEMMA PopReadStep ==
    ASSUME LogAssumption, LogInv, PopRead
    PROVE  RingInv'
<1>0. /\ \A t \in Writers : pc'[t] = pc[t] /\ at'[t] = at[t]
      /\ pc[Drainer] = "read" /\ pc'[Drainer] \in {"emit", "look"} /\ at'[Drainer] = dequeue
      /\ UNCHANGED <<enqueue, dequeue, cells, claimed>>
  BY ThreadsApart DEF LogInv, LogTyped, PopRead, Goto
<1>1. /\ Done = dequeue - 1 /\ Done' = Done + 1 /\ Done \in Nat /\ dequeue \in Nat /\ enqueue \in Nat /\ Slots \in Nat
      /\ dequeue <= enqueue /\ enqueue <= Done + Slots /\ Slots >= 2 /\ at[Drainer] = Done
  BY <1>0 DEF Done, LogInv, LogTyped, Placed, LogAssumption
<1>2. Done \in Done .. Done + Slots - 1 /\ Done < dequeue
  BY <1>1
<1>3. Cell(Done) \in 0 .. Slots - 1 /\ Cell(Done + Slots) = Cell(Done)
  BY <1>1, CellType, CellComesRound
<1>4. seq' = [seq EXCEPT ![Cell(Done)] = Done + Slots] /\ DOMAIN seq = 0 .. Slots - 1
  BY <1>1 DEF PopRead, LogInv, LogTyped
<1>5. \A p \in Done + 1 .. Done + Slots - 1 : seq'[Cell(p)] = seq[Cell(p)]
  <2>1. ASSUME NEW p \in Done + 1 .. Done + Slots - 1 PROVE Cell(p) # Cell(Done) /\ Cell(p) \in 0 .. Slots - 1
    <3>1. p \in Done .. Done + Slots - 1 /\ p # Done /\ p \in Nat
      BY <1>1
    <3> QED BY <1>1, <1>2, <3>1, WindowApart, CellType
  <2> QED BY <1>3, <1>4, <2>1
<1>6. Placed'
  BY <1>0, <1>1 DEF LogInv, Placed
<1>7. Holds'
  <2> SUFFICES ASSUME NEW p \in Done + 1 .. Done + 1 + Slots - 1
               PROVE  \/ p < enqueue /\ seq'[Cell(p)] = p + 1 /\ cells[Cell(p)] = claimed[p + 1]
                      \/ /\ dequeue <= p /\ p < enqueue /\ seq'[Cell(p)] = p
                         /\ pc'[claimed[p + 1]] = "write" /\ at'[claimed[p + 1]] = p
                      \/ p >= enqueue /\ seq'[Cell(p)] = p
    BY <1>0, <1>1 DEF Holds, Cell
  <2>1. CASE p = Done + Slots
    <3>1. seq'[Cell(p)] = p /\ p >= enqueue
      BY <1>1, <1>3, <1>4, <2>1
    <3> QED BY <3>1
  <2>2. CASE p # Done + Slots
    <3>1. p \in Done .. Done + Slots - 1 /\ p \in Done + 1 .. Done + Slots - 1 /\ p \in Nat
      BY <1>1, <2>2
    <3>2. seq'[Cell(p)] = seq[Cell(p)]
      BY <1>5, <3>1
    <3>3. p < enqueue => pc'[claimed[p + 1]] = pc[claimed[p + 1]] /\ at'[claimed[p + 1]] = at[claimed[p + 1]]
      BY <1>0, <3>1, ClaimedType
    <3> QED BY <3>1, <3>2, <3>3, HoldsAt
  <2> QED BY <2>1, <2>2
<1>8. ASSUME NEW u \in Writers PROVE WriterAt(u)'
  <2>1. WriterAt(u) /\ at[u] \in Nat
    BY ThreadsApart DEF LogInv, LogTyped
  <2>2. pc[u] = "write" => at[u] \in Done + 1 .. Done + Slots - 1
    BY <1>1, <2>1 DEF WriterAt
  <2>3. at[u] < Done + Slots => at[u] < Done + 1 + Slots
    BY <1>1, <2>1
  <2> QED BY <1>0, <1>1, <1>5, <2>1, <2>2, <2>3 DEF WriterAt, Cell
<1> QED BY <1>6, <1>7, <1>8 DEF RingInv

\* A step that moves neither a writer nor the drainer.
LEMMA Unmoved ==
    ASSUME LogInv, UNCHANGED <<ring, at>>, pc'[Drainer] = pc[Drainer], \A w \in Writers : pc'[w] = pc[w]
    PROVE  RingInv'
<1>1. Done' = Done /\ UNCHANGED <<enqueue, dequeue, seq, cells, claimed, at>>
  BY DEF Done, ring
<1>2. Placed'
  BY <1>1 DEF LogInv, Placed, Cell
<1>3. Holds'
  <2> SUFFICES ASSUME NEW p \in Done .. Done + Slots - 1
               PROVE  \/ p < enqueue /\ seq[Cell(p)] = p + 1 /\ cells[Cell(p)] = claimed[p + 1]
                      \/ /\ dequeue <= p /\ p < enqueue /\ seq[Cell(p)] = p
                         /\ pc'[claimed[p + 1]] = "write" /\ at[claimed[p + 1]] = p
                      \/ p >= enqueue /\ seq[Cell(p)] = p
    BY <1>1 DEF Holds, Cell
  <2>1. p < enqueue => pc'[claimed[p + 1]] = pc[claimed[p + 1]]
    <3>1. p \in Nat
      BY DEF LogInv, Placed
    <3> QED BY <3>1, ClaimedType
  <2> QED BY <2>1, HoldsAt
<1>4. ASSUME NEW u \in Writers PROVE WriterAt(u)'
  BY <1>1 DEF WriterAt, LogInv, Cell
<1> QED BY <1>2, <1>3, <1>4 DEF RingInv

\* A position whose cell carries its number is in the window: a whole ring on, the cell would still be Done's.
LEMMA FreeIsNear ==
    ASSUME LogAssumption, LogInv, NEW w \in Writers, pc[w] = "look", seq[Cell(at[w])] = at[w]
    PROVE  at[w] < Done + Slots
<1>1. /\ Done \in Nat /\ enqueue \in Nat /\ Slots \in Nat /\ Slots >= 2 /\ enqueue <= Done + Slots
      /\ at[w] \in Nat /\ at[w] <= enqueue
  BY ThreadsApart DEF LogInv, LogTyped, Placed, WriterAt, LogAssumption
<1>2. Done \in Done .. Done + Slots - 1 /\ Done + Slots # Done /\ Done + Slots # Done + 1
  BY <1>1
<1>3. at[w] # Done + Slots
  <2> SUFFICES ASSUME at[w] = Done + Slots PROVE FALSE
    OBVIOUS
  <2>1. seq[Cell(Done)] = Done + Slots
    BY <1>1, CellComesRound
  <2> QED BY <1>2, <2>1, HoldsAt
<1> QED BY <1>1, <1>3

LEMMA RingKept ==
    ASSUME LogAssumption, LogInv, [Next]_vars
    PROVE  RingInv'
<1>0. /\ pc \in [Threads -> {"idle", "look", "drop", "claim", "write", "read", "emit", "wait"}]
      /\ at \in [Threads -> Nat] /\ enqueue \in Nat /\ dequeue \in Nat /\ enqueue <= enqueue /\ Done \in Nat
      /\ \A w \in Writers : w \in Threads /\ at[w] \in Nat /\ w # Drainer /\ w # Flusher
      /\ Drainer # Flusher /\ Drainer \in Threads /\ Flusher \in Threads
  BY ThreadsApart DEF LogInv, LogTyped, Placed
<1>1. ASSUME NEW w \in Writers, PushBegin(w) \/ PushClaimFails(w) PROVE RingInv'
  <2>1. pc[w] # "write" /\ UNCHANGED ring /\ pc' = [pc EXCEPT ![w] = "look"] /\ at' = [at EXCEPT ![w] = enqueue]
    BY <1>1 DEF PushBegin, PushClaimFails, Goto
  <2> QED BY <1>0, <2>1, WriterMoves
<1>2. ASSUME NEW w \in Writers, PushLook(w) PROVE RingInv'
  <2>0. pc[w] = "look" /\ pc[w] # "write" /\ UNCHANGED ring /\ at[w] \in Nat /\ at[w] <= enqueue
    BY <1>0, <1>2 DEF PushLook, LogInv, WriterAt
  <2>1. CASE pc' = [pc EXCEPT ![w] = "claim"] /\ at' = at /\ seq[Cell(at[w])] = at[w]
    <3>1. at' = [at EXCEPT ![w] = at[w]]
      BY <1>0, <2>1
    <3>2. at[w] < Done + Slots
      BY <2>0, <2>1, FreeIsNear
    <3> QED BY <2>0, <2>1, <3>1, <3>2, WriterMoves
  <2>2. CASE pc' = [pc EXCEPT ![w] = "drop"] /\ at' = at
    <3>1. at' = [at EXCEPT ![w] = at[w]]
      BY <1>0, <2>2
    <3> QED BY <2>0, <2>2, <3>1, WriterMoves
  <2>3. CASE pc' = pc /\ at' = [at EXCEPT ![w] = enqueue]
    <3>1. pc' = [pc EXCEPT ![w] = "look"]
      BY <1>0, <2>0, <2>3
    <3> QED BY <1>0, <2>0, <2>3, <3>1, WriterMoves
  <2>4. seq[Cell(at[w])] \in Nat
    BY <2>0, CellType DEF LogInv, LogTyped
  <2> QED BY <1>2, <2>0, <2>1, <2>2, <2>3, <2>4 DEF PushLook, Goto
<1>3. ASSUME NEW w \in Writers, Drop(w) PROVE RingInv'
  <2>1. pc[w] # "write" /\ UNCHANGED ring /\ pc' = [pc EXCEPT ![w] = "idle"] /\ at' = [at EXCEPT ![w] = at[w]]
    BY <1>0, <1>3 DEF Drop, Goto
  <2> QED BY <1>0, <2>1, WriterMoves
<1>4. ASSUME NEW w \in Writers, PushClaim(w) \/ PushWrite(w) PROVE RingInv'
  BY <1>4, PushClaimStep, PushWriteStep
<1>5. CASE DrainBegin \/ Join
  <2>1. /\ pc[Drainer] = "idle" /\ UNCHANGED ring
        /\ pc' = [pc EXCEPT ![Drainer] = "look"] /\ at' = [at EXCEPT ![Drainer] = dequeue]
    BY <1>5 DEF DrainBegin, Join, Goto
  <2> QED BY <1>0, <2>1, OthersMove
<1>6. CASE PopLook
  <2>1. pc[Drainer] = "look" /\ UNCHANGED ring /\ at' = at /\ at[Drainer] = dequeue /\ Done = dequeue
    BY <1>6 DEF PopLook, LogInv, Placed, Done
  <2>2. CASE pc' = [pc EXCEPT ![Drainer] = "claim"] /\ seq[Cell(dequeue)] = dequeue + 1
    <3>1. dequeue < enqueue
      <4>1. dequeue \in Done .. Done + Slots - 1 /\ dequeue # dequeue + 1
        BY <1>0, <2>1 DEF LogAssumption
      <4> QED BY <2>2, <4>1, HoldsAt
    <3> QED BY <1>0, <2>1, <2>2, <3>1, OthersMove
  <2>3. CASE pc' = [pc EXCEPT ![Drainer] = "emit"]
    BY <1>0, <2>1, <2>3, OthersMove
  <2> QED BY <1>6, <2>1, <2>2, <2>3 DEF PopLook, Goto
<1>7. CASE PopClaim \/ PopRead
  BY <1>7, PopClaimStep, PopReadStep
<1>8. CASE Emit
  <2>1. pc[Drainer] = "emit" /\ UNCHANGED <<ring, at>> /\ pc' = [pc EXCEPT ![Drainer] = "idle"]
    BY <1>8 DEF Emit, Goto
  <2> QED BY <1>0, <2>1, OthersMove
<1>9. CASE Flushing
  <2>1. UNCHANGED <<ring, at>> /\ \E label \in {"idle", "wait"} : pc' = [pc EXCEPT ![Flusher] = label]
    BY <1>9 DEF Flushing, FlushBegin, FlushReturns, FlushGivesUp, Goto
  <2>2. pc'[Drainer] = pc[Drainer] /\ \A w \in Writers : pc'[w] = pc[w]
    BY <1>0, <2>1
  <2> QED BY <2>1, <2>2, Unmoved
<1>10. CASE Stop \/ Closed \/ UNCHANGED vars
  <2>1. UNCHANGED <<ring, at, pc>>
    BY <1>10 DEF Stop, Closed, vars
  <2> QED BY <2>1, Unmoved
<1> QED BY <1>1, <1>2, <1>3, <1>4, <1>5, <1>6, <1>7, <1>8, <1>9, <1>10
        DEF Next, Pushing, Draining

LEMMA TraceTypes ==
    ASSUME LogAssumption, LogInv
    PROVE  /\ Done \in Nat /\ dequeue \in Nat /\ enqueue \in Nat /\ Done <= dequeue /\ dequeue <= enqueue
           /\ Len(written) \in Nat /\ Len(batch) \in Nat /\ Len(claimed) = enqueue
           /\ written \in Seq(Writers) /\ batch \in Seq(Writers) /\ claimed \in Seq(Writers)
           /\ written \o batch \in Seq(Writers) /\ Len(written \o batch) = Done
           /\ Burst \in Nat /\ Burst # 0 /\ flushed \in Nat /\ target \in Nat
           /\ Len(written) + Len(batch) = Done
<1>1. written \in Seq(Writers) /\ batch \in Seq(Writers) /\ claimed \in Seq(Writers)
  BY DEF LogInv, LogTyped
<1>2. Done <= dequeue /\ dequeue \in Nat /\ Done \in Nat /\ enqueue \in Nat
  BY DEF Done, LogInv, LogTyped, Placed
<1> QED BY <1>1, <1>2, ConcatProperties, LenProperties DEF LogInv, LogTyped, Placed, Traced, Trace, LogAssumption

\* What the drainer reads is the record of the first position that is not done.
LEMMA PopReads ==
    ASSUME LogAssumption, LogInv, PopRead
    PROVE  /\ Done' = Done + 1 /\ UNCHANGED <<written, claimed>>
           /\ \E c \in Writers : c = claimed[Done + 1] /\ batch' = Append(batch, c)
<1>a. Done \in Nat /\ dequeue \in Nat /\ enqueue \in Nat /\ Done <= dequeue /\ dequeue <= enqueue
  BY TraceTypes
<1>0. pc[Drainer] = "read" /\ pc'[Drainer] # "read" /\ dequeue' = dequeue /\ at[Drainer] = Done
  BY ThreadsApart DEF PopRead, Goto, LogInv, LogTyped, Placed
<1>1. Done = dequeue - 1 /\ Done' = dequeue
  BY <1>0 DEF Done
<1>2. Done' = Done + 1 /\ Done < enqueue /\ Done # dequeue
  BY <1>a, <1>1
<1>3. Done \in Done .. Done + Slots - 1 /\ ~(dequeue <= Done)
  BY <1>a, <1>1 DEF LogAssumption
<1>4. cells[Cell(Done)] = claimed[Done + 1]
  BY <1>a, <1>2, <1>3, HoldsAt
<1>5. claimed[Done + 1] \in Writers
  BY <1>a, <1>2, ClaimedType
<1> QED BY <1>0, <1>2, <1>4, <1>5 DEF PopRead

LEMMA ConcatAppend ==
    ASSUME NEW S, NEW s \in Seq(S), NEW t \in Seq(S), NEW e \in S
    PROVE  s \o Append(t, e) = Append(s \o t, e)
<1>1. <<e>> \in Seq(S) /\ s \o t \in Seq(S)
  BY ConcatProperties
<1>2. Append(t, e) = t \o <<e>> /\ Append(s \o t, e) = (s \o t) \o <<e>>
  BY <1>1, AppendIsConcat
<1>3. (s \o t) \o <<e>> = s \o (t \o <<e>>)
  BY <1>1, ConcatAssociative
<1> QED BY <1>2, <1>3

\* The trace grows by a record when the drainer has read it; a batch that is emitted changes hands.
LEMMA TraceKept ==
    ASSUME LogAssumption, LogInv, [Next]_vars
    PROVE  Trace'
<1>0. Trace
  BY DEF LogInv, Traced
<1>a. Done \in Nat /\ dequeue \in Nat /\ enqueue \in Nat /\ Done <= dequeue /\ dequeue <= enqueue
  BY TraceTypes
<1>1. CASE UNCHANGED <<written, batch, claimed>> /\ Done' = Done
  BY <1>0, <1>1 DEF Trace
<1>2. ASSUME NEW w \in Writers, PushClaim(w) PROVE Trace'
  <2>1. Done' = Done /\ UNCHANGED <<written, batch>> /\ claimed' = Append(claimed, w)
    BY <1>2, ThreadsApart DEF PushClaim, Goto, Done, LogInv, LogTyped
  <2>2. \A i \in 1 .. Done : claimed'[i] = claimed[i]
    <3>1. \A i \in 1 .. Done : i \in 1 .. enqueue
      BY <1>a
    <3>2. claimed \in Seq(Writers) /\ Len(claimed) = enqueue
      BY TraceTypes
    <3>3. \A i \in 1 .. enqueue : claimed'[i] = claimed[i]
      BY <2>1, <3>2, AppendProperties
    <3> QED BY <3>1, <3>3
  <2> QED BY <1>0, <2>1, <2>2 DEF Trace
<1>3. CASE PopRead
  <2>1. Done' = Done + 1 /\ UNCHANGED <<written, claimed>>
    BY <1>3, PopReads
  <2>4. PICK c \in Writers : c = claimed[Done + 1] /\ batch' = Append(batch, c)
    BY <1>3, PopReads
  <2>5. batch' \in Seq(Writers) /\ Len(batch') = Len(batch) + 1
    BY <2>4, TraceTypes, AppendProperties
  <2>6. written \o batch' = Append(written \o batch, c)
    <3>1. written \in Seq(Writers) /\ batch \in Seq(Writers)
      BY TraceTypes
    <3> QED BY <2>4, <3>1, ConcatAppend
  <2>7. PICK s : s = written \o batch
    OBVIOUS
  <2>8. /\ written' \o batch' = Append(s, c) /\ s \in Seq(Writers) /\ Len(s) = Done
        /\ \A i \in 1 .. Done : s[i] = claimed[i]
    BY <1>0, <2>1, <2>6, <2>7, TraceTypes DEF Trace
  <2>9. /\ \A i \in 1 .. Done : Append(s, c)[i] = s[i]
        /\ Append(s, c)[Done + 1] = c
    BY <2>8, AppendProperties
  <2>10. \A i \in 1 .. Done' : i \in 1 .. Done \/ i = Done + 1
    BY <1>a, <2>1
  <2>11. \A i \in 1 .. Done' : (written' \o batch')[i] = claimed'[i]
    BY <2>1, <2>4, <2>8, <2>9, <2>10
  <2>12. Len(written') + Len(batch') = Done'
    <3>1. PICK n, m \in Nat : n = Len(written) /\ m = Len(batch)
      BY TraceTypes
    <3>2. n + m = Done
      BY <3>1, TraceTypes
    <3>3. Len(written') = n /\ Len(batch') = m + 1
      BY <2>1, <2>5, <3>1
    <3>4. n + (m + 1) = Done + 1
      BY <1>a, <3>2
    <3> QED BY <2>1, <3>3, <3>4
  <2> QED BY <2>11, <2>12 DEF Trace
<1>4. CASE Emit
  <2>1. Done' = Done /\ written' = written \o batch /\ batch' = <<>> /\ claimed' = claimed
    BY <1>4, ThreadsApart DEF Emit, Goto, Done, LogInv, LogTyped, ring
  <2>2. written' \o batch' = written \o batch /\ Len(written') + Len(batch') = Done
    <3>1. written' \in Seq(Writers) /\ Len(written') = Done /\ Len(batch') = 0
      BY <2>1, TraceTypes
    <3> QED BY <2>1, <3>1, TraceTypes, ConcatEmptySeq
  <2> QED BY <1>0, <2>1, <2>2 DEF Trace
<1>5. CASE PopClaim
  <2>1. Done' = Done
    BY <1>5, ThreadsApart, TraceTypes DEF PopClaim, Goto, Done, LogInv, LogTyped
  <2> QED BY <1>1, <1>5, <2>1 DEF PopClaim
<1>6. ASSUME NEW w \in Writers, PushBegin(w) \/ PushLook(w) \/ Drop(w) \/ PushClaimFails(w) \/ PushWrite(w)
      PROVE  Trace'
  <2>1. UNCHANGED <<written, batch, claimed, dequeue>>
    BY <1>6 DEF PushBegin, PushLook, Drop, PushClaimFails, PushWrite, ring
  <2>2. pc'[Drainer] = pc[Drainer]
    BY <1>6, ThreadsApart DEF PushBegin, PushLook, Drop, PushClaimFails, PushWrite, Goto, LogInv, LogTyped
  <2> QED BY <1>1, <2>1, <2>2 DEF Done
<1>7. CASE DrainBegin \/ PopLook \/ Join
  <2>1. UNCHANGED <<written, batch, claimed, dequeue>> /\ pc[Drainer] # "read"
    BY <1>7 DEF DrainBegin, PopLook, Join, ring
  <2>2. pc'[Drainer] # "read"
    BY <1>7, ThreadsApart DEF DrainBegin, PopLook, Join, Goto, LogInv, LogTyped
  <2> QED BY <1>1, <2>1, <2>2 DEF Done
<1>8. CASE Flushing \/ Stop \/ Closed \/ UNCHANGED vars
  <2>1. UNCHANGED <<written, batch, claimed, dequeue>>
    BY <1>8 DEF Flushing, FlushBegin, FlushReturns, FlushGivesUp, Stop, Closed, vars, ring
  <2>2. pc'[Drainer] = pc[Drainer]
    BY <1>8, ThreadsApart
       DEF Flushing, FlushBegin, FlushReturns, FlushGivesUp, Stop, Closed, vars, Goto, LogInv, LogTyped
  <2> QED BY <1>1, <2>1, <2>2 DEF Done
<1> QED BY <1>2, <1>3, <1>4, <1>5, <1>6, <1>7, <1>8 DEF Next, Pushing, Draining

LEMMA TracedKept ==
    ASSUME LogAssumption, LogInv, [Next]_vars
    PROVE  Traced'
<1> DEFINE Batches == /\ Len(batch) <= Burst /\ (pc[Drainer] \in {"look", "claim", "read"} => Len(batch) < Burst)
                      /\ pc[Drainer] = "idle" => batch = <<>>
<1>0. Trace'
  BY TraceKept
<1>1. (flushed <= dequeue)'
  <2>1. flushed <= dequeue /\ flushed \in Nat /\ dequeue \in Nat /\ dequeue <= dequeue + 1
    BY TraceTypes DEF LogInv, Traced
  <2>2. CASE UNCHANGED <<flushed, dequeue>>
    BY <2>1, <2>2
  <2>3. CASE PopClaim
    <3>1. flushed' = flushed /\ dequeue' = dequeue + 1
      BY <2>3 DEF PopClaim, flushing
    <3> QED BY <2>1, <3>1
  <2>4. CASE FlushReturns
    BY <2>1, <2>4, TraceTypes DEF FlushReturns, ring
  <2>5. UNCHANGED <<flushed, dequeue>> \/ PopClaim \/ FlushReturns
    BY DEF Next, Pushing, Draining, Flushing, PushBegin, PushLook, Drop, PushClaim, PushClaimFails, PushWrite,
           DrainBegin, PopLook, PopRead, Emit, FlushBegin, FlushGivesUp, Stop, Join, Closed, vars, ring, flushing
  <2> QED BY <2>2, <2>3, <2>4, <2>5
<1>2. Batches'
  <2>0. Batches /\ Len(batch) \in Nat /\ Burst \in Nat /\ Burst # 0 /\ batch \in Seq(Writers)
    BY TraceTypes DEF LogInv, Traced
  <2>1. CASE batch' = batch /\ pc'[Drainer] = pc[Drainer]
    BY <2>0, <2>1
  <2>2. CASE DrainBegin \/ Join
    <3>1. batch' = <<>> /\ pc'[Drainer] = "look"
      BY <2>0, <2>2, ThreadsApart DEF DrainBegin, Join, Goto, LogInv, LogTyped
    <3> QED BY <2>0, <3>1
  <2>3. CASE PopLook \/ PopClaim
    <3>1. batch' = batch /\ pc[Drainer] \in {"look", "claim"} /\ pc'[Drainer] \in {"claim", "emit", "read"}
      BY <2>3, ThreadsApart DEF PopLook, PopClaim, Goto, LogInv, LogTyped
    <3> QED BY <2>0, <3>1
  <2>4. CASE PopRead
    <3>1. Len(batch') = Len(batch) + 1
      BY <2>0, <2>4, PopReads, AppendProperties
    <3>2. Len(batch) < Burst /\ pc'[Drainer] = (IF Len(batch') >= Burst THEN "emit" ELSE "look")
      BY <2>0, <2>4, ThreadsApart DEF PopRead, Goto, LogInv, LogTyped
    <3>3. PICK n \in Nat : n = Len(batch)
      BY <2>0
    <3> HIDE DEF Batches
    <3>4. n + 1 <= Burst /\ (~(n + 1 >= Burst) => n + 1 < Burst)
      BY <2>0, <3>2, <3>3
    <3> QED BY <3>1, <3>2, <3>3, <3>4 DEF Batches
  <2>5. CASE Emit
    <3>1. batch' = <<>> /\ pc'[Drainer] = "idle"
      BY <2>5, ThreadsApart DEF Emit, Goto, LogInv, LogTyped
    <3> QED BY <2>0, <3>1
  <2>6. \/ batch' = batch /\ pc'[Drainer] = pc[Drainer]
        \/ DrainBegin \/ Join \/ PopLook \/ PopClaim \/ PopRead \/ Emit
    <3> USE ThreadsApart DEF LogInv, LogTyped, Goto
    <3>1. ASSUME NEW w \in Writers, PushBegin(w) \/ Pushing(w) PROVE batch' = batch /\ pc'[Drainer] = pc[Drainer]
      BY <3>1 DEF Pushing, PushBegin, PushLook, Drop, PushClaim, PushClaimFails, PushWrite
    <3>2. CASE Flushing
      BY <3>2 DEF Flushing, FlushBegin, FlushReturns, FlushGivesUp
    <3>3. CASE Stop \/ Closed \/ UNCHANGED vars
      BY <3>3 DEF Stop, Closed, vars
    <3> QED BY <3>1, <3>2, <3>3 DEF Next, Draining
  <2> QED BY <2>1, <2>2, <2>3, <2>4, <2>5, <2>6
<1> QED BY <1>0, <1>1, <1>2 DEF Traced

\* Nobody writes any more: everything claimed is in its cell.
LEMMA QuietRing ==
    ASSUME LogAssumption, LogInv, stop # "no", pc[Drainer] = "look", seq[Cell(at[Drainer])] # at[Drainer] + 1
    PROVE  dequeue = enqueue
<1>1. at[Drainer] = dequeue /\ Done = dequeue /\ \A w \in Writers : pc[w] = "idle"
  BY DEF LogInv, Placed, Ended, Done
<1>2. dequeue \in Nat /\ enqueue \in Nat /\ dequeue <= enqueue /\ dequeue \in Done .. Done + Slots - 1
  BY <1>1, TraceTypes DEF LogAssumption
<1>3. dequeue < enqueue => pc[claimed[dequeue + 1]] # "write"
  BY <1>1, <1>2, ClaimedType
<1>4. ~(dequeue < enqueue)
  BY <1>1, <1>2, <1>3, HoldsAt
<1> QED BY <1>2, <1>4

\* The last batch: it takes all there is, or it is full.
LEMMA LastEmit ==
    ASSUME LogAssumption, LogInv, Emit, stop = "joined", owed <= Burst
    PROVE  written' = claimed
<1>1. pc[Drainer] = "emit" /\ Done = dequeue /\ enqueue <= Len(written) + owed
      /\ (dequeue = enqueue \/ Len(batch) >= Burst)
  BY DEF Emit, LogInv, Ended, Done
<1>2. PICK n, m \in Nat : n = Len(written) /\ m = Len(batch)
  BY TraceTypes
<1>3. n + m = dequeue /\ owed \in Nat /\ Burst \in Nat /\ enqueue \in Nat /\ dequeue <= enqueue
  BY <1>1, <1>2, TraceTypes DEF LogInv, LogTyped
<1>4. enqueue <= n + owed /\ (dequeue = enqueue \/ m >= Burst)
  BY <1>1, <1>2
<1>5. dequeue = enqueue
  BY <1>3, <1>4
<1>6. written \o batch \in Seq(Writers) /\ claimed \in Seq(Writers) /\ Len(written \o batch) = Len(claimed)
  BY <1>1, <1>5, TraceTypes
<1>7. \A i \in 1 .. Len(written \o batch) : (written \o batch)[i] = claimed[i]
  BY TraceTypes DEF LogInv, Traced, Trace
<1>8. written \o batch = claimed
  BY <1>6, <1>7, SeqEqual
<1> QED BY <1>8 DEF Emit

LEMMA EndedKept ==
    ASSUME LogAssumption, LogInv, [Next]_vars
    PROVE  Ended'
<1>0. Ended
  BY DEF LogInv
<1>1. ASSUME NEW w \in Writers, PushBegin(w) \/ Pushing(w) PROVE Ended'
  <2>1. stop = "no"
    BY <1>0, <1>1 DEF Ended, Pushing, PushBegin, PushLook, Drop, PushClaim, PushClaimFails, PushWrite
  <2>2. stop' = "no"
    BY <1>1, <2>1 DEF Pushing, PushBegin, PushLook, Drop, PushClaim, PushClaimFails, PushWrite
  <2> QED BY <2>2 DEF Ended
<1>2. CASE DrainBegin
  BY <1>2 DEF DrainBegin, Ended
<1>3. CASE PopLook \/ PopClaim \/ PopRead
  <2>0. stop' = stop /\ stop # "closed" /\ UNCHANGED <<written, owed, enqueue>>
    BY <1>0, <1>3 DEF PopLook, PopClaim, PopRead, Ended, ring, flushing
  <2>1. \A w \in Writers : pc'[w] = pc[w]
    BY <1>3, ThreadsApart DEF PopLook, PopClaim, PopRead, Goto, LogInv, LogTyped
  <2>2. ASSUME stop = "joined", pc'[Drainer] = "emit" PROVE dequeue' = enqueue' \/ Len(batch') >= Burst
    <3>1. CASE PopLook
      <4>1. pc[Drainer] = "look" /\ seq[Cell(at[Drainer])] # at[Drainer] + 1 /\ UNCHANGED <<dequeue, enqueue>>
        BY <2>2, <3>1, ThreadsApart DEF PopLook, Goto, ring, LogInv, LogTyped
      <4> QED BY <2>2, <4>1, QuietRing
    <3>2. CASE PopClaim
      BY <2>2, <3>2, ThreadsApart DEF PopClaim, Goto, LogInv, LogTyped
    <3>3. CASE PopRead
      BY <2>2, <3>3, ThreadsApart DEF PopRead, Goto, LogInv, LogTyped
    <3> QED BY <1>3, <3>1, <3>2, <3>3
  <2> QED BY <1>0, <2>0, <2>1, <2>2 DEF Ended
<1>4. CASE Emit
  <2>0. /\ \A w \in Writers : pc'[w] = pc[w]
        /\ pc'[Drainer] = "idle" /\ pc[Drainer] = "emit" /\ reported' = dropped /\ stop # "closed"
        /\ stop' \in {stop, "closed"} /\ (stop' = "closed" => stop = "joined")
        /\ UNCHANGED <<enqueue, owed, claimed, dropped>>
    BY <1>0, <1>4, ThreadsApart DEF Emit, Goto, Ended, LogInv, LogTyped, ring, flushing
  <2>1. stop # "no" => enqueue <= Len(written') + owed
    <3>1. PICK n, m \in Nat : n = Len(written) /\ m = Len(batch)
      BY TraceTypes
    <3>2. Len(written') = n + m
      BY <1>4, <3>1, TraceTypes, ConcatProperties DEF Emit
    <3>3. owed \in Nat /\ enqueue \in Nat
      BY DEF LogInv, LogTyped
    <3>4. enqueue <= n + owed => enqueue <= n + m + owed
      BY <3>3
    <3> QED BY <1>0, <3>1, <3>2, <3>4 DEF Ended
  <2>2. stop' = "closed" /\ owed <= Burst => written' = claimed
    BY <1>4, <2>0, LastEmit
  <2>3. stop' # "no" => stop # "no"
    BY <2>0
  <2> QED BY <1>0, <2>0, <2>1, <2>2, <2>3 DEF Ended
<1>5. CASE Flushing
  <2>1. /\ \A w \in Writers : pc'[w] = pc[w]
        /\ pc'[Drainer] = pc[Drainer]
    BY <1>5, ThreadsApart DEF Flushing, FlushBegin, FlushReturns, FlushGivesUp, Goto, LogInv, LogTyped
  <2>2. UNCHANGED <<enqueue, dequeue, written, batch, claimed, reported, dropped, stop, owed>>
    BY <1>5 DEF Flushing, FlushBegin, FlushReturns, FlushGivesUp, ring, flushing
  <2> QED BY <1>0, <2>1, <2>2 DEF Ended
<1>6. CASE Stop
  <2>1. /\ \A w \in Writers : pc'[w] = "idle"
        /\ stop' = "stopping" /\ owed' = Len(claimed) - Len(written) /\ UNCHANGED <<enqueue, written>>
    BY <1>6 DEF Stop, ring
  <2>2. PICK n \in Nat : n = Len(written)
    BY TraceTypes
  <2>3. enqueue \in Nat /\ Len(claimed) = enqueue
    BY TraceTypes
  <2>4. enqueue <= n + (enqueue - n)
    BY <2>3
  <2> QED BY <2>1, <2>2, <2>3, <2>4 DEF Ended
<1>7. CASE Join
  <2>1. /\ \A w \in Writers : pc'[w] = pc[w]
        /\ pc'[Drainer] = "look" /\ stop' = "joined" /\ stop # "no" /\ UNCHANGED <<enqueue, written, owed>>
    BY <1>7, ThreadsApart DEF Join, Goto, LogInv, LogTyped, ring, flushing
  <2> QED BY <1>0, <2>1 DEF Ended
<1>8. CASE Closed \/ UNCHANGED vars
  BY <1>0, <1>8 DEF Closed, vars, ring, flushing, Ended
<1> QED BY <1>1, <1>2, <1>3, <1>4, <1>5, <1>6, <1>7, <1>8 DEF Next, Draining

LEMMA LogInvariance ==
    ASSUME LogAssumption
    PROVE  Spec => []LogInv
<1>1. Init => LogInv
  <2> SUFFICES ASSUME Init PROVE LogInv
    OBVIOUS
  <2>0. Slots \in Nat /\ Slots >= 2 /\ Burst \in Nat /\ Burst # 0
    BY DEF LogAssumption
  <2>1. LogTyped
    <3>1. 0 \in Nat /\ \A i \in 0 .. Slots - 1 : i \in Nat
      BY <2>0
    <3>2. <<>> \in Seq(Writers) /\ 0 \in 0 .. 0
      OBVIOUS
    <3> QED BY <3>1, <3>2, ThreadsApart DEF Init, LogTyped
  <2>2. Done = 0
    BY ThreadsApart DEF Init, Done
  <2>3. Placed
    BY <2>0, <2>2, ThreadsApart DEF Init, Placed
  <2>4. Holds
    <3> SUFFICES ASSUME NEW p \in 0 .. 0 + Slots - 1 PROVE p >= enqueue /\ seq[Cell(p)] = p
      BY <2>2 DEF Holds
    <3>1. p \in 0 .. Slots - 1 /\ Cell(p) = p
      BY <2>0 DEF Cell
    <3> QED BY <3>1 DEF Init
  <2>5. \A w \in Writers : WriterAt(w)
    BY ThreadsApart DEF Init, WriterAt
  <2>6. Traced
    BY <2>0, <2>2, ThreadsApart DEF Init, Traced, Trace
  <2>7. Ended
    BY DEF Init, Ended
  <2> QED BY <2>1, <2>3, <2>4, <2>5, <2>6, <2>7 DEF LogInv
<1>2. LogInv /\ [Next]_vars => LogInv'
  BY LogTypedKept, RingKept, TracedKept, EndedKept DEF LogInv, RingInv
<1> QED BY <1>1, <1>2, PTL DEF Spec

\* Two threads at work on cells are at two positions of the window.
LEMMA CellsApart ==
    ASSUME LogAssumption, LogInv
    PROVE  CellsExclusive
<1>0. /\ Done \in Nat /\ dequeue \in Nat /\ enqueue \in Nat /\ Done <= dequeue /\ dequeue <= enqueue
      /\ enqueue <= Done + Slots /\ Slots \in Nat
  BY TraceTypes DEF LogInv, Placed, LogAssumption
<1>1. ASSUME NEW w \in Writers, pc[w] = "write"
      PROVE  at[w] \in Done .. Done + Slots - 1 /\ claimed[at[w] + 1] = w /\ dequeue <= at[w]
  <2>1. at[w] \in Nat /\ dequeue <= at[w] /\ at[w] < enqueue /\ claimed[at[w] + 1] = w
    BY <1>1, ThreadsApart DEF LogInv, LogTyped, WriterAt
  <2> QED BY <1>0, <2>1
<1>2. ASSUME pc[Drainer] = "read"
      PROVE  at[Drainer] \in Done .. Done + Slots - 1 /\ at[Drainer] < dequeue
  <2>1. at[Drainer] = Done /\ Done = dequeue - 1
    BY <1>2 DEF LogInv, Placed, Done
  <2> QED BY <1>0, <2>1 DEF LogAssumption
<1>3. ASSUME NEW t \in Threads, pc[t] \in {"write", "read"}
      PROVE  (t \in Writers /\ pc[t] = "write") \/ (t = Drainer /\ pc[t] = "read")
  BY <1>3 DEF Threads, LogInv, LogTyped
<1>4. ASSUME NEW t \in Threads, NEW u \in Threads, t # u, pc[t] \in {"write", "read"}, pc[u] \in {"write", "read"}
      PROVE  Cell(at[t]) # Cell(at[u])
  <2>1. at[t] \in Done .. Done + Slots - 1 /\ at[u] \in Done .. Done + Slots - 1
    BY <1>1, <1>2, <1>3, <1>4
  <2>2. at[t] # at[u]
    <3>1. CASE t \in Writers /\ pc[t] = "write" /\ u \in Writers /\ pc[u] = "write"
      BY <1>1, <1>4, <3>1
    <3>2. CASE t \in Writers /\ pc[t] = "write" /\ u = Drainer /\ pc[u] = "read"
      BY <1>0, <1>1, <1>2, <2>1, <3>2
    <3>3. CASE t = Drainer /\ pc[t] = "read" /\ u \in Writers /\ pc[u] = "write"
      BY <1>0, <1>1, <1>2, <2>1, <3>3
    <3> QED BY <1>3, <1>4, <3>1, <3>2, <3>3
  <2> QED BY <1>0, <2>1, <2>2, WindowApart
<1> QED BY <1>4 DEF CellsExclusive

LEMMA LogIsSound ==
    ASSUME LogAssumption, LogInv
    PROVE  TypeOK /\ LogSound
<1>1. TypeOK
  BY DEF TypeOK, LogInv, LogTyped, Traced
<1>2. InOrder
  <2>1. PICK s : s = written \o batch
    OBVIOUS
  <2>2. /\ s \in Seq(Writers) /\ claimed \in Seq(Writers) /\ Len(s) = Done /\ Done \in Nat
        /\ Done <= Len(claimed) /\ Len(claimed) \in Nat
        /\ \A i \in 1 .. Done : s[i] = claimed[i]
    <3>1. s \in Seq(Writers) /\ claimed \in Seq(Writers) /\ Len(s) = Done /\ Done \in Nat
          /\ Len(claimed) = enqueue /\ enqueue \in Nat /\ Done <= enqueue
      <4>1. Done \in Nat /\ dequeue \in Nat /\ enqueue \in Nat /\ Done <= dequeue /\ dequeue <= enqueue
        BY TraceTypes
      <4>2. Done <= enqueue
        BY <4>1
      <4> QED BY <2>1, <4>1, <4>2, TraceTypes
    <3>2. \A i \in 1 .. Done : s[i] = claimed[i]
      BY <2>1 DEF LogInv, Traced, Trace
    <3> QED BY <3>1, <3>2
  <2>3. SubSeq(s, 1, Len(s)) = SubSeq(claimed, 1, Len(s))
    <3>1. \A i \in 1 .. Done : s[i] \in Writers /\ claimed[i] \in Writers
      BY <2>2
    <3>2. /\ SubSeq(s, 1, Done) \in Seq(Writers) /\ SubSeq(claimed, 1, Done) \in Seq(Writers)
          /\ Len(SubSeq(s, 1, Done)) = Done /\ Len(SubSeq(claimed, 1, Done)) = Done
          /\ \A i \in 1 .. Done : SubSeq(s, 1, Done)[i] = s[i] /\ SubSeq(claimed, 1, Done)[i] = claimed[i]
      BY <2>2, <3>1
    <3> QED BY <2>2, <3>2, SeqEqual
  <2> QED BY <2>1, <2>2, <2>3 DEF InOrder, IsPrefix
<1>3. ClosesComplete
  BY DEF LogInv, Ended, ClosesComplete
<1>4. FlushReaches
  <2>1. PICK n, m \in Nat : n = Len(written) /\ m = Len(batch)
    BY TraceTypes
  <2>2. n + m = Done /\ flushed \in Nat /\ dequeue \in Nat /\ flushed <= dequeue
    BY <2>1, TraceTypes DEF LogInv, Traced
  <2>3. CASE pc[Drainer] = "read"
    <3>1. n + m = dequeue - 1
      BY <2>2, <2>3 DEF Done
    <3>2. flushed <= n + m + 1
      BY <2>2, <3>1
    <3> QED BY <2>1, <2>3, <3>2 DEF FlushReaches
  <2>4. CASE pc[Drainer] # "read"
    <3>1. flushed <= n + m + 0
      BY <2>2, <2>4 DEF Done
    <3> QED BY <2>1, <2>4, <3>1 DEF FlushReaches
  <2> QED BY <2>3, <2>4
<1> QED BY <1>1, <1>2, <1>3, <1>4, CellsApart DEF LogSound

-----------------------------------------------------------------------------
(* Proofs.  The four together: a behaviour of the composition is one of each. *)

ASSUME ThreadsAssumption ==
    LogAssumption /\ TasksAssumption /\ None \notin Relays /\ Capacity \in Nat /\ MaxSent \in Nat

LEMMA EachAlone == MCSpec => Spec /\ Tasks!Spec /\ Relay!Spec /\ Runner!Spec
<1>1. MCInit => Init /\ Tasks!Init /\ Relay!Init /\ Runner!Init
  BY DEF MCInit
<1>2. [MCNext]_allVars => /\ [Next]_vars /\ [Tasks!Next]_Tasks!taskVars
                          /\ [Relay!Next]_Relay!relayVars /\ [Runner!Next]_Runner!workerVars
  <2> SUFFICES ASSUME [MCNext]_allVars
               PROVE  /\ [Next]_vars /\ [Tasks!Next]_Tasks!taskVars
                      /\ [Relay!Next]_Relay!relayVars /\ [Runner!Next]_Runner!workerVars
    OBVIOUS
  <2>1. UNCHANGED tasks => UNCHANGED Tasks!taskVars
    BY DEF tasks, Tasks!taskVars
  <2>2. UNCHANGED relay => UNCHANGED Relay!relayVars
    BY DEF relay, Relay!relayVars
  <2>3. UNCHANGED runner => UNCHANGED Runner!workerVars
    BY DEF runner, Runner!workerVars
  <2>4. CASE MCNext
    BY <2>1, <2>2, <2>3, <2>4 DEF MCNext
  <2>5. CASE UNCHANGED allVars
    BY <2>1, <2>2, <2>3, <2>5 DEF allVars
  <2> QED BY <2>4, <2>5
<1> QED BY <1>1, <1>2, PTL DEF MCSpec, Spec, Tasks!Spec, Relay!Spec, Runner!Spec

\* The same operator, by the name the instance gives it.
LEMMA SameCount == ASSUME NEW S PROVE Tasks!Cardinality(S) = Cardinality(S)
BY DEF Cardinality, Tasks!Cardinality

LEMMA TasksAreTyped == ASSUME TasksAssumption, TasksTyped PROVE Tasks!TypeOK
<1>1. queued \in [Tasks!Lanes -> 0 .. MaxPosts]
  <2>1. Tasks!Lanes = {"main", "background", "serial"} /\ queued \in [Tasks!Lanes -> Nat]
    BY DEF Tasks!Lanes, TasksTyped
  <2>2. posts \in 0 .. MaxPosts /\ MaxPosts \in Nat /\ Waiting <= posts
    BY DEF TasksTyped, TasksAssumption
  <2>3. queued["main"] <= MaxPosts /\ queued["background"] <= MaxPosts /\ queued["serial"] <= MaxPosts
    BY <2>2, WaitingType DEF Waiting
  <2> QED BY <2>1, <2>3
<1>2. \A t \in Tasks!Threads : \A i \in DOMAIN stack[t] : stack[t][i] \in {"body", "dead"}
  <2> SUFFICES ASSUME NEW t \in Tasks!Threads, NEW i \in DOMAIN stack[t] PROVE stack[t][i] \in {"body", "dead"}
    OBVIOUS
  <2>1. stack[t] \in Seq({"body", "dead"}) /\ i \in 1 .. Len(stack[t])
    BY InsideLength
  <2> QED BY <2>1, ElementOfSeq
<1>3. \A t \in Tasks!Threads :
         Len(stack[t]) <= 2 /\ \A i \in DOMAIN stack[t] : stack[t][i] \in {"body", "dead"}
  BY <1>2 DEF TasksTyped
<1>4. /\ closed \in BOOLEAN /\ running = Cardinality(Tasks!InsideOf(stack))
      /\ call \in [Tasks!Threads -> Tasks!Calls] /\ discarded \in [Tasks!Threads -> 0 .. MaxPosts]
      /\ handle \in [Tasks!Own -> {"joinable", "joined", "detached"}]
      /\ exited \subseteq Tasks!Own /\ returned \subseteq Tasks!Threads \X BOOLEAN /\ posts \in 0 .. MaxPosts
  BY DEF TasksTyped
<1> QED BY <1>1, <1>3, <1>4, SameCount DEF Tasks!TypeOK

\* The log, the task manager, the relays and the worker's runner are well typed; among them, the task manager's
\* count is that of the tasks being run, and what is live of the relays stays registered with the window's timer.
THEOREM ThreadsTyped == MCSpec => []AllTyped
<1>1. LogInv => TypeOK
  BY ThreadsAssumption, LogIsSound
<1>2. TasksInv => Tasks!TypeOK
  BY ThreadsAssumption, TasksAreTyped DEF TasksInv
<1>3. RelayInv => Relay!TypeOK /\ Relay!Registered
  <2>1. Framed => \A i \in DOMAIN frames : frames[i].now \in Relays \cup {None}
    <3> SUFFICES ASSUME NEW D, frames \in Seq(FramesOver(D)), NEW i \in DOMAIN frames
                 PROVE  frames[i].now \in Relays \cup {None}
      BY DEF Framed
    <3>1. i \in 1 .. Len(frames)
      OBVIOUS
    <3>2. frames[i] \in FramesOver(D)
      BY <3>1, ElementOfSeq
    <3> QED BY <3>2 DEF FramesOver
  <2> QED BY <2>1 DEF RelayInv, RelayTyped, Relay!TypeOK
<1>4. RunnerInv => Runner!TypeOK
  BY DEF RunnerInv
<1>5. /\ Spec => []LogInv
      /\ Tasks!Spec => []TasksInv
      /\ Relay!Spec => []RelayInv
      /\ Runner!Spec => []RunnerInv
  BY ThreadsAssumption, LogInvariance, TasksInvariance, RelayInvariance, RunnerInvariance
<1> QED BY <1>1, <1>2, <1>3, <1>4, <1>5, EachAlone, PTL DEF AllTyped

\* One thread at a time is in a cell of the log's ring; what the sinks have, and are about to have, are the records in
\* the order of the claims, none missing; the end of the process loses none of up to a batch; and what a flush
\* vouched for is written, or in the drainer's hands.
THEOREM LogKept == MCSpec => []LogSound
<1>1. LogInv => LogSound
  BY ThreadsAssumption, LogIsSound
<1>2. Spec => []LogInv
  BY ThreadsAssumption, LogInvariance
<1> QED BY <1>1, <1>2, EachAlone, PTL

\* What is stopped is still: a relay calls nobody, the worker is in no handler, and no task of the manager's runs, waits
\* or is kept.
THEOREM NothingAfterStop == MCSpec => []StopIsFinal
<1>1. TasksInv => Tasks!NothingRuns
  BY DEF TasksInv
<1>2. RelayInv => Relay!StopIsFinal
  BY DEF RelayInv, PastTheLock, Relay!StopIsFinal
<1>3. RunnerInv => Runner!QuietOnceStopped
  BY DEF RunnerInv, Runner!QuietOnceStopped
<1>4. /\ Tasks!Spec => []TasksInv
      /\ Relay!Spec => []RelayInv
      /\ Runner!Spec => []RunnerInv
  BY ThreadsAssumption, TasksInvariance, RelayInvariance, RunnerInvariance
<1> QED BY <1>1, <1>2, <1>3, <1>4, EachAlone, PTL DEF StopIsFinal

=============================================================================
