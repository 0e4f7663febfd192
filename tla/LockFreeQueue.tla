--------------------------- MODULE LockFreeQueue ---------------------------
(***************************************************************************)
(* tiny::Lock_free_queue in its four kinds.  push and pop are one          *)
(* algorithm: a thread of one side takes the position its side is at, asks *)
(* how far the other side lets it go, and accesses the slot.  A side of    *)
(* one thread moves its position after the access.  A side of many claims  *)
(* the position first, and publishes in `temp` a position no later than    *)
(* the one it is accessing, for the other side to stay clear of.           *)
(*                                                                         *)
(* Every access of a shared word is a step of its own.  A call that        *)
(* refuses before it has written anything is a stutter.  The store of      *)
(* `temp` is a release and the exchange after it is relaxed: nothing       *)
(* orders the two, so other threads may see the position taken first.      *)
(***************************************************************************)
EXTENDS Naturals, Sequences

CONSTANTS Writers, Readers,
          Values,
          None,       \* a slot, or an output, never written
          Away,       \* numeric_limits::max: the thread is not in scope
          Slots,      \* num_slots
          Kinds,      \* which queues are checked, see Kind
          MaxPushes   \* bound: positions given out to writers

Threads == Writers \cup Readers
Sides == {"push", "pop"}
Side(t) == IF t \in Writers THEN "push" ELSE "pop"

\* The sides used by several threads, the threads that use the queue, what each
\* pushes, how many a registry has room for, and (a bound) the threads whose stores may
\* be seen late.
Kind == [many : SUBSET Sides, threads : SUBSET Threads,
         pushes : [Writers -> SUBSET Values], capacity : Nat, slow : SUBSET Threads]

QueueAssumption == /\ Slots \in Nat \ {0} /\ MaxPushes \in Nat
                   /\ Writers \cap Readers = {}
                   /\ None \notin Values /\ Away \notin Nat
                   /\ Kinds \subseteq Kind
                   /\ \A k \in Kinds : \A t, u \in k.threads :  \* one thread is one
                         Side(t) = Side(u) /\ Side(t) \notin k.many => t = u

VARIABLES kind,
          pos,       \* _wpos and _rpos
          storage,
          registry,  \* per side, the threads of the registry in slot order
          temp,      \* Thread_info::pos
          late,      \* what a thread has stored in temp that no other can see yet, or Away
          unseen,    \* threads that took their position before that was seen
          overtaken, \* history: was any position taken so
          pc, at,    \* a thread's program counter, and `pos` in the code
          least,     \* the other side's position, or the least of its threads
          toScan,    \* what get_least_position has not looked at yet
          value      \* the argument of push, the output of pop

shared == <<pos, storage, registry, temp, late, unseen, overtaken>>
locals == <<pc, at, least, toScan, value>>
vars == <<kind, shared, locals>>

Other(t) == IF t \in Writers THEN "pop" ELSE "push"
Crowded(side) == side \in kind.many

\* A writer may be a whole buffer ahead of the readers, a reader not ahead at all.
Limit(t, bound) == IF t \in Writers THEN bound + Slots ELSE bound

Slot(p) == p % Slots

Registered(t) == \E i \in 1 .. Len(registry[Side(t)]) : registry[Side(t)][i] = t

Init ==
    /\ kind \in Kinds
    /\ pos = [s \in Sides |-> 0]
    /\ storage = [i \in 0 .. Slots - 1 |-> None]
    /\ registry = [s \in Sides |-> <<>>]
    /\ temp = [t \in Threads |-> Away]
    /\ late = [t \in Threads |-> Away]
    /\ unseen = {} /\ overtaken = FALSE
    /\ pc = [t \in Threads |-> "idle"]
    /\ at = [t \in Threads |-> 0]
    /\ least = [t \in Threads |-> 0]
    /\ toScan = [t \in Threads |-> <<>>]
    /\ value = [t \in Threads |-> None]

\* On to the next step; or out of the call, whose locals end with it.
Goto(t, label) == pc' = [pc EXCEPT ![t] = label]

Return(t) == /\ Goto(t, "idle")
             /\ at' = [at EXCEPT ![t] = 0]
             /\ least' = [least EXCEPT ![t] = 0]

-----------------------------------------------------------------------------
(* The call begins.                                                          *)

\* A thread's first get_own_position; one that finds the registry full is refused.
Register(t) ==
    /\ pc[t] = "idle" /\ Crowded(Side(t)) /\ ~Registered(t)
    /\ Len(registry[Side(t)]) < kind.capacity
    /\ registry' = [registry EXCEPT ![Side(t)] = Append(@, t)]
    /\ UNCHANGED <<kind, pos, storage, temp, late, unseen, overtaken, locals>>

Begin(t) ==
    /\ pc[t] = "idle"
    /\ Crowded(Side(t)) => Registered(t)
    /\ at' = [at EXCEPT ![t] = pos[Side(t)]]
    /\ Goto(t, "bound")
    /\ UNCHANGED <<kind, shared, least, toScan>>

PushBegin(t, v) == /\ t \in Writers /\ v \in kind.pushes[t]
                   /\ pos["push"] < MaxPushes
                   /\ Begin(t)
                   /\ value' = [value EXCEPT ![t] = v]

PopBegin(t) == t \in Readers /\ Begin(t) /\ UNCHANGED value

-----------------------------------------------------------------------------
(* How far the other side lets this thread go.                               *)

\* Mutant: a writer may be one position further ahead.
AdmitOneMore(t, bound) ==
    IF at[t] > Limit(t, bound) THEN Return(t)
    ELSE /\ Goto(t, IF Crowded(Side(t)) THEN "enter" ELSE "access")
         /\ least' = [least EXCEPT ![t] = IF Crowded(Other(t)) THEN bound ELSE 0]
         /\ UNCHANGED at

\* Return if empty, or full, at this moment.
Admit(t, bound) ==
    IF at[t] >= Limit(t, bound) THEN Return(t)
    ELSE /\ Goto(t, IF Crowded(Side(t)) THEN "enter" ELSE "access")
         /\ least' = [least EXCEPT ![t] = IF Crowded(Other(t)) THEN bound ELSE 0]
         /\ UNCHANGED at

LoadBound(t) ==
    /\ pc[t] = "bound"
    /\ IF Crowded(Other(t))
       THEN /\ least' = [least EXCEPT ![t] = pos[Other(t)]]
            /\ Goto(t, "count") /\ UNCHANGED at
       ELSE Admit(t, pos[Other(t)])
    /\ UNCHANGED <<kind, shared, toScan, value>>

\* get_least_position: how many infos there are...
LoadCount(t) ==
    /\ pc[t] = "count"
    /\ toScan' = [toScan EXCEPT ![t] = registry[Other(t)]]
    /\ IF registry[Other(t)] = <<>> THEN Admit(t, least[t])
       ELSE Goto(t, "scan") /\ UNCHANGED <<at, least>>
    /\ UNCHANGED <<kind, shared, value>>

\* ...and then each in turn.
Scan(t) ==
    /\ pc[t] = "scan"
    /\ LET seen == temp[Head(toScan[t])]
           bound == IF seen # Away /\ seen < least[t] THEN seen ELSE least[t]
       IN IF Len(toScan[t]) = 1 THEN Admit(t, bound)
          ELSE least' = [least EXCEPT ![t] = bound] /\ UNCHANGED <<pc, at>>
    /\ toScan' = [toScan EXCEPT ![t] = Tail(@)]
    /\ UNCHANGED <<kind, shared, value>>

-----------------------------------------------------------------------------
(* A side of many claims its position.                                       *)

\* Mutant: a thread is in scope only once it has claimed its position.
EnterLate(t) ==
    /\ pc[t] = "enter"
    /\ Goto(t, "claim")
    /\ UNCHANGED <<kind, shared, at, least, toScan, value>>

\* A release store of the position, seen by the others at once or later.  (A thread counted
\* late by get_least_position, which loads the count relaxed, comes to the same.)
Publish(t) ==
    \/ temp' = [temp EXCEPT ![t] = at[t]] /\ late' = [late EXCEPT ![t] = Away]
    \/ /\ t \in kind.slow
       /\ late' = [late EXCEPT ![t] = at[t]] /\ UNCHANGED temp

\* Enter "scope" with a "low enough" position.
Enter(t) ==
    /\ pc[t] = "enter"
    /\ Publish(t)
    /\ Goto(t, "claim")
    /\ UNCHANGED <<kind, pos, storage, registry, unseen, overtaken, at, least, toScan, value>>

\* The others see the store.
Land(t) ==
    /\ late[t] # Away
    /\ temp' = [temp EXCEPT ![t] = late[t]] /\ late' = [late EXCEPT ![t] = Away]
    /\ UNCHANGED <<kind, pos, storage, registry, unseen, overtaken, locals>>

\* The exchange is relaxed: it does not wait for the store to be seen.
Claim(t) ==
    /\ pc[t] \in {"claim", "reclaim"} /\ pos[Side(t)] = at[t]
    /\ pos' = [pos EXCEPT ![Side(t)] = @ + 1]
    /\ IF late[t] = Away THEN UNCHANGED <<unseen, overtaken>>
       ELSE unseen' = unseen \cup {t} /\ overtaken' = TRUE
    /\ Goto(t, IF pc[t] = "claim" THEN "access" ELSE "settle")
    /\ UNCHANGED <<kind, storage, registry, temp, late, at, least, toScan, value>>

\* Another thread was faster, or the weak exchange failed for no reason.
ClaimFails(t) ==
    /\ pc[t] \in {"claim", "reclaim"}
    /\ at' = [at EXCEPT ![t] = pos[Side(t)]]
    /\ Goto(t, "again")
    /\ UNCHANGED <<kind, shared, least, toScan, value>>

\* Exit "scope", after whatever store of temp was not seen yet.
Exit(t) == /\ temp' = [temp EXCEPT ![t] = Away] /\ late' = [late EXCEPT ![t] = Away]
           /\ unseen' = unseen \ {t}

\* Possible someone else took the last: against a single thread the bound is read
\* again, against many it is the one of the first look.
Again(t) ==
    /\ pc[t] = "again"
    /\ LET bound == IF Crowded(Other(t)) THEN least[t] ELSE pos[Other(t)]
       IN IF at[t] >= Limit(t, bound) THEN Exit(t) /\ Return(t)
          ELSE Goto(t, "reclaim") /\ UNCHANGED <<at, least, temp, late, unseen>>
    /\ UNCHANGED <<kind, pos, storage, registry, overtaken, toScan, value>>

\* Got our position.
Settle(t) ==
    /\ pc[t] = "settle"
    /\ Publish(t)
    /\ Goto(t, "access")
    /\ UNCHANGED <<kind, pos, storage, registry, unseen, overtaken, at, least, toScan, value>>

-----------------------------------------------------------------------------
(* The slot.  The copy takes the whole of "access", and ends with the store  *)
(* that lets the other side have the slot: of the position, or of temp.      *)

Access(t) ==
    /\ pc[t] = "access"
    /\ IF t \in Writers
       THEN storage' = [storage EXCEPT ![Slot(at[t])] = value[t]] /\ UNCHANGED value
       ELSE value' = [value EXCEPT ![t] = storage[Slot(at[t])]] /\ UNCHANGED storage
    /\ IF Crowded(Side(t)) THEN Exit(t) /\ UNCHANGED pos
       ELSE pos' = [pos EXCEPT ![Side(t)] = at[t] + 1] /\ UNCHANGED <<temp, late, unseen>>
    /\ Return(t)
    /\ UNCHANGED <<kind, registry, overtaken, toScan>>

-----------------------------------------------------------------------------
\* One step of a call under way.
Step(t) == \/ LoadBound(t) \/ LoadCount(t) \/ Scan(t)
           \/ Enter(t) \/ Claim(t) \/ ClaimFails(t) \/ Again(t) \/ Settle(t)
           \/ Access(t)

Next == \E t \in kind.threads :
            \/ Register(t) \/ (\E v \in Values : PushBegin(t, v)) \/ PopBegin(t)
            \/ Step(t) \/ Land(t)

Spec == Init /\ [][Next]_vars

\* Threads keep running, a weak exchange does not fail for no reason forever, and
\* the readers keep asking.
Runs(t) == Step(t) \/ Register(t) \/ PopBegin(t)
Fairness == \A t \in Threads : /\ WF_vars(t \in kind.threads /\ Runs(t))
                              /\ SF_vars(t \in kind.threads /\ Claim(t))
FairSpec == Spec /\ Fairness

-----------------------------------------------------------------------------
Calls == {"idle", "bound", "count", "scan", "enter", "claim", "again", "reclaim",
          "settle", "access"}

TypeOK ==
    /\ kind \in Kinds
    /\ pos \in [Sides -> Nat]
    /\ storage \in [0 .. Slots - 1 -> Values \cup {None}]
    /\ registry \in [Sides -> Seq(Threads)]
    /\ \A s \in Sides : Len(registry[s]) <= kind.capacity
    /\ temp \in [Threads -> Nat \cup {Away}] /\ late \in [Threads -> Nat \cup {Away}]
    /\ unseen \subseteq Threads /\ overtaken \in BOOLEAN
    /\ pc \in [Threads -> Calls]
    /\ at \in [Threads -> Nat] /\ least \in [Threads -> Nat]
    /\ toScan \in [Threads -> Seq(Threads)]
    /\ value \in [Threads -> Values \cup {None}]

\* t accesses its position, and the others saw its scope before it was taken.
Seen(t) == pc[t] = "access" /\ t \notin unseen

\* u is to wait for t: its position is the lower one, or the one u is to read, or they have the same.
Before(t, u) == at[t] < at[u] \/ (at[t] = at[u] /\ (t \in Writers \/ u \in Readers))

\* "Make sure we're not going to pop from a position that is being written", and
\* there are no readers "reading where we want to write": nobody gets into the slot of a
\* thread that is not done with it, nor has its position.  The exception is a thread whose
\* relaxed exchange was seen before its release store of `temp`: it is not waited for.
SlotsExclusive ==
    \A t, u \in Threads :
        t # u /\ Seen(t) /\ pc[u] = "access" /\ Before(t, u) => Slot(at[t]) # Slot(at[u])

\* A thread of a side of many has claimed its position, and is not done with it.
Claimed(t) == Crowded(Side(t)) /\ pc[t] \in {"settle", "access"}

\* What a claimed position holds, or will once its writer is done.
Writing(p) == {w \in Writers : Claimed(w) /\ at[w] = p}
Content(p) == IF Writing(p) # {} THEN value[CHOOSE w \in Writing(p) : TRUE] ELSE storage[Slot(p)]

Contents == [i \in 1 .. pos["push"] - pos["pop"] |-> Content(pos["pop"] + i - 1)]

Popped == [r \in Readers |-> IF Claimed(r) THEN Content(at[r]) ELSE value[r]]

Queue == INSTANCE Fifo WITH queue <- Contents, popped <- Popped, Capacity <- Slots

\* Whatever its kind, it is a queue until a position is seen taken before its taker's scope is:
\* each value pushed is popped by one reader, in the order the pushes took effect.
Refines == Queue!FifoInit /\ [][Queue!FifoNext \/ overtaken']_<<Contents, Popped>>

\* A pop may find a claimed position not written yet and refuse, but nothing is
\* stuck for good: once no more is pushed, everything pushed is popped.
Drains == <>[](pos["push"] = pos["pop"])

=============================================================================
