------------------------ MODULE LockFreeQueueProofs ------------------------
(***************************************************************************)
(* For every number of writers, readers and slots, in all four kinds of    *)
(* Lock_free_queue, whichever threads' stores are seen late: nobody gets   *)
(* into the slot of a thread whose scope was seen before its position was  *)
(* taken; and until a position is taken before that, it is a queue.        *)
(***************************************************************************)
EXTENDS LockFreeQueue, SequenceTheorems, TLAPS

\* How far a side may be when the other side is at p.
Reach(side, p) == IF side = "push" THEN p + Slots ELSE p

\* A thread has a position that is nobody else's: it has claimed it, or it is its
\* side's only thread.
Holds(t) == IF Crowded(Side(t)) THEN pc[t] \in {"settle", "access"} ELSE pc[t] # "idle"

\* Its scope was seen before its position was taken, so the other side stays clear of it.
Shielded(t) == Holds(t) /\ t \notin unseen

\* It has looked how far the other side lets it go, and this is what it found.
Looked(t) == pc[t] \in {"enter", "claim", "again", "reclaim", "settle", "access"}
Floor(t) == IF Crowded(Other(t)) THEN least[t] ELSE pos[Other(t)]

\* What a thread in a call knows of its own position and of the other side's.
Own(t) ==
    /\ pc[t] # "idle" => /\ t \in kind.threads
                         /\ at[t] <= pos[Side(t)]
                         /\ Crowded(Side(t)) => Registered(t)
                         /\ ~Crowded(Side(t)) => at[t] = pos[Side(t)]
    /\ pc[t] \in {"enter", "claim", "again", "reclaim", "settle"} => Crowded(Side(t))
    /\ Crowded(Side(t)) /\ pc[t] \in {"claim", "again", "reclaim"} /\ late[t] = Away =>
          temp[t] \in Nat /\ temp[t] <= at[t]
    /\ Crowded(Side(t)) /\ Shielded(t) => temp[t] \in Nat /\ temp[t] <= at[t]
    /\ late[t] # Away => /\ Crowded(Side(t)) /\ pc[t] \in {"claim", "again", "reclaim", "settle", "access"}
                         /\ late[t] \in Nat /\ late[t] <= at[t]
    /\ Crowded(Side(t)) /\ pc[t] \in {"settle", "access"} => at[t] < pos[Side(t)]
    /\ pc[t] \in {"count", "scan"} => Crowded(Other(t)) /\ least[t] <= pos[Other(t)]
    /\ pc[t] = "scan" => toScan[t] # <<>>
    /\ Looked(t) => Floor(t) <= pos[Other(t)]
    /\ Looked(t) /\ pc[t] # "again" => at[t] < Limit(t, Floor(t))
    /\ Shielded(t) => pos[Other(t)] <= Reach(Other(t), at[t])

\* What it knows of another thread: not at the same position; not below what it
\* found, once it has looked; and while it looks, yet to be looked at if below.
Pair(t, u) ==
    /\ t # u /\ Side(t) = Side(u) /\ Holds(t) /\ Holds(u) => at[t] # at[u]
    /\ Side(t) # Side(u) /\ Shielded(u) /\ Looked(t) => Floor(t) <= at[u]
    /\ Side(t) # Side(u) /\ Shielded(u) /\ pc[t] = "scan" /\ at[u] < least[t] =>
          \E i \in 1 .. Len(toScan[t]) : toScan[t][i] = u

\* Neither side is further than the other allows.
Abreast == \A s, r \in Sides : s # r => pos[s] <= Reach(s, pos[r])

\* A position taken before its scope was seen is counted.
Counted == ~overtaken => unseen = {}

QInv == /\ TypeOK /\ Counted /\ Abreast
        /\ \A t \in Threads : Own(t)
        /\ \A t, u \in Threads : Pair(t, u)

LEMMA SideType ==
    ASSUME QueueAssumption, NEW t \in Threads
    PROVE  /\ Side(t) \in Sides /\ Other(t) \in Sides /\ Side(t) # Other(t)
           /\ t \in Writers <=> Side(t) = "push"
           /\ \A u \in Threads : Side(u) # Side(t) <=> Side(u) = Other(t)
BY DEF Side, Other, Sides, Threads

LEMMA SlotType ==
    ASSUME QueueAssumption, NEW p \in Nat
    PROVE  Slot(p) \in 0 .. Slots - 1
BY DEF Slot, QueueAssumption

LEMMA SlotsApart ==
    ASSUME NEW S \in Nat \ {0}, NEW p \in Nat, NEW q \in Nat, p < q, q < p + S
    PROVE  p % S # q % S
<1> SUFFICES ASSUME p % S = q % S PROVE FALSE
  OBVIOUS
<1>1. p = S * (p \div S) + (p % S) /\ q = S * (q \div S) + (q % S)
  OBVIOUS
<1>2. (p \div S) \in Int /\ (q \div S) \in Int
  OBVIOUS
<1> DEFINE k == (q \div S) - (p \div S)
<1>3. k \in Int /\ q - p = S * k
  BY <1>1, <1>2
<1> HIDE DEF k
<1>4. k >= 1 => S * k >= S
  BY <1>3
<1>5. k <= 0 => S * k <= 0
  BY <1>3
<1> QED BY <1>3, <1>4, <1>5

-----------------------------------------------------------------------------
(* Type correctness *)

LEMMA InitType == QueueAssumption /\ Init => TypeOK
<1> SUFFICES ASSUME QueueAssumption, Init PROVE TypeOK
  OBVIOUS
<1>1. kind \in Kinds /\ kind.capacity \in Nat
  BY DEF Init, QueueAssumption, Kind
<1>2. <<>> \in Seq(Threads) /\ Len(<<>>) = 0
  OBVIOUS
<1>3. late \in [Threads -> Nat \cup {Away}] /\ unseen \subseteq Threads /\ overtaken \in BOOLEAN
  BY DEF Init
<1> QED BY <1>1, <1>2, <1>3 DEF Init, TypeOK, Calls

LEMMA ReturnType ==
    ASSUME TypeOK, NEW t \in Threads, Return(t)
    PROVE  /\ pc' \in [Threads -> Calls]
           /\ at' \in [Threads -> Nat] /\ least' \in [Threads -> Nat]
BY DEF Return, Goto, TypeOK, Calls

LEMMA AdmitType ==
    ASSUME TypeOK, NEW t \in Threads, NEW bound \in Nat, Admit(t, bound)
    PROVE  /\ pc' \in [Threads -> Calls]
           /\ at' \in [Threads -> Nat] /\ least' \in [Threads -> Nat]
<1>1. CASE at[t] >= Limit(t, bound)
  BY <1>1, ReturnType DEF Admit
<1>2. CASE ~(at[t] >= Limit(t, bound))
  <2>1. PICK n \in Nat : least' = [least EXCEPT ![t] = n]
    BY <1>2 DEF Admit
  <2>2. PICK label \in Calls : pc' = [pc EXCEPT ![t] = label]
    BY <1>2 DEF Admit, Goto, Calls
  <2>3. at' = at
    BY <1>2 DEF Admit
  <2> QED BY <2>1, <2>2, <2>3 DEF TypeOK
<1> QED BY <1>1, <1>2

LEMMA StepType ==
    ASSUME QueueAssumption, TypeOK, NEW t \in Threads, Step(t), pc[t] = "scan" => toScan[t] # <<>>
    PROVE  TypeOK'
<1>s. Side(t) \in Sides /\ Other(t) \in Sides /\ pos[Side(t)] \in Nat /\ pos[Other(t)] \in Nat
  BY SideType DEF TypeOK
<1>a. CASE LoadBound(t)
  <2>1. CASE Crowded(Other(t))
    BY <1>a, <1>s, <2>1 DEF LoadBound, Goto, TypeOK, Calls, shared
  <2>2. CASE ~Crowded(Other(t))
    BY <1>a, <1>s, <2>2, AdmitType DEF LoadBound, TypeOK, shared
  <2> QED BY <2>1, <2>2
<1>b. CASE LoadCount(t)
  <2>1. toScan' \in [Threads -> Seq(Threads)]
    BY <1>b, <1>s DEF LoadCount, TypeOK
  <2>2. CASE registry[Other(t)] = <<>>
    BY <1>b, <1>s, <2>1, <2>2, AdmitType DEF LoadCount, TypeOK, shared
  <2>3. CASE registry[Other(t)] # <<>>
    BY <1>b, <2>1, <2>3 DEF LoadCount, Goto, TypeOK, Calls, shared
  <2> QED BY <2>2, <2>3
<1>c. CASE Scan(t)
  <2>1. toScan' \in [Threads -> Seq(Threads)] /\ Head(toScan[t]) \in Threads
    BY <1>c DEF Scan, TypeOK
  <2> DEFINE seen == temp[Head(toScan[t])]
             bound == IF seen # Away /\ seen < least[t] THEN seen ELSE least[t]
  <2>2. bound \in Nat
    BY <2>1 DEF TypeOK
  <2>3. CASE Len(toScan[t]) = 1
    <3>1. Admit(t, bound)
      BY <1>c, <2>3 DEF Scan
    <3> HIDE DEF bound
    <3> QED BY <1>c, <2>1, <2>2, <3>1, AdmitType DEF Scan, TypeOK, shared
  <2>4. CASE Len(toScan[t]) # 1
    <3>1. least' = [least EXCEPT ![t] = bound] /\ UNCHANGED <<pc, at>>
      BY <1>c, <2>4 DEF Scan
    <3> HIDE DEF bound
    <3> QED BY <1>c, <2>1, <2>2, <3>1 DEF Scan, TypeOK, shared
  <2> QED BY <2>3, <2>4
<1>d. CASE Enter(t)
  BY <1>d DEF Enter, Publish, Goto, TypeOK, Calls
<1>e. CASE Claim(t)
  <2>1. pos' = [pos EXCEPT ![Side(t)] = pos[Side(t)] + 1] /\ pos[Side(t)] + 1 \in Nat
    BY <1>e, <1>s DEF Claim
  <2>2. pos' \in [Sides -> Nat]
    BY <1>s, <2>1 DEF TypeOK
  <2>3. PICK label \in Calls : pc' = [pc EXCEPT ![t] = label]
    BY <1>e DEF Claim, Goto, Calls
  <2>4. UNCHANGED <<kind, storage, registry, temp, late, at, least, toScan, value>>
    BY <1>e DEF Claim
  <2>5. unseen' \subseteq Threads /\ overtaken' \in BOOLEAN
    BY <1>e DEF Claim, TypeOK
  <2> QED BY <2>2, <2>3, <2>4, <2>5 DEF TypeOK
<1>f. CASE ClaimFails(t)
  BY <1>f, <1>s DEF ClaimFails, Goto, TypeOK, Calls, shared
<1>g. CASE Again(t)
  <2>1. CASE Exit(t) /\ Return(t)
    BY <1>g, <2>1, ReturnType DEF Again, Exit, TypeOK
  <2>2. CASE Goto(t, "reclaim") /\ UNCHANGED <<at, least, temp, late, unseen>>
    BY <1>g, <2>2 DEF Again, Goto, TypeOK, Calls
  <2> QED BY <1>g, <2>1, <2>2 DEF Again
<1>h. CASE Settle(t)
  BY <1>h DEF Settle, Publish, Goto, TypeOK, Calls
<1>i. CASE Access(t)
  <2>1. /\ pc' \in [Threads -> Calls]
        /\ at' \in [Threads -> Nat] /\ least' \in [Threads -> Nat]
    BY <1>i, ReturnType DEF Access
  <2>2. value' \in [Threads -> Values \cup {None}] /\ storage' \in [0 .. Slots - 1 -> Values \cup {None}]
    <3>1. Slot(at[t]) \in 0 .. Slots - 1
      <4>1. at[t] \in Nat
        BY DEF TypeOK
      <4> QED BY <4>1, SlotType
    <3>2. CASE t \in Writers
      <4>1. storage' = [storage EXCEPT ![Slot(at[t])] = value[t]] /\ value' = value
        BY <1>i, <3>2 DEF Access
      <4>2. value[t] \in Values \cup {None}
        BY DEF TypeOK
      <4> QED BY <3>1, <4>1, <4>2 DEF TypeOK
    <3>3. CASE t \notin Writers
      <4>1. value' = [value EXCEPT ![t] = storage[Slot(at[t])]] /\ storage' = storage
        BY <1>i, <3>3 DEF Access
      <4>2. storage[Slot(at[t])] \in Values \cup {None}
        BY <3>1 DEF TypeOK
      <4> QED BY <4>1, <4>2 DEF TypeOK
    <3> QED BY <3>2, <3>3
  <2>3. /\ pos' \in [Sides -> Nat] /\ temp' \in [Threads -> Nat \cup {Away}]
        /\ late' \in [Threads -> Nat \cup {Away}] /\ unseen' \subseteq Threads
    <3>1. CASE Crowded(Side(t))
      BY <1>i, <3>1 DEF Access, Exit, TypeOK
    <3>2. CASE ~Crowded(Side(t))
      <4>1. pos' = [pos EXCEPT ![Side(t)] = at[t] + 1] /\ UNCHANGED <<temp, late, unseen>>
        BY <1>i, <3>2 DEF Access
      <4>2. at[t] + 1 \in Nat
        BY DEF TypeOK
      <4>3. pos' \in [Sides -> Nat]
        BY <1>s, <4>1, <4>2 DEF TypeOK
      <4> QED BY <4>1, <4>3 DEF TypeOK
    <3> QED BY <3>1, <3>2
  <2>4. UNCHANGED <<kind, registry, overtaken, toScan>>
    BY <1>i DEF Access
  <2> QED BY <2>1, <2>2, <2>3, <2>4 DEF TypeOK
<1> QED BY <1>a, <1>b, <1>c, <1>d, <1>e, <1>f, <1>g, <1>h, <1>i DEF Step

\* The start of a call changes the thread's own position and argument.
LEMMA BeginType ==
    ASSUME QueueAssumption, TypeOK, NEW t \in Threads,
           (\E v \in Values : PushBegin(t, v)) \/ PopBegin(t)
    PROVE  TypeOK'
<1>1. Begin(t) /\ value' \in [Threads -> Values \cup {None}]
  BY DEF PushBegin, PopBegin, TypeOK
<1>2. pos[Side(t)] \in Nat
  BY SideType DEF TypeOK
<1>3. at' \in [Threads -> Nat] /\ pc' \in [Threads -> Calls]
  BY <1>1, <1>2 DEF Begin, Goto, TypeOK, Calls
<1> QED BY <1>1, <1>3 DEF Begin, TypeOK, shared

LEMMA RegisterType ==
    ASSUME QueueAssumption, TypeOK, NEW t \in Threads, Register(t)
    PROVE  TypeOK'
<1>1. Side(t) \in Sides /\ registry[Side(t)] \in Seq(Threads) /\ kind.capacity \in Nat
  BY SideType DEF TypeOK, QueueAssumption, Kind
<1>2. Append(registry[Side(t)], t) \in Seq(Threads)
      /\ Len(Append(registry[Side(t)], t)) <= kind.capacity
  BY <1>1 DEF Register
<1>3. registry' \in [Sides -> Seq(Threads)] /\ \A s \in Sides : Len(registry'[s]) <= kind.capacity
  BY <1>1, <1>2 DEF Register, TypeOK
<1> QED BY <1>3 DEF Register, TypeOK, locals

-----------------------------------------------------------------------------
(* Steps that move neither side *)

\* Such a step of t keeps the invariant if it keeps what t knows and what the
\* others know of t.
LEMMA Still ==
    ASSUME QueueAssumption, QInv, TypeOK', NEW t \in Threads,
           UNCHANGED <<kind, pos>>, Counted',
           \A x \in Threads : x # t => /\ pc'[x] = pc[x] /\ at'[x] = at[x] /\ least'[x] = least[x]
                                       /\ toScan'[x] = toScan[x] /\ temp'[x] = temp[x]
                                       /\ late'[x] = late[x] /\ (x \in unseen' <=> x \in unseen)
                                       /\ Registered(x) => Registered(x)',
           Own(t)',
           \A u \in Threads : Pair(t, u)' /\ Pair(u, t)'
    PROVE  QInv'
<1>1. Abreast'
  BY DEF QInv, Abreast, Reach
<1>2. ASSUME NEW x \in Threads, x # t PROVE Own(x)'
  <2>1. Own(x)
    BY DEF QInv
  <2>2. Registered(x) => Registered(x)'
    BY <1>2
  <2>3. pc'[x] = pc[x] /\ at'[x] = at[x] /\ least'[x] = least[x] /\ toScan'[x] = toScan[x] /\ temp'[x] = temp[x]
        /\ late'[x] = late[x] /\ (x \in unseen' <=> x \in unseen)
    BY <1>2
  <2> HIDE DEF Registered
  <2> QED BY <2>1, <2>2, <2>3 DEF Own, Shielded, Holds, Looked, Floor, Limit, Reach, Crowded
<1>3. ASSUME NEW x \in Threads, NEW y \in Threads, x # t, y # t PROVE Pair(x, y)'
  <2>1. Pair(x, y)
    BY DEF QInv
  <2>2. /\ pc'[x] = pc[x] /\ at'[x] = at[x] /\ least'[x] = least[x] /\ toScan'[x] = toScan[x]
        /\ pc'[y] = pc[y] /\ at'[y] = at[y] /\ (y \in unseen' <=> y \in unseen)
    BY <1>3
  <2> QED BY <2>1, <2>2 DEF Pair, Shielded, Holds, Looked, Floor, Crowded
<1>4. \A x \in Threads : Own(x)'
  BY <1>2
<1>5. \A x, y \in Threads : Pair(x, y)'
  BY <1>3
<1> QED BY <1>1, <1>4, <1>5 DEF QInv

\* A thread outside any call knows nothing, and nobody need know of it.
LEMMA OutOfCall ==
    ASSUME QueueAssumption, NEW t \in Threads, pc'[t] = "idle", late'[t] = Away
    PROVE  Own(t)' /\ \A u \in Threads : Pair(t, u)' /\ Pair(u, t)'
<1>1. ~Holds(t)' /\ ~Shielded(t)' /\ ~Looked(t)'
  BY DEF Holds, Shielded, Looked
<1>2. Own(t)'
  BY <1>1 DEF Own
<1> QED BY <1>1, <1>2 DEF Pair

\* Out of the call with neither side moved: refused, or a claimed position done.
LEMMA LeaveKeeps ==
    ASSUME QueueAssumption, QInv, TypeOK', NEW t \in Threads, Return(t),
           UNCHANGED <<kind, pos, registry, overtaken>>,
           late' = [late EXCEPT ![t] = Away], unseen' = unseen \ {t},
           \A x \in Threads : x # t => toScan'[x] = toScan[x] /\ temp'[x] = temp[x]
    PROVE  QInv'
<1>1. pc'[t] = "idle" /\ late'[t] = Away /\ Counted'
  BY DEF Return, Goto, QInv, TypeOK, Counted
<1>2. \A x \in Threads : x # t => /\ pc'[x] = pc[x] /\ at'[x] = at[x] /\ least'[x] = least[x]
                                  /\ late'[x] = late[x] /\ (x \in unseen' <=> x \in unseen)
                                  /\ Registered(x) => Registered(x)'
  BY DEF Return, Goto, QInv, TypeOK, Registered
<1> QED BY <1>1, <1>2, OutOfCall, Still

\* A step in which t gets no position of its own: only what it knows is to be shown.
LEMMA LookKeeps ==
    ASSUME QueueAssumption, QInv, TypeOK', NEW t \in Threads,
           UNCHANGED <<kind, pos, registry, unseen, overtaken>>,
           \A x \in Threads : x # t => /\ pc'[x] = pc[x] /\ at'[x] = at[x] /\ least'[x] = least[x]
                                       /\ toScan'[x] = toScan[x] /\ temp'[x] = temp[x] /\ late'[x] = late[x],
           Holds(t)' => Holds(t) /\ at'[t] = at[t],
           Own(t)',
           \A u \in Threads : Side(t) # Side(u) /\ Shielded(u) =>
               /\ Looked(t)' => Floor(t)' <= at[u]
               /\ pc'[t] = "scan" /\ at[u] < least'[t] => \E i \in 1 .. Len(toScan'[t]) : toScan'[t][i] = u
    PROVE  QInv'
<1>1. (\A x \in Threads : Registered(x) => Registered(x)') /\ Counted'
  BY DEF Registered, QInv, Counted
<1>2. ASSUME NEW u \in Threads PROVE Pair(t, u)' /\ Pair(u, t)'
  <2>1. Pair(t, u) /\ Pair(u, t)
    BY DEF QInv
  <2>2. CASE u = t
    BY <2>2 DEF Pair
  <2>3. CASE u # t
    <3>1. /\ pc'[u] = pc[u] /\ at'[u] = at[u] /\ least'[u] = least[u] /\ toScan'[u] = toScan[u]
          /\ Holds(u)' <=> Holds(u)
          /\ Shielded(u)' <=> Shielded(u)
          /\ Looked(u)' <=> Looked(u)
          /\ Floor(u)' = Floor(u)
          /\ Shielded(t)' => Shielded(t)
      BY <2>3 DEF Holds, Shielded, Looked, Floor, Crowded
    <3>2. Pair(t, u)'
      BY <2>1, <3>1 DEF Pair
    <3>3. Pair(u, t)'
      BY <2>1, <3>1 DEF Pair, Shielded
    <3> QED BY <3>2, <3>3
  <2> QED BY <2>2, <2>3
<1> QED BY <1>1, <1>2, Still

\* The other side lets t go this far, or t is out of the call.
LEMMA AdmitKeeps ==
    ASSUME QueueAssumption, QInv, TypeOK', NEW t \in Threads, pc[t] \in {"bound", "count", "scan"},
           NEW bound \in Nat, Admit(t, bound), bound <= pos[Other(t)],
           ~Crowded(Other(t)) => bound = pos[Other(t)],
           \A u \in Threads : Side(t) # Side(u) /\ Shielded(u) => bound <= at[u],
           UNCHANGED <<kind, pos, registry, late, unseen, overtaken, temp>>,
           \A x \in Threads : x # t => toScan'[x] = toScan[x]
    PROVE  QInv'
<1>t. Own(t) /\ pc \in [Threads -> Calls] /\ least \in [Threads -> Nat]
  BY DEF QInv, TypeOK
<1>1. CASE at[t] >= Limit(t, bound)
  <2>1. Return(t) /\ late[t] = Away
    BY <1>1, <1>t DEF Admit, Own
  <2>2. late' = late /\ pc'[t] = "idle" /\ Counted'
        /\ \A x \in Threads : x # t => /\ pc'[x] = pc[x] /\ at'[x] = at[x] /\ least'[x] = least[x]
                                       /\ Registered(x) => Registered(x)'
    BY <2>1 DEF Return, Goto, QInv, TypeOK, Registered, Counted
  <2> QED BY <2>1, <2>2, OutOfCall, Still
<1>2. CASE ~(at[t] >= Limit(t, bound))
  <2>1. /\ pc' = [pc EXCEPT ![t] = IF Crowded(Side(t)) THEN "enter" ELSE "access"]
        /\ least' = [least EXCEPT ![t] = IF Crowded(Other(t)) THEN bound ELSE 0]
        /\ at' = at
    BY <1>2 DEF Admit, Goto
  <2>2. /\ pc'[t] = (IF Crowded(Side(t)) THEN "enter" ELSE "access")
        /\ \A x \in Threads : x # t => pc'[x] = pc[x] /\ least'[x] = least[x]
        /\ Crowded(Other(t)) => least'[t] = bound
    BY <1>t, <2>1
  <2>3. Floor(t)' = bound
    BY <2>2 DEF Floor, Crowded
  <2>4. at[t] < Limit(t, bound)
    BY <1>2 DEF QInv, TypeOK, Limit, QueueAssumption
  <2>5. Holds(t)' => Holds(t)
    BY <2>2 DEF Holds, Crowded
  <2>6. late[t] = Away /\ (Shielded(t)' => Shielded(t) /\ ~Crowded(Side(t)))
    BY <1>t, <2>2, <2>5 DEF Own, Shielded, Holds, Crowded
  <2>7. Own(t)'
    BY <1>t, <2>1, <2>2, <2>3, <2>4, <2>6 DEF Own, Looked, Crowded, Registered, Limit, Reach
  <2> QED BY <2>1, <2>2, <2>3, <2>5, <2>7, LookKeeps
<1> QED BY <1>1, <1>2

LEMMA RegisterKeeps ==
    ASSUME QueueAssumption, QInv, NEW t \in Threads, Register(t)
    PROVE  QInv'
<1>1. TypeOK'
  BY RegisterType DEF QInv
<1>2. \A x \in Threads : Registered(x) => Registered(x)'
  <2> SUFFICES ASSUME NEW x \in Threads, Registered(x) PROVE Registered(x)'
    OBVIOUS
  <2>1. registry[Side(t)] \in Seq(Threads) /\ Side(t) \in Sides /\ Side(x) \in Sides
        /\ registry[Side(x)] \in Seq(Threads)
    BY SideType DEF QInv, TypeOK
  <2>2. registry' = [registry EXCEPT ![Side(t)] = Append(registry[Side(t)], t)]
        /\ registry \in [Sides -> Seq(Threads)]
    BY DEF Register, QInv, TypeOK
  <2>3. PICK i \in 1 .. Len(registry[Side(x)]) : registry[Side(x)][i] = x
    BY DEF Registered
  <2>4. i \in 1 .. Len(registry'[Side(x)]) /\ registry'[Side(x)][i] = x
    BY <2>1, <2>2, <2>3
  <2> QED BY <2>4 DEF Registered
<1>3. UNCHANGED <<kind, pos, late, unseen, overtaken, temp, pc, at, least, toScan>> /\ pc'[t] = "idle"
  BY DEF Register, locals
<1>4. late[t] = Away
  BY <1>3 DEF QInv, Own
<1>5. Counted'
  BY <1>3 DEF QInv, Counted
<1> QED BY <1>1, <1>2, <1>3, <1>4, <1>5, OutOfCall, Still

\* A call begins.  A side's only thread has its position from then on.
LEMMA BeginKeeps ==
    ASSUME QueueAssumption, QInv, NEW t \in kind.threads, t \in Threads,
           (\E v \in Values : PushBegin(t, v)) \/ PopBegin(t)
    PROVE  QInv'
<1>1. TypeOK'
  BY BeginType DEF QInv
<1>2. Begin(t)
  BY DEF PushBegin, PopBegin
<1>3. /\ pc[t] = "idle" /\ pc'[t] = "bound" /\ at'[t] = pos[Side(t)]
      /\ Crowded(Side(t)) => Registered(t)
      /\ UNCHANGED <<kind, pos, storage, registry, temp, late, unseen, overtaken, least, toScan>>
      /\ \A x \in Threads : x # t => pc'[x] = pc[x] /\ at'[x] = at[x]
  BY <1>2 DEF Begin, Goto, shared, QInv, TypeOK
<1>4. Side(t) \in Sides /\ Other(t) \in Sides /\ Side(t) # Other(t) /\ pos[Side(t)] \in Nat
  BY SideType DEF QInv, TypeOK
<1>5. Own(t)'
  <2>1. late[t] = Away
    BY <1>3 DEF QInv, Own
  <2> QED BY <1>3, <1>4, <2>1 DEF Own, Looked, Shielded, Holds, Crowded, Registered, QInv, Abreast
<1>6. ASSUME NEW u \in Threads PROVE Pair(t, u)' /\ Pair(u, t)'
  <2>1. Own(u)
    BY DEF QInv
  <2>2. CASE u = t
    BY <1>3, <2>2 DEF Pair
  <2>3. CASE u # t
    <3>1. pc'[u] = pc[u] /\ at'[u] = at[u] /\ (Holds(u)' <=> Holds(u)) /\ (Looked(u)' <=> Looked(u))
          /\ Floor(u)' = Floor(u)
      BY <1>3, <2>3 DEF Holds, Looked, Floor, Crowded
    <3>2. (Holds(t)' <=> ~Crowded(Side(t))) /\ (Shielded(u)' <=> Shielded(u))
      BY <1>3, <3>1 DEF Holds, Shielded, Crowded
    <3>3. ~Crowded(Side(t)) /\ Side(u) = Side(t) => pc[u] = "idle"
      BY <2>1, <2>3 DEF Own, QueueAssumption, Crowded, QInv, TypeOK
    <3>4. Side(t) # Side(u) => Other(u) = Side(t)
      BY SideType
    <3>5. Pair(t, u)'
      BY <1>3, <3>1, <3>2, <3>3 DEF Pair, Looked, Holds
    <3>6. Pair(u, t)'
      BY <1>3, <2>1, <3>1, <3>2, <3>3, <3>4 DEF Pair, Own, Shielded, Holds
    <3> QED BY <3>5, <3>6
  <2> QED BY <2>2, <2>3
<1>7. (\A x \in Threads : Registered(x) => Registered(x)') /\ Counted'
  BY <1>3 DEF Registered, QInv, Counted
<1> QED BY <1>1, <1>3, <1>5, <1>6, <1>7, Still

LEMMA LoadBoundKeeps ==
    ASSUME QueueAssumption, QInv, TypeOK', NEW t \in Threads, LoadBound(t)
    PROVE  QInv'
<1>t. Own(t) /\ pos[Other(t)] \in Nat
  BY SideType DEF QInv, TypeOK
<1>1. CASE Crowded(Other(t))
  <2>1. /\ pc[t] = "bound" /\ pc'[t] = "count" /\ least'[t] = pos[Other(t)]
        /\ UNCHANGED <<kind, pos, registry, late, unseen, overtaken, temp, at, toScan>>
        /\ \A x \in Threads : x # t => pc'[x] = pc[x] /\ least'[x] = least[x]
    BY <1>1 DEF LoadBound, Goto, shared, QInv, TypeOK
  <2>2. Own(t)'
    BY <1>1, <1>t, <2>1 DEF Own, Looked, Shielded, Holds, Crowded, Registered
  <2>3. Holds(t)' => Holds(t)
    BY <2>1 DEF Holds, Crowded
  <2>4. ~Looked(t)' /\ pc'[t] # "scan"
    BY <2>1 DEF Looked
  <2> QED BY <2>1, <2>2, <2>3, <2>4, LookKeeps
<1>2. CASE ~Crowded(Other(t))
  <2>1. Admit(t, pos[Other(t)]) /\ UNCHANGED <<kind, pos, registry, late, unseen, overtaken, temp, toScan>> /\ pc[t] = "bound"
    BY <1>2 DEF LoadBound, shared
  <2>2. \A u \in Threads : Side(t) # Side(u) /\ Shielded(u) => pos[Other(t)] <= at[u]
    BY <1>2, <1>t, SideType DEF QInv, Own, Shielded, Holds
  <2> QED BY <1>t, <2>1, <2>2, AdmitKeeps
<1> QED BY <1>1, <1>2

\* Whoever has claimed a position below the bound is in the registry by now.
LEMMA LoadCountKeeps ==
    ASSUME QueueAssumption, QInv, TypeOK', NEW t \in Threads, LoadCount(t)
    PROVE  QInv'
<1>t. Own(t) /\ pc[t] = "count" /\ least[t] \in Nat /\ Crowded(Other(t)) /\ least[t] <= pos[Other(t)]
  BY DEF QInv, TypeOK, LoadCount, Own
<1>1. ASSUME NEW u \in Threads, Side(t) # Side(u), Shielded(u)
      PROVE  \E i \in 1 .. Len(registry[Other(t)]) : registry[Other(t)][i] = u
  <2>1. Own(u) /\ Side(u) = Other(t)
    BY <1>1, SideType DEF QInv
  <2>2. Registered(u)
    BY <1>1, <1>t, <2>1 DEF Own, Shielded, Holds
  <2> QED BY <2>1, <2>2 DEF Registered
<1>2. /\ UNCHANGED <<kind, pos, registry, late, unseen, overtaken, temp>>
      /\ toScan'[t] = registry[Other(t)]
      /\ \A x \in Threads : x # t => toScan'[x] = toScan[x]
  BY DEF LoadCount, shared, QInv, TypeOK
<1>3. CASE registry[Other(t)] = <<>>
  <2>1. \A u \in Threads : ~(Side(t) # Side(u) /\ Shielded(u))
    BY <1>1, <1>3
  <2>2. Admit(t, least[t])
    BY <1>3 DEF LoadCount
  <2> QED BY <1>t, <1>2, <2>1, <2>2, AdmitKeeps
<1>4. CASE registry[Other(t)] # <<>>
  <2>1. /\ pc'[t] = "scan" /\ UNCHANGED <<at, least>>
        /\ \A x \in Threads : x # t => pc'[x] = pc[x]
    BY <1>4 DEF LoadCount, Goto, QInv, TypeOK
  <2>2. Own(t)'
    BY <1>t, <1>2, <1>4, <2>1 DEF Own, Looked, Shielded, Holds, Crowded, Registered
  <2>3. Holds(t)' => Holds(t)
    BY <1>t, <1>2, <2>1 DEF Holds, Crowded
  <2>4. ~Looked(t)'
    BY <2>1 DEF Looked
  <2> QED BY <1>1, <1>2, <2>1, <2>2, <2>3, <2>4, LookKeeps
<1> QED BY <1>3, <1>4

LEMMA TailFacts ==
    ASSUME NEW S, NEW s \in Seq(S), s # <<>>
    PROVE  /\ Head(s) \in S /\ Head(s) = s[1] /\ Len(s) \in Nat /\ Len(s) >= 1
           /\ Tail(s) \in Seq(S) /\ Len(Tail(s)) = Len(s) - 1
           /\ \A i \in 1 .. Len(Tail(s)) : Tail(s)[i] = s[i + 1]
OBVIOUS

\* One thread looked at: if it accesses a position, temp is no later.
LEMMA ScanKeeps ==
    ASSUME QueueAssumption, QInv, TypeOK', NEW t \in Threads, Scan(t)
    PROVE  QInv'
<1>t. Own(t) /\ pc[t] = "scan" /\ Crowded(Other(t)) /\ least[t] <= pos[Other(t)] /\ toScan[t] # <<>>
      /\ toScan[t] \in Seq(Threads) /\ least[t] \in Nat /\ pos[Other(t)] \in Nat
  BY SideType DEF QInv, TypeOK, Scan, Own
<1> DEFINE seen == temp[Head(toScan[t])]
           bound == IF seen # Away /\ seen < least[t] THEN seen ELSE least[t]
<1>1. Head(toScan[t]) \in Threads /\ bound \in Nat /\ bound <= least[t]
  <2>1. Head(toScan[t]) \in Threads
    BY <1>t, TailFacts
  <2>2. seen \in Nat \cup {Away}
    BY <2>1 DEF QInv, TypeOK
  <2> HIDE DEF seen
  <2> QED BY <1>t, <2>1, <2>2
<1>2. ASSUME NEW u \in Threads, Side(t) # Side(u), Shielded(u), at[u] < bound
      PROVE  \E i \in 1 .. Len(Tail(toScan[t])) : Tail(toScan[t])[i] = u
  <2>1. Own(u) /\ Pair(t, u) /\ Side(u) = Other(t) /\ at[u] \in Nat
    BY <1>2, SideType DEF QInv, TypeOK
  <2>2. at[u] < least[t]
    BY <1>1, <1>2, <1>t, <2>1
  <2>3. PICK i \in 1 .. Len(toScan[t]) : toScan[t][i] = u
    BY <1>2, <1>t, <2>1, <2>2 DEF Pair
  <2>4. i # 1
    <3>1. temp[u] \in Nat /\ temp[u] <= at[u]
      BY <1>2, <1>t, <2>1 DEF Own
    <3>2. Away \notin Nat
      BY DEF QueueAssumption
    <3>3. ASSUME i = 1 PROVE FALSE
      <4>1. seen = temp[u]
        BY <1>t, <2>3, <3>3, TailFacts
      <4> QED BY <1>2, <1>t, <2>1, <2>2, <3>1, <3>2, <4>1
    <3> QED BY <3>3
  <2>5. i - 1 \in 1 .. Len(Tail(toScan[t])) /\ Tail(toScan[t])[i - 1] = u
    BY <1>t, <2>3, <2>4, TailFacts
  <2> QED BY <2>5
<1>3. /\ UNCHANGED <<kind, pos, registry, late, unseen, overtaken, temp>>
      /\ toScan'[t] = Tail(toScan[t])
      /\ \A x \in Threads : x # t => toScan'[x] = toScan[x]
  BY DEF Scan, shared, QInv, TypeOK
<1>4. CASE Len(toScan[t]) = 1
  <2>1. Len(Tail(toScan[t])) = 0
    BY <1>4, <1>t, TailFacts
  <2>2. Admit(t, bound)
    BY <1>4 DEF Scan
  <2>3. \A u \in Threads : Side(t) # Side(u) /\ Shielded(u) => bound <= at[u]
    <3>1. \A u \in Threads : at[u] \in Nat
      BY DEF QInv, TypeOK
    <3> HIDE DEF bound
    <3> QED BY <1>1, <1>2, <2>1, <3>1
  <2>4. bound <= pos[Other(t)]
    BY <1>1, <1>t
  <2> HIDE DEF bound
  <2> QED BY <1>1, <1>3, <1>t, <2>2, <2>3, <2>4, AdmitKeeps
<1>5. CASE Len(toScan[t]) # 1
  <2>1. /\ least' = [least EXCEPT ![t] = bound] /\ UNCHANGED <<pc, at>>
    BY <1>5 DEF Scan
  <2>2. least'[t] = bound /\ \A x \in Threads : x # t => least'[x] = least[x]
    BY <2>1 DEF QInv, TypeOK
  <2>3. toScan'[t] # <<>>
    <3>1. Len(Tail(toScan[t])) # 0
      BY <1>5, <1>t, TailFacts
    <3>2. Len(<<>>) = 0
      OBVIOUS
    <3>3. Tail(toScan[t]) # <<>>
      BY <3>1, <3>2, Zenon
    <3> QED BY <1>3, <3>3, Zenon
  <2>4. least'[t] <= pos[Other(t)]
    BY <1>1, <1>t, <2>2
  <2> HIDE DEF bound
  <2>5. Own(t)'
    BY <1>3, <1>t, <2>1, <2>3, <2>4 DEF Own, Looked, Shielded, Holds, Crowded, Registered
  <2>6. Holds(t)' => Holds(t)
    BY <1>3, <2>1 DEF Holds, Crowded
  <2>7. ~Looked(t)'
    BY <1>t, <2>1 DEF Looked
  <2> QED BY <1>2, <1>3, <2>1, <2>2, <2>5, <2>6, <2>7, LookKeeps
<1> QED BY <1>4, <1>5

LEMMA EnterKeeps ==
    ASSUME QueueAssumption, QInv, TypeOK', NEW t \in Threads, Enter(t)
    PROVE  QInv'
<1>1. /\ pc[t] = "enter" /\ pc'[t] = "claim"
      /\ (late'[t] = Away /\ temp'[t] = at[t]) \/ (late'[t] = at[t] /\ temp'[t] = temp[t])
      /\ UNCHANGED <<kind, pos, registry, unseen, overtaken, at, least, toScan>>
      /\ \A x \in Threads : x # t => pc'[x] = pc[x] /\ temp'[x] = temp[x] /\ late'[x] = late[x]
  <2>1. /\ (late'[t] = Away /\ temp'[t] = at[t]) \/ (late'[t] = at[t] /\ temp'[t] = temp[t])
        /\ \A x \in Threads : x # t => temp'[x] = temp[x] /\ late'[x] = late[x]
    BY DEF Enter, Publish, QInv, TypeOK
  <2> QED BY <2>1 DEF Enter, Goto, QInv, TypeOK
<1>2. Own(t) /\ at[t] \in Nat
  BY DEF QInv, TypeOK
<1>3. Floor(t)' = Floor(t) /\ Looked(t) /\ ~Holds(t)' /\ ~Shielded(t)' /\ Crowded(Side(t))
  BY <1>1, <1>2 DEF Floor, Looked, Shielded, Holds, Crowded, Own
<1>4. Own(t)'
  <2>1. Away \notin Nat
    BY DEF QueueAssumption
  <2> QED BY <1>1, <1>2, <1>3, <2>1 DEF Own, Looked, Crowded, Registered, Limit
<1>5. \A u \in Threads : Side(t) # Side(u) /\ Shielded(u) => Floor(t)' <= at[u]
  BY <1>3 DEF QInv, Pair
<1> QED BY <1>1, <1>3, <1>4, <1>5, LookKeeps

LEMMA ClaimFailsKeeps ==
    ASSUME QueueAssumption, QInv, TypeOK', NEW t \in Threads, ClaimFails(t)
    PROVE  QInv'
<1>1. /\ pc[t] \in {"claim", "reclaim"} /\ pc'[t] = "again" /\ at'[t] = pos[Side(t)]
      /\ UNCHANGED <<kind, pos, registry, temp, late, unseen, overtaken, least, toScan>>
      /\ \A x \in Threads : x # t => pc'[x] = pc[x] /\ at'[x] = at[x]
  BY DEF ClaimFails, Goto, shared, QInv, TypeOK
<1>2. Own(t) /\ at[t] \in Nat /\ pos[Side(t)] \in Nat
  BY SideType DEF QInv, TypeOK
<1>3. Floor(t)' = Floor(t) /\ Looked(t) /\ Crowded(Side(t)) /\ ~Holds(t)' /\ ~Shielded(t)'
  BY <1>1, <1>2 DEF Floor, Looked, Crowded, Own, Shielded, Holds
<1>4. Own(t)'
  BY <1>1, <1>2, <1>3 DEF Own, Looked, Crowded, Registered
<1>5. \A u \in Threads : Side(t) # Side(u) /\ Shielded(u) => Floor(t)' <= at[u]
  BY <1>3 DEF QInv, Pair
<1> QED BY <1>1, <1>3, <1>4, <1>5, LookKeeps

LEMMA AgainKeeps ==
    ASSUME QueueAssumption, QInv, TypeOK', NEW t \in Threads, Again(t)
    PROVE  QInv'
<1>1. pc[t] = "again" /\ UNCHANGED <<kind, pos, registry, overtaken, toScan>>
  BY DEF Again
<1>2. Own(t) /\ Crowded(Side(t))
  BY <1>1 DEF QInv, Own
<1>3. CASE at[t] >= Limit(t, Floor(t))
  <2>1. Exit(t) /\ Return(t)
    BY <1>3 DEF Again, Floor
  <2> QED BY <1>1, <2>1, LeaveKeeps DEF Exit, QInv, TypeOK
<1>4. CASE ~(at[t] >= Limit(t, Floor(t)))
  <2>1. /\ pc'[t] = "reclaim" /\ UNCHANGED <<at, least, temp, late, unseen>>
        /\ \A x \in Threads : x # t => pc'[x] = pc[x]
    BY <1>4 DEF Again, Floor, Goto, QInv, TypeOK
  <2>2. Floor(t)' = Floor(t) /\ Looked(t) /\ ~Holds(t)' /\ ~Shielded(t)'
    BY <1>1, <1>2, <2>1 DEF Floor, Looked, Crowded, Shielded, Holds
  <2>3. at[t] < Limit(t, Floor(t))
    <3>1. pos[Other(t)] \in Nat /\ at[t] \in Nat /\ least[t] \in Nat /\ Slots \in Nat
      BY SideType DEF QInv, TypeOK, QueueAssumption
    <3> QED BY <1>4, <3>1 DEF Limit, Floor
  <2>4. Own(t)'
    BY <1>1, <1>2, <2>1, <2>2, <2>3 DEF Own, Looked, Crowded, Registered, Limit
  <2>5. \A u \in Threads : Side(t) # Side(u) /\ Shielded(u) => Floor(t)' <= at[u]
    BY <2>2 DEF QInv, Pair
  <2> QED BY <1>1, <2>1, <2>2, <2>4, <2>5, LookKeeps
<1> QED BY <1>3, <1>4

LEMMA SettleKeeps ==
    ASSUME QueueAssumption, QInv, TypeOK', NEW t \in Threads, Settle(t)
    PROVE  QInv'
<1>1. /\ pc[t] = "settle" /\ pc'[t] = "access"
      /\ (late'[t] = Away /\ temp'[t] = at[t]) \/ (late'[t] = at[t] /\ temp'[t] = temp[t])
      /\ UNCHANGED <<kind, pos, registry, unseen, overtaken, at, least, toScan>>
      /\ \A x \in Threads : x # t => pc'[x] = pc[x] /\ temp'[x] = temp[x] /\ late'[x] = late[x]
  <2>1. /\ (late'[t] = Away /\ temp'[t] = at[t]) \/ (late'[t] = at[t] /\ temp'[t] = temp[t])
        /\ \A x \in Threads : x # t => temp'[x] = temp[x] /\ late'[x] = late[x]
    BY DEF Settle, Publish, QInv, TypeOK
  <2> QED BY <2>1 DEF Settle, Goto, QInv, TypeOK
<1>2. Own(t) /\ at[t] \in Nat
  BY DEF QInv, TypeOK
<1>3. Floor(t)' = Floor(t) /\ Looked(t) /\ Holds(t) /\ Crowded(Side(t)) /\ (Shielded(t)' <=> Shielded(t))
  BY <1>1, <1>2 DEF Floor, Looked, Shielded, Holds, Crowded, Own
<1>4. Own(t)'
  BY <1>1, <1>2, <1>3 DEF Own, Looked, Crowded, Registered, Limit, Reach
<1>5. \A u \in Threads : Side(t) # Side(u) /\ Shielded(u) => Floor(t)' <= at[u]
  BY <1>3 DEF QInv, Pair
<1> QED BY <1>1, <1>2, <1>3, <1>4, <1>5, LookKeeps

\* The others see the scope of t; if they did before, it is no later a position.
LEMMA LandKeeps ==
    ASSUME QueueAssumption, QInv, TypeOK', NEW t \in Threads, Land(t)
    PROVE  QInv'
<1>1. /\ late[t] # Away /\ temp'[t] = late[t] /\ late'[t] = Away
      /\ UNCHANGED <<kind, pos, registry, unseen, overtaken, pc, at, least, toScan>>
      /\ \A x \in Threads : x # t => temp'[x] = temp[x] /\ late'[x] = late[x]
  BY DEF Land, locals, QInv, TypeOK
<1>2. Own(t)
  BY DEF QInv
<1>3. Floor(t)' = Floor(t) /\ (Looked(t)' <=> Looked(t)) /\ (Holds(t)' <=> Holds(t)) /\ (Shielded(t)' <=> Shielded(t))
  BY <1>1 DEF Floor, Looked, Shielded, Holds, Crowded
<1>4. Own(t)'
  BY <1>1, <1>2, <1>3 DEF Own, Crowded, Registered, Limit, Reach
<1>5. \A u \in Threads : Side(t) # Side(u) /\ Shielded(u) =>
          /\ Looked(t)' => Floor(t)' <= at[u]
          /\ pc'[t] = "scan" /\ at[u] < least'[t] => \E i \in 1 .. Len(toScan'[t]) : toScan'[t][i] = u
  BY <1>1, <1>3 DEF QInv, Pair
<1> QED BY <1>1, <1>3, <1>4, <1>5, LookKeeps

-----------------------------------------------------------------------------
(* Steps that move a side *)

\* A side moves by one, past a position that the other side allows; the others
\* know no less.
LEMMA Moved ==
    ASSUME QueueAssumption, QInv, TypeOK', NEW t \in Threads, pc[t] # "idle",
           pos[Side(t)] = at[t], at[t] < Limit(t, Floor(t)), Looked(t),
           pos' = [pos EXCEPT ![Side(t)] = at[t] + 1],
           UNCHANGED <<kind, registry, temp, late, toScan>>, Counted',
           \A x \in Threads : x # t => /\ pc'[x] = pc[x] /\ at'[x] = at[x] /\ least'[x] = least[x]
                                       /\ (x \in unseen' <=> x \in unseen),
           Own(t)',
           \A u \in Threads : Pair(t, u)' /\ Pair(u, t)'
    PROVE  QInv'
<1>t. /\ Side(t) \in Sides /\ Other(t) \in Sides /\ Side(t) # Other(t)
      /\ \A u \in Threads : Side(u) # Side(t) <=> Side(u) = Other(t)
      /\ pos[Side(t)] \in Nat /\ pos[Other(t)] \in Nat /\ Slots \in Nat /\ at[t] \in Nat
      /\ \A u \in Threads : at[u] \in Nat /\ least[u] \in Nat
  BY SideType DEF QInv, TypeOK, QueueAssumption
<1>o. Own(t) /\ Floor(t) <= pos[Other(t)] /\ Floor(t) \in Nat
  BY <1>t DEF QInv, Own, Floor
<1>p. pos'[Side(t)] = at[t] + 1 /\ pos'[Other(t)] = pos[Other(t)]
  BY <1>t DEF QInv, TypeOK
<1>r. at[t] + 1 <= Reach(Side(t), Floor(t))
  BY <1>t, <1>o, SideType DEF Limit, Reach
<1>1. Abreast'
  <2>1. pos'[Side(t)] <= Reach(Side(t), pos'[Other(t)])
    BY <1>o, <1>p, <1>r, <1>t DEF Reach
  <2>2. pos'[Other(t)] <= Reach(Other(t), pos'[Side(t)])
    BY <1>p, <1>t DEF QInv, Abreast, Reach
  <2>3. \A s \in Sides : s = Side(t) \/ s = Other(t)
    BY DEF Sides, Side, Other
  <2> QED BY <2>1, <2>2, <2>3 DEF QInv, Abreast, Reach
<1>2. ASSUME NEW x \in Threads, x # t PROVE Own(x)'
  <2>1. Own(x) /\ Pair(t, x)
    BY DEF QInv
  <2>2. /\ pc'[x] = pc[x] /\ at'[x] = at[x] /\ least'[x] = least[x] /\ toScan'[x] = toScan[x] /\ temp'[x] = temp[x]
        /\ late'[x] = late[x]
        /\ (Holds(x)' <=> Holds(x)) /\ (Shielded(x)' <=> Shielded(x)) /\ (Looked(x)' <=> Looked(x))
    BY <1>2 DEF Holds, Shielded, Looked, Crowded
  <2>3. CASE Side(x) = Side(t)
    <3>1. Other(x) = Other(t)
      BY <2>3, SideType DEF Sides
    <3>2. ~Crowded(Side(x)) => pc[x] = "idle"
      <4>1. t \in kind.threads /\ (pc[x] # "idle" => x \in kind.threads)
        BY <1>o, <2>1 DEF Own
      <4>2. kind \in Kinds
        BY DEF QInv, TypeOK
      <4> QED BY <1>2, <2>3, <4>1, <4>2 DEF QueueAssumption, Crowded
    <3>3. Floor(x)' = Floor(x)
      BY <1>p, <2>2, <3>1 DEF Floor, Crowded
    <3> QED BY <1>p, <1>t, <2>1, <2>2, <2>3, <3>1, <3>2, <3>3 DEF Own, Crowded, Registered, Limit
  <2>4. CASE Side(x) = Other(t)
    <3>1. Other(x) = Side(t) /\ Side(x) # Side(t)
      BY <1>t, <2>4, SideType DEF Sides
    <3>2. Floor(x) <= Floor(x)' /\ (Looked(x) => Floor(x)' <= pos'[Other(x)])
          /\ Floor(x) \in Nat /\ Floor(x)' \in Nat
      BY <1>p, <1>t, <2>1, <2>2, <3>1 DEF Floor, Crowded, Own
    <3>3. Looked(x) /\ pc[x] # "again" => at[x] < Limit(x, Floor(x)')
      BY <1>t, <2>1, <3>2 DEF Own, Limit
    <3>4. Shielded(x) => pos'[Other(x)] <= Reach(Other(x), at[x])
      <4>1. Shielded(x) => Floor(t) <= at[x]
        BY <2>1, <3>1 DEF Pair
      <4> QED BY <1>o, <1>p, <1>r, <1>t, <3>1, <4>1 DEF Reach
    <3> QED BY <1>p, <1>t, <2>1, <2>2, <2>4, <3>1, <3>2, <3>3, <3>4 DEF Own, Crowded, Registered, Limit
  <2> QED BY <1>t, <2>3, <2>4
<1>3. ASSUME NEW x \in Threads, NEW y \in Threads, x # t, y # t PROVE Pair(x, y)'
  <2>1. Pair(x, y) /\ Own(y)
    BY DEF QInv
  <2>2. /\ pc'[x] = pc[x] /\ at'[x] = at[x] /\ least'[x] = least[x] /\ toScan'[x] = toScan[x]
        /\ pc'[y] = pc[y] /\ at'[y] = at[y]
        /\ (Holds(x)' <=> Holds(x)) /\ (Holds(y)' <=> Holds(y)) /\ (Looked(x)' <=> Looked(x))
        /\ (Shielded(y)' <=> Shielded(y))
    BY <1>3 DEF Holds, Shielded, Looked, Crowded
  <2>3. Side(x) # Side(y) /\ Holds(y) => Floor(x)' = Floor(x)
    <3> SUFFICES ASSUME Side(x) # Side(y), Holds(y) PROVE Floor(x)' = Floor(x)
      OBVIOUS
    <3>1. Other(x) = Side(y)
      BY SideType
    <3>2. CASE Crowded(Side(y))
      BY <2>2, <3>1, <3>2 DEF Floor, Crowded
    <3>3. CASE ~Crowded(Side(y))
      <4>1. Side(y) # Side(t)
        BY <1>3, <1>o, <2>1, <3>3 DEF Own, Holds, QueueAssumption, Crowded, QInv, TypeOK
      <4>2. pos'[Side(y)] = pos[Side(y)]
        BY <1>p, <1>t, <4>1
      <4> QED BY <3>1, <3>3, <4>2 DEF Floor, Crowded
    <3> QED BY <3>2, <3>3
  <2>4. Shielded(y) => Holds(y)
    BY DEF Shielded
  <2> QED BY <2>1, <2>2, <2>3, <2>4 DEF Pair
<1>4. \A x \in Threads : Own(x)'
  BY <1>2
<1>5. \A x, y \in Threads : Pair(x, y)'
  BY <1>3
<1> QED BY <1>1, <1>4, <1>5 DEF QInv

LEMMA ClaimKeeps ==
    ASSUME QueueAssumption, QInv, TypeOK', NEW t \in Threads, Claim(t)
    PROVE  QInv'
<1>t. /\ Own(t) /\ Side(t) \in Sides /\ Other(t) \in Sides /\ Side(t) # Other(t)
      /\ pos[Side(t)] \in Nat /\ at[t] \in Nat
  BY SideType DEF QInv, TypeOK
<1>1. /\ pc[t] \in {"claim", "reclaim"} /\ pos[Side(t)] = at[t] /\ pc'[t] \in {"access", "settle"}
      /\ pos' = [pos EXCEPT ![Side(t)] = at[t] + 1]
      /\ UNCHANGED <<kind, registry, temp, late, at, least, toScan>>
      /\ \A x \in Threads : x # t => pc'[x] = pc[x] /\ (x \in unseen' <=> x \in unseen)
      /\ late[t] # Away => t \in unseen'
  BY DEF Claim, Goto, QInv, TypeOK, Calls
<1>2. pos'[Side(t)] = at[t] + 1 /\ pos'[Other(t)] = pos[Other(t)]
  BY <1>1, <1>t DEF QInv, TypeOK
<1>3. Crowded(Side(t)) /\ Looked(t) /\ Looked(t)' /\ Holds(t)' /\ Floor(t)' = Floor(t)
  BY <1>1, <1>2, <1>t DEF Own, Looked, Holds, Crowded, Floor
<1>4. pos[Other(t)] <= Reach(Other(t), at[t])
  BY <1>1, <1>t DEF QInv, Abreast
<1>5. Own(t)'
  <2>1. Shielded(t)' => late[t] = Away
    BY <1>1 DEF Shielded
  <2> QED BY <1>1, <1>2, <1>3, <1>4, <1>t, <2>1 DEF Own, Crowded, Registered, Limit, Looked, Reach
<1>6. ASSUME NEW u \in Threads PROVE Pair(t, u)' /\ Pair(u, t)'
  <2>1. Own(u) /\ Pair(t, u) /\ at[u] \in Nat /\ least[u] \in Nat
    BY DEF QInv, TypeOK
  <2>2. CASE u = t
    BY <2>2 DEF Pair
  <2>3. CASE u # t
    <3>1. /\ pc'[u] = pc[u] /\ (Holds(u)' <=> Holds(u)) /\ (Looked(u)' <=> Looked(u))
          /\ (Shielded(u)' <=> Shielded(u))
      BY <1>1, <2>3 DEF Holds, Shielded, Looked, Crowded
    <3>2. Side(u) = Side(t) /\ Holds(u) => at[u] < at[t]
      BY <1>1, <1>3, <2>1 DEF Own, Holds
    <3>3. Pair(t, u)'
      BY <1>1, <1>3, <2>1, <3>1, <3>2, <1>t DEF Pair
    <3>4. Side(u) # Side(t) => Other(u) = Side(t)
      BY SideType
    <3>5. Side(u) # Side(t) => Floor(u)' = least[u] /\ Floor(u) = least[u]
      BY <1>1, <1>3, <3>4 DEF Floor, Crowded
    <3>6. Side(u) # Side(t) /\ (Looked(u) \/ pc[u] = "scan") => least[u] <= at[t]
      BY <1>1, <2>1, <3>4, <3>5 DEF Own
    <3>7. Pair(u, t)'
      BY <1>1, <1>3, <1>t, <2>1, <3>1, <3>2, <3>5, <3>6 DEF Pair
    <3> QED BY <3>3, <3>7
  <2> QED BY <2>2, <2>3
<1>7. at[t] < Limit(t, Floor(t))
  BY <1>1, <1>3, <1>t DEF Own
<1>8. Counted'
  BY DEF Claim, QInv, Counted
<1> QED BY <1>1, <1>3, <1>5, <1>6, <1>7, <1>8, Moved

LEMMA AccessKeeps ==
    ASSUME QueueAssumption, QInv, TypeOK', NEW t \in Threads, Access(t)
    PROVE  QInv'
<1>1. pc[t] = "access" /\ Return(t) /\ UNCHANGED <<kind, registry, overtaken, toScan>>
  BY DEF Access
<1>2. CASE Crowded(Side(t))
  <2>1. Exit(t) /\ pos' = pos
    BY <1>2 DEF Access
  <2> QED BY <1>1, <2>1, LeaveKeeps DEF Exit, QInv, TypeOK
<1>3. CASE ~Crowded(Side(t))
  <2>1. pos' = [pos EXCEPT ![Side(t)] = at[t] + 1] /\ UNCHANGED <<temp, late, unseen>>
    BY <1>3 DEF Access
  <2>2. pc'[t] = "idle" /\ late[t] = Away /\ Counted'
        /\ \A x \in Threads : x # t => pc'[x] = pc[x] /\ at'[x] = at[x] /\ least'[x] = least[x]
    BY <1>1, <1>3, <2>1 DEF Return, Goto, QInv, TypeOK, Own, Counted
  <2>3. Looked(t) /\ at[t] < Limit(t, Floor(t)) /\ pos[Side(t)] = at[t]
    BY <1>1, <1>3 DEF QInv, Own, Looked
  <2> QED BY <1>1, <2>1, <2>2, <2>3, OutOfCall, Moved
<1> QED BY <1>2, <1>3

-----------------------------------------------------------------------------

LEMMA InitInv == QueueAssumption /\ Init => QInv
<1> SUFFICES ASSUME QueueAssumption, Init PROVE QInv
  OBVIOUS
<1>1. TypeOK
  BY InitType
<1>2. \A t \in Threads : pc[t] = "idle"
  BY DEF Init
<1>3. \A t \in Threads : Own(t) /\ \A u \in Threads : Pair(t, u)
  BY <1>2 DEF Init, Own, Pair, Shielded, Holds, Looked
<1>4. Abreast /\ Counted
  BY DEF Init, Abreast, Counted, Reach, Sides, QueueAssumption
<1> QED BY <1>1, <1>3, <1>4 DEF QInv

LEMMA NextInv ==
    ASSUME QueueAssumption, QInv, [Next]_vars
    PROVE  QInv'
<1>1. CASE UNCHANGED vars
  BY <1>1 DEF QInv, Counted, TypeOK, Abreast, Reach, Own, Pair, Shielded, Holds, Looked, Floor, Limit, Crowded, Registered,
              vars, shared, locals
<1>2. ASSUME NEW t \in kind.threads,
             Register(t) \/ (\E v \in Values : PushBegin(t, v)) \/ PopBegin(t) \/ Step(t) \/ Land(t)
      PROVE  QInv'
  <2>0. t \in Threads
    BY DEF QInv, TypeOK, QueueAssumption, Kind
  <2>1. CASE Register(t)
    BY <2>0, <2>1, RegisterKeeps
  <2>2. CASE (\E v \in Values : PushBegin(t, v)) \/ PopBegin(t)
    BY <2>0, <2>2, BeginKeeps
  <2>3. CASE Step(t)
    <3>1. TypeOK'
      BY <2>0, <2>3, StepType DEF QInv, Own
    <3> QED BY <2>0, <2>3, <3>1, LoadBoundKeeps, LoadCountKeeps, ScanKeeps, EnterKeeps, ClaimKeeps,
               ClaimFailsKeeps, AgainKeeps, SettleKeeps, AccessKeeps DEF Step
  <2>4. CASE Land(t)
    <3>1. TypeOK'
      BY <2>0, <2>4 DEF Land, locals, QInv, TypeOK
    <3> QED BY <2>0, <2>4, <3>1, LandKeeps
  <2> QED BY <1>2, <2>1, <2>2, <2>3, <2>4
<1> QED BY <1>1, <1>2 DEF Next

LEMMA Invariance ==
    ASSUME QueueAssumption
    PROVE  Spec => []QInv
<1>1. QInv /\ [Next]_vars => QInv'
  BY NextInv
<1> QED BY <1>1, InitInv, PTL DEF Spec

\* All four kinds are well typed, for any number of threads and of slots.
THEOREM TypeCorrect ==
    ASSUME QueueAssumption
    PROVE  Spec => []TypeOK
<1>1. QInv => TypeOK
  BY DEF QInv
<1> QED BY <1>1, Invariance, PTL

LEMMA InvExclusive == QueueAssumption /\ QInv => SlotsExclusive
<1> SUFFICES ASSUME QueueAssumption, QInv, NEW t \in Threads, NEW u \in Threads,
                    t # u, Seen(t), pc[u] = "access", Before(t, u)
             PROVE  Slot(at[t]) # Slot(at[u])
  BY DEF SlotsExclusive
<1>t. /\ Own(t) /\ Own(u) /\ Pair(t, u) /\ Pair(u, t) /\ at[t] \in Nat /\ at[u] \in Nat
      /\ Slots \in Nat \ {0}
      /\ \A s \in Sides : pos[s] \in Nat
      /\ least[t] \in Nat /\ least[u] \in Nat
  BY DEF QInv, TypeOK, QueueAssumption
<1>h. Holds(t) /\ Holds(u) /\ Shielded(t) /\ Looked(u)
  BY DEF Seen, Holds, Shielded, Looked
<1>u. /\ Floor(u) \in Nat /\ Floor(u) <= pos[Other(u)] /\ at[u] < Reach(Side(u), Floor(u))
      /\ pos[Other(t)] <= Reach(Other(t), at[t]) /\ pos[Other(u)] \in Nat
  <2>1. Side(u) \in Sides /\ Other(u) \in Sides
    BY SideType
  <2>2. Limit(u, Floor(u)) = Reach(Side(u), Floor(u))
    BY SideType DEF Limit, Reach
  <2> QED BY <1>h, <1>t, <2>1, <2>2 DEF Own, Floor
<1>1. at[t] < at[u] /\ at[u] < at[t] + Slots
  <2>1. CASE Side(t) = Side(u)
    <3>1. at[t] < at[u] /\ Other(t) = Other(u)
      BY <1>h, <1>t, <2>1, SideType DEF Pair, Before, Side, Other
    <3> QED BY <1>t, <1>u, <2>1, <3>1 DEF Reach, Side, Other
  <2>2. CASE Side(t) = "pop" /\ Side(u) = "push"
    <3>1. Floor(u) <= at[t] /\ at[t] < at[u]
      BY <1>h, <1>t, <2>2 DEF Pair, Before, Side, Threads, QueueAssumption
    <3> QED BY <1>t, <1>u, <2>2, <3>1 DEF Reach
  <2>3. CASE Side(t) = "push" /\ Side(u) = "pop"
    <3>1. Floor(u) <= at[t] /\ at[t] <= at[u]
      BY <1>h, <1>t, <2>3 DEF Pair, Before
    <3> QED BY <1>t, <1>u, <2>3, <3>1 DEF Reach
  <2> QED BY <2>1, <2>2, <2>3 DEF Side
<1> QED BY <1>t, <1>1, SlotsApart DEF Slot

\* However many push and pop, and whichever threads' stores are seen late: nobody gets into the slot of
\* a thread that is not done with it, save where that thread's exchange of its position was seen before
\* its store of `temp`, in which case it is itself the one that is not waited for.
THEOREM OneInASlot ==
    ASSUME QueueAssumption
    PROVE  Spec => []SlotsExclusive
BY InvExclusive, Invariance, PTL

-----------------------------------------------------------------------------
(* It is a first-in first-out queue.                                        *)

\* A push in progress has its argument.
Supplied == \A w \in Writers : pc[w] # "idle" => value[w] \in Values

LEMMA StepMoves ==
    ASSUME QueueAssumption, TypeOK, NEW t \in Threads, Step(t)
    PROVE  /\ pc[t] # "idle"
           /\ \A u \in Threads : u # t => pc'[u] = pc[u] /\ at'[u] = at[u] /\ value'[u] = value[u]
           /\ t \in Writers => value'[t] = value[t]
<1>1. pc[t] # "idle"
  BY DEF Step, LoadBound, LoadCount, Scan, Enter, Claim, ClaimFails, Again, Settle, Access
<1>2. pc' = pc \/ \E label : pc' = [pc EXCEPT ![t] = label]
  BY DEF Step, LoadBound, LoadCount, Scan, Enter, Claim, ClaimFails, Again, Settle, Access,
         Admit, Return, Goto
<1>3. at' = at \/ \E p : at' = [at EXCEPT ![t] = p]
  BY DEF Step, LoadBound, LoadCount, Scan, Enter, Claim, ClaimFails, Again, Settle, Access,
         Admit, Return
<1>4. value' = value \/ (t \notin Writers /\ \E v : value' = [value EXCEPT ![t] = v])
  BY DEF Step, LoadBound, LoadCount, Scan, Enter, Claim, ClaimFails, Again, Settle, Access
<1>5. \A u \in Threads : u # t => pc'[u] = pc[u]
  BY <1>2 DEF TypeOK
<1>6. \A u \in Threads : u # t => at'[u] = at[u]
  BY <1>3 DEF TypeOK
<1>7. (\A u \in Threads : u # t => value'[u] = value[u]) /\ (t \in Writers => value'[t] = value[t])
  BY <1>4 DEF TypeOK
<1> QED BY <1>1, <1>5, <1>6, <1>7

LEMMA SuppliedKept ==
    ASSUME QueueAssumption, QInv, Supplied, [Next]_vars
    PROVE  Supplied'
<1>0. TypeOK
  BY DEF QInv
<1>1. CASE UNCHANGED vars
  BY <1>1 DEF Supplied, vars, locals
<1>2. ASSUME NEW t \in Threads, Register(t) \/ Land(t)
      PROVE  Supplied'
  BY <1>2 DEF Supplied, Register, Land, locals
<1>3. ASSUME NEW t \in Threads, PopBegin(t)
      PROVE  Supplied'
  <2>1. t \notin Writers /\ value' = value /\ pc' = [pc EXCEPT ![t] = "bound"]
    BY <1>3 DEF PopBegin, Begin, Goto, QueueAssumption
  <2>2. \A w \in Writers : pc'[w] = pc[w]
    BY <1>0, <2>1 DEF TypeOK, Threads
  <2> QED BY <2>1, <2>2 DEF Supplied
<1>4. ASSUME NEW t \in Threads, NEW v \in Values, PushBegin(t, v)
      PROVE  Supplied'
  <2>1. value' = [value EXCEPT ![t] = v] /\ pc' = [pc EXCEPT ![t] = "bound"]
    BY <1>4 DEF PushBegin, Begin, Goto
  <2>2. \A w \in Writers : w # t => pc'[w] = pc[w] /\ value'[w] = value[w]
    BY <1>0, <2>1 DEF TypeOK, Threads
  <2>3. value'[t] = v
    BY <1>0, <2>1 DEF TypeOK
  <2> QED BY <2>2, <2>3 DEF Supplied
<1>5. ASSUME NEW t \in Threads, Step(t)
      PROVE  Supplied'
  <2>1. \A w \in Writers : value'[w] = value[w]
    BY <1>0, <1>5, StepMoves DEF Threads
  <2>2. \A w \in Writers : pc'[w] # "idle" => pc[w] # "idle"
    BY <1>0, <1>5, StepMoves DEF Threads
  <2> QED BY <2>1, <2>2 DEF Supplied
<1>6. kind.threads \subseteq Threads
  BY <1>0 DEF TypeOK, QueueAssumption, Kind
<1> QED BY <1>1, <1>2, <1>3, <1>4, <1>5, <1>6 DEF Next

LEMMA Appended ==
    ASSUME NEW S, NEW n \in Nat, NEW f \in [1 .. n -> S], NEW v \in S,
           NEW g \in [1 .. n + 1 -> S], \A i \in 1 .. n : g[i] = f[i], g[n + 1] = v
    PROVE  g = Append(f, v) /\ Len(f) = n
<1>1. f \in Seq(S) /\ Len(f) = n /\ g \in Seq(S) /\ Len(g) = n + 1
  OBVIOUS
<1>2. /\ Append(f, v) \in Seq(S) /\ Len(Append(f, v)) = n + 1
      /\ \A i \in 1 .. n + 1 : Append(f, v)[i] = g[i]
  BY <1>1, AppendProperties
<1> QED BY <1>1, <1>2, SeqEqual

LEMMA Behead ==
    ASSUME NEW S, NEW n \in Nat \ {0}, NEW f \in [1 .. n -> S],
           NEW g \in [1 .. n - 1 -> S], \A i \in 1 .. n - 1 : g[i] = f[i + 1]
    PROVE  g = Tail(f) /\ f # <<>> /\ Head(f) = f[1]
<1>1. /\ f \in Seq(S) /\ Len(f) = n /\ f # <<>>
      /\ g \in Seq(S) /\ Len(g) = n - 1
  OBVIOUS
<1>2. /\ Tail(f) \in Seq(S) /\ Len(Tail(f)) = n - 1
      /\ \A i \in 1 .. n - 1 : Tail(f)[i] = g[i]
  BY <1>1, HeadTailProperties
<1>3. Head(f) = f[1]
  BY <1>1
<1> QED BY <1>1, <1>2, <1>3, SeqEqual

\* What a position holds is a value, or nothing yet.
LEMMA ContentType ==
    ASSUME QueueAssumption, TypeOK, NEW p \in Nat
    PROVE  Content(p) \in Values \cup {None}
<1>1. storage[Slot(p)] \in Values \cup {None}
  BY SlotType DEF TypeOK
<1>2. Writing(p) # {} => (CHOOSE w \in Writing(p) : TRUE) \in Threads
  BY DEF Writing, Threads
<1> QED BY <1>1, <1>2 DEF Content, TypeOK

\* A position holds what it held, if it has the writer it had, or has none and its slot is left alone.
LEMMA ContentKept ==
    ASSUME NEW p \in Nat, Writing(p)' = Writing(p), \A w \in Writing(p) : value'[w] = value[w],
           storage'[Slot(p)] = storage[Slot(p)]
    PROVE  Content(p)' = Content(p)
<1>1. CASE Writing(p) = {}
  BY <1>1 DEF Content, Slot
<1>2. CASE Writing(p) # {}
  <2>1. (CHOOSE w \in Writing(p) : TRUE) \in Writing(p)
    BY <1>2
  <2> QED BY <1>2, <2>1 DEF Content
<1> QED BY <1>1, <1>2

\* The queue as a function, of no more than Slots values.
Shaped == /\ pos["push"] \in Nat /\ pos["pop"] \in Nat
          /\ pos["pop"] <= pos["push"] /\ pos["push"] <= pos["pop"] + Slots
          /\ Contents \in [1 .. pos["push"] - pos["pop"] -> Values \cup {None}]
          /\ \A i \in 1 .. pos["push"] - pos["pop"] : Contents[i] = Content(pos["pop"] + i - 1)

LEMMA ContentsShape ==
    ASSUME QueueAssumption
    PROVE  QInv => Shaped
<1> SUFFICES ASSUME QInv PROVE Shaped
  OBVIOUS
<1>1. /\ pos["push"] \in Nat /\ pos["pop"] \in Nat /\ Slots \in Nat
      /\ pos["pop"] <= pos["push"] /\ pos["push"] <= pos["pop"] + Slots
  <2>1. "push" \in Sides /\ "pop" \in Sides
    BY DEF Sides
  <2> QED BY <2>1 DEF QInv, TypeOK, Abreast, Reach, QueueAssumption
<1>2. \A i \in 1 .. pos["push"] - pos["pop"] : Content(pos["pop"] + i - 1) \in Values \cup {None}
  <2> SUFFICES ASSUME NEW i \in 1 .. pos["push"] - pos["pop"]
               PROVE  Content(pos["pop"] + i - 1) \in Values \cup {None}
    OBVIOUS
  <2>1. pos["pop"] + i - 1 \in Nat
    BY <1>1
  <2> QED BY <2>1, ContentType DEF QInv
<1> QED BY <1>1, <1>2 DEF Contents, Shaped

\* While it accesses it, a thread's position is less than a buffer ahead of the readers,
\* and of each of them that holds one.
LEMMA Ahead ==
    ASSUME QueueAssumption, QInv, unseen = {}, NEW t \in Writers, pc[t] = "access"
    PROVE  /\ at[t] \in Nat /\ pos["pop"] <= at[t] /\ at[t] <= pos["push"]
           /\ at[t] < pos["pop"] + Slots
           /\ \A r \in Readers : Holds(r) => at[t] < at[r] + Slots
<1>1. /\ t \in Threads /\ Own(t) /\ Side(t) = "push" /\ Other(t) = "pop" /\ Holds(t) /\ Looked(t)
      /\ at[t] \in Nat /\ least[t] \in Nat /\ pos["pop"] \in Nat /\ pos["push"] \in Nat /\ Slots \in Nat
  <2>1. "push" \in Sides /\ "pop" \in Sides
    BY DEF Sides
  <2> QED BY <2>1 DEF QInv, TypeOK, Threads, Side, Other, Holds, Looked, QueueAssumption
<1>2. Floor(t) \in Nat /\ Floor(t) <= pos["pop"] /\ at[t] < Floor(t) + Slots
  BY <1>1 DEF Own, Floor, Limit
<1>3. pos["pop"] <= at[t] /\ at[t] <= pos["push"]
  BY <1>1 DEF Own, Shielded, Reach
<1>4. ASSUME NEW r \in Readers, Holds(r)
      PROVE  at[t] < at[r] + Slots
  <2>1. r \in Threads /\ Side(r) # Side(t) /\ at[r] \in Nat
    BY DEF Threads, Side, QueueAssumption, QInv, TypeOK
  <2>2. Floor(t) <= at[r]
    BY <1>1, <1>4, <2>1 DEF QInv, Pair, Shielded
  <2> QED BY <1>1, <1>2, <2>1, <2>2
<1> QED BY <1>1, <1>2, <1>3, <1>4

\* A reader's claimed position is behind the readers.
LEMMA Behind ==
    ASSUME QueueAssumption, QInv, NEW r \in Readers, Claimed(r)
    PROVE  r \in Threads /\ Holds(r) /\ at[r] \in Nat /\ at[r] < pos["pop"]
<1>1. r \in Threads /\ Side(r) = "pop" /\ Own(r)
  BY DEF Threads, Side, QueueAssumption, QInv
<1> QED BY <1>1 DEF Claimed, Holds, Own, QInv, TypeOK

\* The slot a writer accesses holds nothing else that is in the queue, or being popped.
LEMMA WrittenApart ==
    ASSUME QueueAssumption, QInv, unseen = {}, NEW t \in Writers, pc[t] = "access",
           NEW p \in Nat, p # at[t],
           \/ pos["pop"] <= p /\ p < pos["push"]
           \/ \E r \in Readers : Claimed(r) /\ at[r] = p
    PROVE  Slot(p) # Slot(at[t])
<1>1. Slots \in Nat \ {0}
  BY DEF QueueAssumption
<1>2. /\ at[t] \in Nat /\ pos["pop"] \in Nat /\ pos["push"] \in Nat
      /\ pos["pop"] <= at[t] /\ at[t] < pos["pop"] + Slots /\ pos["push"] <= pos["pop"] + Slots
  BY Ahead, ContentsShape DEF Shaped
<1>3. p < at[t] + Slots /\ at[t] < p + Slots
  <2>1. CASE pos["pop"] <= p /\ p < pos["push"]
    BY <1>1, <1>2, <2>1
  <2>2. ASSUME NEW r \in Readers, Claimed(r), at[r] = p
        PROVE  p < at[t] + Slots /\ at[t] < p + Slots
    BY <1>1, <1>2, <2>2, Ahead, Behind
  <2> QED BY <2>1, <2>2
<1>4. CASE p < at[t]
  BY <1>1, <1>2, <1>3, <1>4, SlotsApart DEF Slot
<1>5. CASE at[t] < p
  BY <1>1, <1>2, <1>3, <1>5, SlotsApart DEF Slot
<1> QED BY <1>2, <1>4, <1>5

\* "Make sure we're not going to pop from a position that is being written."
LEMMA NothingWritten ==
    ASSUME QueueAssumption, QInv, unseen = {}, NEW r \in Readers, pc[r] = "access"
    PROVE  Writing(at[r]) = {}
<1>1. /\ r \in Threads /\ Own(r) /\ Side(r) = "pop" /\ Other(r) = "push" /\ Looked(r)
      /\ at[r] \in Nat /\ least[r] \in Nat /\ pos["push"] \in Nat
  <2>1. "push" \in Sides /\ "pop" \in Sides
    BY DEF Sides
  <2> QED BY <2>1 DEF QInv, TypeOK, Threads, Side, Other, Looked, QueueAssumption
<1>2. Floor(r) \in Nat /\ at[r] < Floor(r)
  BY <1>1 DEF Own, Floor, Limit, Side
<1>3. ASSUME NEW w \in Writing(at[r])
      PROVE  FALSE
  <2>1. w \in Writers /\ Claimed(w) /\ at[w] = at[r]
    BY DEF Writing
  <2>2. w \in Threads /\ Side(r) # Side(w) /\ Holds(w)
    BY <1>1, <2>1 DEF Threads, Side, Holds, Claimed
  <2>3. Floor(r) <= at[w]
    BY <1>1, <2>2 DEF QInv, Pair, Shielded
  <2> QED BY <1>1, <1>2, <2>1, <2>3
<1> QED BY <1>3

\* A claimed position has one writer.
WritersApart == \A t \in Writers : Claimed(t) => Writing(at[t]) = {t} /\ Content(at[t]) = value[t]

LEMMA OneWriter ==
    ASSUME QueueAssumption
    PROVE  QInv => WritersApart
<1> SUFFICES ASSUME QInv, NEW t \in Writers, Claimed(t)
             PROVE  Writing(at[t]) = {t} /\ Content(at[t]) = value[t]
  BY DEF WritersApart
<1>1. Writing(at[t]) = {t}
  <2>1. ASSUME NEW w \in Writing(at[t])
        PROVE  w = t
    <3>1. w \in Threads /\ t \in Threads /\ Side(w) = "push" /\ Side(t) = "push" /\ at[w] = at[t]
          /\ Holds(w) /\ Holds(t)
      BY DEF Writing, Threads, Side, Claimed, Holds
    <3> QED BY <3>1 DEF QInv, Pair
  <2> QED BY <2>1 DEF Writing
<1>2. (CHOOSE w \in {t} : TRUE) = t
  OBVIOUS
<1> QED BY <1>1, <1>2 DEF Content

LEMMA SameContents ==
    ASSUME Shaped, pos' = pos,
           \A p \in Nat : pos["pop"] <= p /\ p < pos["push"] => Content(p)' = Content(p)
    PROVE  Contents' = Contents
<1>1. ASSUME NEW i \in 1 .. pos["push"] - pos["pop"]
      PROVE  Content(pos["pop"] + i - 1)' = Content(pos["pop"] + i - 1)
  <2>1. PICK p \in Nat : p = pos["pop"] + i - 1 /\ pos["pop"] <= p /\ p < pos["push"]
    BY DEF Shaped
  <2>2. (pos["pop"] + i - 1)' = p
    BY <2>1
  <2> QED BY <2>1, <2>2 DEF Content, Writing, Slot
<1> QED BY <1>1 DEF Contents

LEMMA SamePopped ==
    ASSUME QueueAssumption, QInv,
           \A r \in Readers : /\ Claimed(r)' <=> Claimed(r)
                              /\ IF Claimed(r) THEN at'[r] = at[r] ELSE value'[r] = value[r],
           \A p \in Nat : (\E r \in Readers : Claimed(r) /\ at[r] = p) => Content(p)' = Content(p)
    PROVE  Popped' = Popped
<1>1. ASSUME NEW r \in Readers, Claimed(r)
      PROVE  Content(at[r])' = Content(at[r])
  <2>1. PICK p \in Nat : p = at[r]
    BY <1>1, Behind
  <2>2. Content(p)' = Content(p) /\ at'[r] = p
    BY <1>1, <2>1
  <2> QED BY <2>1, <2>2 DEF Content, Writing, Slot
<1> QED BY <1>1 DEF Popped

\* A step that claims nothing and gives nothing up leaves the queue alone.
LEMMA Unmoved ==
    ASSUME QueueAssumption, QInv, UNCHANGED <<kind, pos, storage>>,
           \A u \in Threads : /\ Claimed(u)' <=> Claimed(u)
                              /\ Claimed(u) => at'[u] = at[u]
                              /\ Claimed(u) \/ u \in Readers => value'[u] = value[u]
    PROVE  Contents' = Contents /\ Popped' = Popped
<1>1. ASSUME NEW p \in Nat
      PROVE  Content(p)' = Content(p)
  <2>1. Writing(p)' = Writing(p) /\ \A w \in Writing(p) : value'[w] = value[w]
    BY DEF Writing, Threads
  <2> QED BY <2>1, ContentKept
<1>2. Shaped
  BY ContentsShape
<1>3. \A r \in Readers : /\ Claimed(r)' <=> Claimed(r)
                        /\ IF Claimed(r) THEN at'[r] = at[r] ELSE value'[r] = value[r]
  BY DEF Threads
<1> QED BY <1>1, <1>2, <1>3, SameContents, SamePopped

LEMMA QuietSteps ==
    ASSUME QueueAssumption, QInv, NEW t \in Threads,
           \/ Register(t) \/ (\E v \in Values : PushBegin(t, v)) \/ PopBegin(t)
           \/ LoadBound(t) \/ LoadCount(t) \/ Scan(t)
           \/ Enter(t) \/ ClaimFails(t) \/ Again(t) \/ Settle(t)
    PROVE  Contents' = Contents /\ Popped' = Popped
<1>0. TypeOK /\ pc \in [Threads -> Calls] /\ at \in [Threads -> Nat]
      /\ value \in [Threads -> Values \cup {None}]
  BY DEF QInv, TypeOK
<1>1. CASE Register(t)
  <2>1. UNCHANGED <<kind, pos, storage, pc, at, value>>
    BY <1>1 DEF Register, locals
  <2> QED BY <1>0, <2>1, Unmoved DEF Claimed, Crowded
<1>2. CASE PopBegin(t) \/ \E v \in Values : PushBegin(t, v)
  <2>1. /\ pc[t] = "idle" /\ UNCHANGED <<kind, pos, storage>>
        /\ pc' = [pc EXCEPT ![t] = "bound"] /\ at' = [at EXCEPT ![t] = pos[Side(t)]]
        /\ t \in Readers => value' = value
        /\ value' = value \/ \E v : value' = [value EXCEPT ![t] = v]
    BY <1>2 DEF PopBegin, PushBegin, Begin, Goto, shared, QueueAssumption
  <2>2. \A u \in Threads : u # t => pc'[u] = pc[u] /\ at'[u] = at[u] /\ value'[u] = value[u]
    BY <1>0, <2>1
  <2>3. pc'[t] = "bound"
    BY <1>0, <2>1
  <2> QED BY <1>0, <2>1, <2>2, <2>3, Unmoved DEF Claimed, Crowded
<1>3. CASE Settle(t)
  <2>1. pc[t] = "settle" /\ UNCHANGED <<kind, pos, storage, at, value>> /\ pc' = [pc EXCEPT ![t] = "access"]
    BY <1>3 DEF Settle, Goto
  <2>2. pc'[t] = "access" /\ \A u \in Threads : u # t => pc'[u] = pc[u]
    BY <1>0, <2>1
  <2> QED BY <1>0, <2>1, <2>2, Unmoved DEF Claimed, Crowded
<1>4. CASE \/ LoadBound(t) \/ LoadCount(t) \/ Scan(t)
           \/ Enter(t) \/ ClaimFails(t) \/ Again(t)
  <2>1. UNCHANGED <<kind, pos, storage, value>> /\ pc[t] \notin {"settle", "access"}
    BY <1>4 DEF LoadBound, LoadCount, Scan, Enter, ClaimFails, Again, shared
  <2>2. \/ pc' = pc
        \/ \E label \in Calls : /\ pc' = [pc EXCEPT ![t] = label]
                                /\ label = "access" => ~Crowded(Side(t))
                                /\ label # "settle"
    BY <1>4 DEF LoadBound, LoadCount, Scan, Enter, ClaimFails, Again, Admit, Return, Goto, Calls
  <2>3. Crowded(Side(t)) => pc'[t] \notin {"settle", "access"}
    <3>1. CASE pc' = pc
      BY <2>1, <3>1
    <3>2. CASE pc' # pc
      <4>1. PICK label \in Calls : /\ pc' = [pc EXCEPT ![t] = label]
                                   /\ label = "access" => ~Crowded(Side(t))
                                   /\ label # "settle"
        BY <2>2, <3>2
      <4>2. pc'[t] = label
        BY <1>0, <4>1
      <4> QED BY <4>1, <4>2
    <3> QED BY <3>1, <3>2
  <2>4. \A u \in Threads : u # t => pc'[u] = pc[u] /\ at'[u] = at[u]
    BY <1>0, <1>4, StepMoves DEF Step
  <2> QED BY <1>0, <2>1, <2>3, <2>4, Unmoved DEF Claimed, Crowded
<1> QED BY <1>1, <1>2, <1>3, <1>4

\* The writers' position moves on, past a position that holds v: v is pushed.
LEMMA PushMaps ==
    ASSUME QueueAssumption, Shaped, Shaped', NEW v \in Values,
           pos'["push"] = pos["push"] + 1, pos'["pop"] = pos["pop"], pos["push"] < pos["pop"] + Slots,
           \A p \in Nat : pos["pop"] <= p /\ p < pos["push"] => Content(p)' = Content(p),
           \A p \in Nat : p = pos["push"] => Content(p)' = v,
           Popped' = Popped
    PROVE  Queue!Push(v)
<1> DEFINE n == pos["push"] - pos["pop"]
<1>1. /\ n \in Nat /\ n < Slots /\ pos["pop"] \in Nat
      /\ Contents \in [1 .. n -> Values \cup {None}]
      /\ \A i \in 1 .. n : Contents[i] = Content(pos["pop"] + i - 1)
  BY DEF Shaped, QueueAssumption
<1>2. /\ Contents' \in [1 .. n + 1 -> Values \cup {None}]
      /\ \A i \in 1 .. n + 1 : Contents'[i] = Content(pos["pop"] + i - 1)'
  BY DEF Shaped
<1>3. ASSUME NEW i \in 1 .. n + 1
      PROVE  Contents'[i] = IF i = n + 1 THEN v ELSE Contents[i]
  <2>1. PICK p \in Nat : p = pos["pop"] + i - 1
    BY <1>1
  <2>2. Contents'[i] = Content(p)'
    <3>1. (pos["pop"] + i - 1)' = p
      BY <2>1
    <3> QED BY <1>2, <3>1 DEF Content, Writing, Slot
  <2>3. CASE i = n + 1
    BY <1>1, <2>1, <2>2, <2>3 DEF Shaped
  <2>4. CASE i \in 1 .. n
    BY <1>1, <2>1, <2>2, <2>4 DEF Shaped
  <2> QED BY <1>1, <2>3, <2>4
<1>4. Contents' = Append(Contents, v) /\ Len(Contents) = n
  <2> HIDE DEF n
  <2>1. \A i \in 1 .. n : i \in 1 .. n + 1 /\ i # n + 1
    BY <1>1
  <2>2. n + 1 \in 1 .. n + 1
    BY <1>1
  <2> QED BY <1>1, <1>2, <1>3, <2>1, <2>2, Appended
<1> QED BY <1>1, <1>4 DEF Queue!Push

\* The readers' position moves on, and one of them has what it was at: that is popped.
LEMMA PopMaps ==
    ASSUME QueueAssumption, Shaped, Shaped', NEW r \in Readers,
           pos'["pop"] = pos["pop"] + 1, pos'["push"] = pos["push"], pos["pop"] < pos["push"],
           \A p \in Nat : pos["pop"] < p /\ p < pos["push"] => Content(p)' = Content(p),
           Popped' = [Popped EXCEPT ![r] = Content(pos["pop"])]
    PROVE  Queue!Pop(r)
<1> DEFINE n == pos["push"] - pos["pop"]
<1>1. /\ n \in Nat \ {0} /\ pos["pop"] \in Nat
      /\ Contents \in [1 .. n -> Values \cup {None}]
      /\ \A i \in 1 .. n : Contents[i] = Content(pos["pop"] + i - 1)
  BY DEF Shaped
<1>2. /\ Contents' \in [1 .. n - 1 -> Values \cup {None}]
      /\ \A i \in 1 .. n - 1 : Contents'[i] = Content(pos["pop"] + i - 1)'
  <2>1. pos'["push"] - pos'["pop"] = n - 1
    BY DEF Shaped
  <2> QED BY <2>1 DEF Shaped
<1>3. ASSUME NEW i \in 1 .. n - 1
      PROVE  Contents'[i] = Contents[i + 1]
  <2>1. PICK p \in Nat : p = pos["pop"] + i
    BY <1>1
  <2>2. Contents'[i] = Content(p)'
    <3>1. (pos["pop"] + i - 1)' = p
      BY <1>1, <2>1
    <3> QED BY <1>2, <3>1 DEF Content, Writing, Slot
  <2>3. i + 1 \in 1 .. n /\ pos["pop"] + (i + 1) - 1 = p
    BY <1>1, <2>1
  <2>4. pos["pop"] < p /\ p < pos["push"]
    BY <1>1, <2>1 DEF Shaped
  <2> QED BY <1>1, <2>2, <2>3, <2>4
<1>4. Contents' = Tail(Contents) /\ Contents # <<>> /\ Head(Contents) = Contents[1]
  <2> HIDE DEF n
  <2> QED BY <1>1, <1>2, <1>3, Behead
<1>5. Contents[1] = Content(pos["pop"])
  <2>1. 1 \in 1 .. n /\ pos["pop"] + 1 - 1 = pos["pop"]
    BY <1>1
  <2> QED BY <1>1, <2>1
<1> QED BY <1>4, <1>5 DEF Queue!Pop

\* A thread that claims or accesses its position leaves the others as they were.
LEMMA OthersClaims ==
    ASSUME QueueAssumption, TypeOK, NEW t \in Threads, Step(t), kind' = kind
    PROVE  \A u \in Threads : u # t => /\ Claimed(u)' <=> Claimed(u)
                                     /\ at'[u] = at[u] /\ value'[u] = value[u]
BY StepMoves DEF Claimed, Crowded

\* A writer of many takes the next position: its value is the newest.
LEMMA WriterClaims ==
    ASSUME QueueAssumption, QInv, QInv', Supplied, NEW t \in Writers, Claim(t)
    PROVE  Queue!Push(value[t])
<1>1. /\ t \in Threads /\ Side(t) = "push" /\ Crowded("push") /\ Own(t) /\ Looked(t)
      /\ pc[t] \in {"claim", "reclaim"} /\ at[t] = pos["push"] /\ value[t] \in Values
      /\ pos["push"] \in Nat /\ pos["pop"] \in Nat /\ Slots \in Nat /\ least[t] \in Nat
  <2>1. t \in Threads /\ Side(t) = "push" /\ pc[t] \in {"claim", "reclaim"} /\ at[t] = pos["push"]
    BY DEF Threads, Side, Claim
  <2>2. "push" \in Sides /\ "pop" \in Sides
    BY DEF Sides
  <2> QED BY <2>1, <2>2 DEF QInv, TypeOK, Own, Looked, Supplied, QueueAssumption
<1>2. UNCHANGED <<kind, storage, at, value>> /\ pos' = [pos EXCEPT !["push"] = @ + 1]
  BY <1>1 DEF Claim
<1>3. pos'["push"] = pos["push"] + 1 /\ pos'["pop"] = pos["pop"]
  BY <1>1, <1>2 DEF QInv, TypeOK, Sides
<1>4. Claimed(t)' /\ ~Claimed(t) /\ \A u \in Threads : u # t => (Claimed(u)' <=> Claimed(u))
  <2>1. pc'[t] \in {"access", "settle"}
    BY <1>1 DEF Claim, Goto, QInv, TypeOK
  <2>2. Step(t) /\ TypeOK
    BY DEF Step, QInv
  <2> QED BY <1>1, <1>2, <2>1, <2>2, OthersClaims DEF Claimed, Crowded
<1>5. ASSUME NEW p \in Nat, p # pos["push"]
      PROVE  Content(p)' = Content(p)
  <2>1. Writing(p)' = Writing(p)
    BY <1>1, <1>2, <1>4, <1>5 DEF Writing, Threads
  <2> QED BY <1>2, <2>1, ContentKept
<1>6. ASSUME NEW p \in Nat, p = pos["push"]
      PROVE  Content(p)' = value[t]
  <2>1. Content(at[t])' = value'[t]
    <3>1. WritersApart'
      BY OneWriter, PTL
    <3> QED BY <1>4, <3>1 DEF WritersApart
  <2>2. at'[t] = p
    BY <1>1, <1>2, <1>6
  <2> QED BY <1>2, <2>1, <2>2 DEF Content, Writing, Slot
<1>7. pos["push"] < pos["pop"] + Slots
  BY <1>1 DEF Own, Floor, Limit, Other
<1>8. Popped' = Popped
  <2>1. \A r \in Readers : r \in Threads /\ r # t
    BY DEF Threads, QueueAssumption
  <2>2. \A r \in Readers : Claimed(r) => at[r] # pos["push"]
    BY <1>1, Behind, ContentsShape DEF Shaped
  <2> QED BY <1>2, <1>4, <1>5, <2>1, <2>2, SamePopped
<1>9. Shaped /\ Shaped'
  BY ContentsShape, PTL
<1> QED BY <1>1, <1>3, <1>5, <1>6, <1>7, <1>8, <1>9, PushMaps

\* A reader of many takes the next position: what it holds is popped.
LEMMA ReaderClaims ==
    ASSUME QueueAssumption, QInv, QInv', NEW t \in Readers, Claim(t)
    PROVE  Queue!Pop(t)
<1>1. /\ t \in Threads /\ Side(t) = "pop" /\ Crowded("pop") /\ Own(t) /\ Looked(t)
      /\ pc[t] \in {"claim", "reclaim"} /\ at[t] = pos["pop"]
      /\ pos["push"] \in Nat /\ pos["pop"] \in Nat /\ least[t] \in Nat
  <2>1. t \in Threads /\ Side(t) = "pop" /\ pc[t] \in {"claim", "reclaim"} /\ at[t] = pos["pop"]
    BY DEF Threads, Side, Claim, QueueAssumption
  <2>2. "push" \in Sides /\ "pop" \in Sides
    BY DEF Sides
  <2> QED BY <2>1, <2>2 DEF QInv, TypeOK, Own, Looked
<1>2. UNCHANGED <<kind, storage, at, value>> /\ pos' = [pos EXCEPT !["pop"] = @ + 1]
  BY <1>1 DEF Claim
<1>3. pos'["pop"] = pos["pop"] + 1 /\ pos'["push"] = pos["push"]
  BY <1>1, <1>2 DEF QInv, TypeOK, Sides
<1>4. Claimed(t)' /\ ~Claimed(t) /\ \A u \in Threads : u # t => (Claimed(u)' <=> Claimed(u))
  <2>1. pc'[t] \in {"access", "settle"}
    BY <1>1 DEF Claim, Goto, QInv, TypeOK
  <2>2. Step(t) /\ TypeOK
    BY DEF Step, QInv
  <2> QED BY <1>1, <1>2, <2>1, <2>2, OthersClaims DEF Claimed, Crowded
<1>5. ASSUME NEW p \in Nat
      PROVE  Content(p)' = Content(p)
  <2>1. Writing(p)' = Writing(p)
    BY <1>1, <1>2, <1>4 DEF Writing, Threads, QueueAssumption
  <2> QED BY <1>2, <2>1, ContentKept
<1>6. pos["pop"] < pos["push"]
  BY <1>1 DEF Own, Floor, Limit, Other, Side
<1>7. Popped' = [Popped EXCEPT ![t] = Content(pos["pop"])]
  <2>1. ASSUME NEW r \in Readers
        PROVE  (IF Claimed(r) THEN Content(at[r]) ELSE value[r])'
                 = IF r = t THEN Content(pos["pop"]) ELSE IF Claimed(r) THEN Content(at[r]) ELSE value[r]
    <3>1. r \in Threads /\ (r # t => Claimed(r)' = Claimed(r)) /\ value' = value /\ at' = at /\ at[r] \in Nat
      BY <1>2, <1>4 DEF Threads, QInv, TypeOK, Claimed
    <3>2. PICK p \in Nat : p = at[r]
      BY <3>1
    <3>3. Content(at[r])' = Content(at[r])
      BY <1>5, <3>1, <3>2 DEF Content, Writing, Slot
    <3> QED BY <1>1, <1>4, <3>1, <3>3
  <2> QED BY <2>1 DEF Popped
<1>9. Shaped /\ Shaped'
  BY ContentsShape, PTL
<1> QED BY <1>1, <1>3, <1>5, <1>6, <1>7, <1>9, PopMaps

\* What is written to its slot is what the position held already, by its writer.
LEMMA WriterFinishes ==
    ASSUME QueueAssumption, QInv, unseen = {}, NEW t \in Writers, Access(t), Crowded("push")
    PROVE  Contents' = Contents /\ Popped' = Popped
<1>1. /\ t \in Threads /\ Side(t) = "push" /\ Step(t) /\ TypeOK /\ pc[t] = "access" /\ Claimed(t)
      /\ UNCHANGED <<kind, pos, value>> /\ storage' = [storage EXCEPT ![Slot(at[t])] = value[t]]
  BY DEF Threads, Side, Step, Access, QInv, Claimed
<1>2. Slot(at[t]) \in 0 .. Slots - 1 /\ storage \in [0 .. Slots - 1 -> Values \cup {None}]
  BY <1>1, Ahead, SlotType DEF TypeOK
<1>3. ~Claimed(t)' /\ \A u \in Threads : u # t => (Claimed(u)' <=> Claimed(u)) /\ at'[u] = at[u]
  <2>1. pc'[t] = "idle"
    BY <1>1 DEF Access, Return, Goto, TypeOK
  <2> QED BY <1>1, <2>1, OthersClaims DEF Claimed
<1>4. Content(at[t]) = value[t]
  BY <1>1, OneWriter DEF WritersApart
<1>5. ASSUME NEW p \in Nat,
             \/ pos["pop"] <= p /\ p < pos["push"]
             \/ \E r \in Readers : Claimed(r) /\ at[r] = p
      PROVE  Content(p)' = Content(p)
  <2>1. CASE p = at[t]
    <3>1. Writing(p)' = {}
      <4>1. \A w \in Writers : w # t => w \in Threads /\ (Claimed(w)' <=> Claimed(w)) /\ at'[w] = at[w]
        BY <1>3 DEF Threads
      <4>2. Writing(p) = {t}
        BY <1>1, <2>1, OneWriter DEF WritersApart
      <4> QED BY <1>3, <4>1, <4>2 DEF Writing
    <3>2. storage'[Slot(p)] = value[t]
      BY <1>1, <1>2, <2>1
    <3> QED BY <1>4, <2>1, <3>1, <3>2 DEF Content, Slot
  <2>2. CASE p # at[t]
    <3>1. Slot(p) # Slot(at[t])
      BY <1>1, <1>5, <2>2, WrittenApart
    <3>2. storage'[Slot(p)] = storage[Slot(p)]
      BY <1>1, <1>2, <3>1, SlotType
    <3>3. Writing(p)' = Writing(p)
      BY <1>1, <1>3, <2>2 DEF Writing, Threads
    <3> QED BY <1>1, <3>2, <3>3, ContentKept
  <2> QED BY <2>1, <2>2
<1>6. \A r \in Readers : r \in Threads /\ r # t
  BY DEF Threads, QueueAssumption
<1> QED BY <1>1, <1>3, <1>5, <1>6, ContentsShape, SameContents, SamePopped

\* A lone writer's value is pushed when it is in its slot.
LEMMA WriterPushes ==
    ASSUME QueueAssumption, QInv, unseen = {}, QInv', Supplied, NEW t \in Writers, Access(t), ~Crowded("push")
    PROVE  Queue!Push(value[t])
<1>1. /\ t \in Threads /\ Side(t) = "push" /\ Step(t) /\ TypeOK /\ pc[t] = "access" /\ Own(t)
      /\ UNCHANGED <<kind, value>> /\ storage' = [storage EXCEPT ![Slot(at[t])] = value[t]]
      /\ pos' = [pos EXCEPT !["push"] = at[t] + 1] /\ value[t] \in Values
  BY DEF Threads, Side, Step, Access, QInv, Supplied
<1>2. Slot(at[t]) \in 0 .. Slots - 1 /\ storage \in [0 .. Slots - 1 -> Values \cup {None}]
  BY <1>1, Ahead, SlotType DEF TypeOK
<1>3. pos["push"] = at[t] /\ pos'["push"] = pos["push"] + 1 /\ pos'["pop"] = pos["pop"]
  BY <1>1 DEF TypeOK, Sides, Own
<1>4. /\ \A w \in Writers : ~Claimed(w) /\ ~Claimed(w)'
      /\ \A u \in Threads : u # t => (Claimed(u)' <=> Claimed(u)) /\ at'[u] = at[u]
  BY <1>1, OthersClaims DEF Claimed, Crowded, Side
<1>5. \A p \in Nat : Writing(p) = {} /\ Writing(p)' = {}
  BY <1>4 DEF Writing
<1>6. ASSUME NEW p \in Nat, p # at[t],
             \/ pos["pop"] <= p /\ p < pos["push"]
             \/ \E r \in Readers : Claimed(r) /\ at[r] = p
      PROVE  Content(p)' = Content(p)
  <2>1. Slot(p) # Slot(at[t])
    BY <1>1, <1>6, WrittenApart
  <2>2. storage'[Slot(p)] = storage[Slot(p)]
    BY <1>1, <1>2, <2>1, SlotType
  <2> QED BY <1>5, <2>2, ContentKept
<1>7. ASSUME NEW p \in Nat, p = pos["push"]
      PROVE  Content(p)' = value[t]
  <2>1. storage'[Slot(p)] = value[t]
    BY <1>1, <1>2, <1>3, <1>7
  <2> QED BY <1>5, <2>1 DEF Content, Slot
<1>8. Popped' = Popped
  <2>1. \A r \in Readers : r \in Threads /\ r # t
    BY DEF Threads, QueueAssumption
  <2>2. \A r \in Readers : Claimed(r) => at[r] # at[t]
    BY <1>1, Ahead, Behind, ContentsShape DEF Shaped
  <2> QED BY <1>1, <1>4, <1>6, <2>1, <2>2, SamePopped
<1>9. Shaped /\ Shaped'
  BY ContentsShape, PTL
<1>10. pos["push"] < pos["pop"] + Slots
  BY <1>1, <1>3, Ahead
<1>11. \A p \in Nat : pos["pop"] <= p /\ p < pos["push"] => Content(p)' = Content(p)
  BY <1>3, <1>6, <1>9 DEF Shaped
<1> QED BY <1>1, <1>3, <1>7, <1>8, <1>9, <1>10, <1>11, PushMaps

\* A reader of many takes out what its position holds.
LEMMA ReaderFinishes ==
    ASSUME QueueAssumption, QInv, unseen = {}, NEW t \in Readers, Access(t), Crowded("pop")
    PROVE  Contents' = Contents /\ Popped' = Popped
<1>1. /\ t \in Threads /\ t \notin Writers /\ Side(t) = "pop" /\ Step(t) /\ TypeOK /\ pc[t] = "access" /\ Claimed(t)
      /\ UNCHANGED <<kind, pos, storage>> /\ value' = [value EXCEPT ![t] = storage[Slot(at[t])]]
  BY DEF Threads, Side, Step, Access, QInv, Claimed, QueueAssumption
<1>2. ~Claimed(t)' /\ \A u \in Threads : u # t => /\ Claimed(u)' <=> Claimed(u)
                                                /\ at'[u] = at[u] /\ value'[u] = value[u]
  <2>1. pc'[t] = "idle"
    BY <1>1 DEF Access, Return, Goto, TypeOK
  <2> QED BY <1>1, <2>1, OthersClaims DEF Claimed
<1>3. ASSUME NEW p \in Nat
      PROVE  Content(p)' = Content(p)
  <2>1. Writing(p)' = Writing(p) /\ \A w \in Writing(p) : value'[w] = value[w]
    BY <1>1, <1>2 DEF Writing, Threads
  <2> QED BY <1>1, <2>1, ContentKept
<1>4. Content(at[t]) = value'[t]
  <2>1. Writing(at[t]) = {}
    BY <1>1, NothingWritten
  <2>2. value'[t] = storage[Slot(at[t])]
    BY <1>1 DEF TypeOK
  <2> QED BY <2>1, <2>2 DEF Content
<1>5. Popped' = Popped
  <2>1. ASSUME NEW r \in Readers
        PROVE  (IF Claimed(r) THEN Content(at[r]) ELSE value[r])'
                 = IF Claimed(r) THEN Content(at[r]) ELSE value[r]
    <3>1. CASE r = t
      BY <1>1, <1>2, <1>4, <3>1
    <3>2. CASE r # t
      <4>1. (Claimed(r)' <=> Claimed(r)) /\ at'[r] = at[r] /\ value'[r] = value[r] /\ at[r] \in Nat
        BY <1>1, <1>2, <3>2 DEF Threads, TypeOK
      <4>2. PICK p \in Nat : p = at[r]
        BY <4>1
      <4>3. Content(at[r])' = Content(at[r])
        BY <1>3, <4>1, <4>2 DEF Content, Writing, Slot
      <4> QED BY <4>1, <4>3
    <3> QED BY <3>1, <3>2
  <2> QED BY <2>1 DEF Popped
<1> QED BY <1>1, <1>3, <1>5, ContentsShape, SameContents

\* What a lone reader takes out is popped.
LEMMA ReaderPops ==
    ASSUME QueueAssumption, QInv, unseen = {}, QInv', NEW t \in Readers, Access(t), ~Crowded("pop")
    PROVE  Queue!Pop(t)
<1>1. /\ t \in Threads /\ t \notin Writers /\ Side(t) = "pop" /\ Other(t) = "push" /\ Step(t) /\ TypeOK
      /\ pc[t] = "access" /\ Own(t) /\ Looked(t)
      /\ UNCHANGED <<kind, storage>> /\ value' = [value EXCEPT ![t] = storage[Slot(at[t])]]
      /\ pos' = [pos EXCEPT !["pop"] = at[t] + 1]
  BY DEF Threads, Side, Other, Step, Access, QInv, Looked, QueueAssumption
<1>2. pos["pop"] = at[t] /\ pos'["pop"] = pos["pop"] + 1 /\ pos'["push"] = pos["push"]
  BY <1>1 DEF TypeOK, Sides, Own
<1>3. /\ \A r \in Readers : ~Claimed(r) /\ ~Claimed(r)'
      /\ \A u \in Threads : u # t => /\ Claimed(u)' <=> Claimed(u)
                                    /\ at'[u] = at[u] /\ value'[u] = value[u]
  <2>1. \A r \in Readers : Side(r) = "pop"
    BY DEF Side, QueueAssumption
  <2> QED BY <1>1, <2>1, OthersClaims DEF Claimed, Crowded
<1>4. ASSUME NEW p \in Nat
      PROVE  Content(p)' = Content(p)
  <2>1. Writing(p)' = Writing(p) /\ \A w \in Writing(p) : value'[w] = value[w]
    BY <1>1, <1>3 DEF Writing, Threads
  <2> QED BY <1>1, <2>1, ContentKept
<1>5. Content(pos["pop"]) = value'[t]
  <2>1. Writing(at[t]) = {}
    BY <1>1, NothingWritten
  <2>2. value'[t] = storage[Slot(at[t])]
    BY <1>1 DEF TypeOK
  <2> QED BY <1>2, <2>1, <2>2 DEF Content
<1>6. Popped' = [Popped EXCEPT ![t] = Content(pos["pop"])]
  BY <1>3, <1>5 DEF Popped, Threads
<1>7. pos["pop"] < pos["push"]
  <2>1. least[t] \in Nat /\ pos["push"] \in Nat /\ at[t] \in Nat
    BY <1>1 DEF TypeOK, Sides
  <2> QED BY <1>1, <1>2, <2>1 DEF Own, Floor, Limit
<1>9. Shaped /\ Shaped'
  BY ContentsShape, PTL
<1> QED BY <1>2, <1>4, <1>6, <1>7, <1>9, PopMaps

LEMMA InitMaps == QueueAssumption /\ Init => Queue!FifoInit /\ Supplied
<1> SUFFICES ASSUME QueueAssumption, Init PROVE Queue!FifoInit /\ Supplied
  OBVIOUS
<1>1. pos["push"] = 0 /\ pos["pop"] = 0
  BY DEF Init, Sides
<1>2. Contents = <<>>
  BY <1>1 DEF Contents
<1>3. \A t \in Threads : pc[t] = "idle" /\ value[t] = None
  BY DEF Init
<1>4. Popped = [r \in Readers |-> None]
  BY <1>3 DEF Popped, Claimed, Threads
<1> QED BY <1>2, <1>3, <1>4 DEF Queue!FifoInit, Supplied, Threads

\* No position is taken before its scope is seen, in this step or earlier.
LEMMA InOrder ==
    ASSUME QInv, [Next]_vars, ~overtaken'
    PROVE  unseen = {}
<1>1. overtaken' = overtaken \/ overtaken' = TRUE
  BY DEF Next, Step, Register, PushBegin, PopBegin, Begin, LoadBound, LoadCount, Scan, Enter, Claim, ClaimFails,
         Again, Settle, Access, Land, vars, shared
<1> QED BY <1>1 DEF QInv, Counted

LEMMA NextMaps ==
    ASSUME QueueAssumption, QInv, QInv', Supplied, [Next]_vars
    PROVE  [Queue!FifoNext \/ overtaken']_<<Contents, Popped>>
<1> SUFFICES ASSUME ~overtaken' PROVE [Queue!FifoNext]_<<Contents, Popped>>
  OBVIOUS
<1>0. unseen = {}
  BY InOrder
<1>1. CASE UNCHANGED vars
  <2>1. UNCHANGED <<kind, pos, storage, pc, at, value>>
    BY <1>1 DEF vars, shared, locals
  <2> QED BY <2>1, Unmoved DEF Claimed, Crowded
<1>2. ASSUME NEW t \in Threads, Claim(t)
      PROVE  Queue!FifoNext
  <2>1. CASE t \in Writers
    <3>1. value[t] \in Values
      BY <1>2, <2>1 DEF Supplied, Claim
    <3> QED BY <1>2, <2>1, <3>1, WriterClaims DEF Queue!FifoNext
  <2>2. CASE t \in Readers
    BY <1>2, <2>2, ReaderClaims DEF Queue!FifoNext
  <2> QED BY <2>1, <2>2 DEF Threads
<1>3. ASSUME NEW t \in Threads, Access(t)
      PROVE  Queue!FifoNext \/ (Contents' = Contents /\ Popped' = Popped)
  <2>1. CASE t \in Writers
    <3>1. value[t] \in Values
      BY <1>3, <2>1 DEF Supplied, Access
    <3> QED BY <1>0, <1>3, <2>1, <3>1, WriterFinishes, WriterPushes DEF Queue!FifoNext
  <2>2. CASE t \in Readers
    BY <1>0, <1>3, <2>2, ReaderFinishes, ReaderPops DEF Queue!FifoNext
  <2> QED BY <2>1, <2>2 DEF Threads
<1>4. kind.threads \subseteq Threads
  BY DEF QInv, TypeOK, QueueAssumption, Kind
<1>5. ASSUME NEW t \in kind.threads, Land(t)
      PROVE  Contents' = Contents /\ Popped' = Popped
  <2>1. UNCHANGED <<kind, pos, storage, pc, at, value>>
    BY <1>5 DEF Land, locals
  <2> QED BY <2>1, Unmoved DEF Claimed, Crowded
<1> QED BY <1>1, <1>2, <1>3, <1>4, <1>5, QuietSteps DEF Next, Step

\* Whatever its kind, its capacity and the threads that use it, a Lock_free_queue is a bounded
\* queue: each value pushed is popped by one reader, in the order the pushes took effect; until, on a
\* side of many, an exchange of the position is seen before the taker's store of `temp`.
THEOREM RefinesFifo ==
    ASSUME QueueAssumption
    PROVE  Spec => Refines
<1>1. Init => Queue!FifoInit /\ Supplied
  BY InitMaps
<1>2. QInv /\ Supplied /\ [Next]_vars => Supplied'
  BY SuppliedKept
<1>3. QInv /\ QInv' /\ Supplied /\ [Next]_vars => [Queue!FifoNext \/ overtaken']_<<Contents, Popped>>
  BY NextMaps
<1> QED BY <1>1, <1>2, <1>3, Invariance, PTL DEF Spec, Refines

=============================================================================
