--------------------------- MODULE StateSyncProofs ---------------------------
(***************************************************************************)
(* For all documents and gestures, whatever the plan, the wires and the    *)
(* number of loads: what is in flight is well formed, no gesture is        *)
(* forgotten until a patch that carries it was applied, and the view is    *)
(* what is confirmed with what is pending on top.                          *)
(***************************************************************************)
EXTENDS StateSync, SequenceTheorems, WellFoundedInduction, TLAPS

-----------------------------------------------------------------------------
(* Replays *)

\* A set of naturals that is not empty has a least element: the proofs here use it where a pen would use induction.
LEMMA LeastNatural ==
    ASSUME NEW T \in SUBSET Nat, T # {}
    PROVE  \E m \in T : \A k \in T : m <= k
<1> DEFINE R == {ss \in Nat \X Nat : ss[1] < ss[2]}
<1>1. IsWellFoundedOn(R, Nat)
  BY NatLessThanWellFounded, Zenon DEF OpToRel
<1>2. \A x, y \in Nat : x < y => <<x, y>> \in R
  OBVIOUS
<1> HIDE DEF R
<1>3. PICK m \in T : \A k \in T : ~(<<k, m>> \in R)
  BY <1>1, WFMin
<1>4. \A k \in T : ~(k < m)
  BY <1>2, <1>3, Zenon
<1> QED BY <1>4

\* So what holds of 0, and of n + 1 when of n, holds of all up to N.
LEMMA Climbs ==
    ASSUME NEW N \in Nat, NEW T, 0 \in T, \A n \in 0 .. N - 1 : n \in T => n + 1 \in T
    PROVE  0 .. N \subseteq T
<1> SUFFICES ASSUME 0 .. N \ T # {} PROVE FALSE
  OBVIOUS
<1>1. 0 .. N \ T \in SUBSET Nat
  OBVIOUS
<1>2. PICK m \in 0 .. N \ T : \A k \in 0 .. N \ T : m <= k
  BY <1>1, LeastNatural
<1>3. m # 0 /\ m - 1 \in 0 .. N - 1 /\ m - 1 \in T
  BY <1>2
<1> QED BY <1>2, <1>3

\* The documents between the gestures of a replay.
Runs(f, doc, gs, n) ==
    /\ f[0] = doc
    /\ \A i \in 1 .. n : f[i] = Effect(gs[i].run, f[i - 1])

Recursive(f, doc, gs, n) == f = [i \in 0 .. n |-> IF i = 0 THEN doc ELSE Effect(gs[i].run, f[i - 1])]

LEMMA RunsExists == ASSUME NEW doc, NEW gs, NEW N \in Nat PROVE \E f : Recursive(f, doc, gs, N)
<1> DEFINE P(n) == \E f : Recursive(f, doc, gs, n)
<1> USE DEF Recursive
<1> DEFINE T == {n \in 0 .. N : P(n)}
<1>1. P(0)
  <2> DEFINE f == [i \in 0 .. 0 |-> doc]
  <2>1. f = [i \in 0 .. 0 |-> IF i = 0 THEN doc ELSE Effect(gs[i].run, f[i - 1])]
    OBVIOUS
  <2> HIDE DEF f
  <2> QED BY <2>1
<1>2. ASSUME NEW n \in 0 .. N - 1, P(n) PROVE P(n + 1)
  <2>1. PICK f : f = [i \in 0 .. n |-> IF i = 0 THEN doc ELSE Effect(gs[i].run, f[i - 1])]
    BY <1>2, Zenon
  <2> DEFINE g == [i \in 0 .. n + 1 |-> IF i = n + 1 THEN Effect(gs[n + 1].run, f[n]) ELSE f[i]]
  <2>2. \A i \in 0 .. n : g[i] = f[i]
    OBVIOUS
  <2>3. g = [i \in 0 .. n + 1 |-> IF i = 0 THEN doc ELSE Effect(gs[i].run, g[i - 1])]
    <3>1. ASSUME NEW i \in 0 .. n + 1
          PROVE  g[i] = IF i = 0 THEN doc ELSE Effect(gs[i].run, g[i - 1])
      <4>1. CASE i = n + 1
        <5>1. g[n + 1] = Effect(gs[n + 1].run, f[n]) /\ g[n] = f[n]
          BY <2>2
        <5>2. i # 0 /\ i - 1 = n
          BY <4>1
        <5> HIDE DEF g
        <5> QED BY <4>1, <5>1, <5>2
      <4>2. CASE i # n + 1
        <5>1. i \in 0 .. n /\ (i # 0 => i - 1 \in 0 .. n)
          BY <4>2
        <5>2. f[i] = IF i = 0 THEN doc ELSE Effect(gs[i].run, f[i - 1])
          BY <2>1, <5>1
        <5>3. g[i] = f[i] /\ (i # 0 => g[i - 1] = f[i - 1])
          BY <2>2, <5>1
        <5> HIDE DEF g
        <5> QED BY <5>2, <5>3
      <4> QED BY <4>1, <4>2
    <3>2. g = [i \in 0 .. n + 1 |-> g[i]]
      OBVIOUS
    <3> HIDE DEF g
    <3> QED BY <3>1, <3>2
  <2> HIDE DEF g
  <2> QED BY <2>3
<1> HIDE DEF P
<1>3. 0 \in T /\ \A n \in 0 .. N - 1 : n \in T => n + 1 \in T
  BY <1>1, <1>2
<1>4. N \in T
  <2> HIDE DEF T
  <2>1. 0 .. N \subseteq T
    BY <1>3, Climbs
  <2> QED BY <2>1
<1>5. P(N)
  BY <1>4
<1> QED BY <1>5 DEF P

\* A replay is where any such run ends.
LEMMA ReplayRuns ==
    ASSUME NEW doc, NEW gs, Len(gs) \in Nat, NEW f, Runs(f, doc, gs, Len(gs))
    PROVE  Replay(doc, gs) = f[Len(gs)]
<1> DEFINE N == Len(gs)
<1> DEFINE done[i \in 0 .. N] == IF i = 0 THEN doc ELSE Effect(gs[i].run, done[i - 1])
<1>1. done = [i \in 0 .. N |-> IF i = 0 THEN doc ELSE Effect(gs[i].run, done[i - 1])]
  <2>1. \E g : Recursive(g, doc, gs, N)
    BY RunsExists
  <2> QED BY <2>1, Zenon DEF Recursive
<1>2. Replay(doc, gs) = done[N]
  BY Zenon DEF Replay
<1> HIDE DEF done
<1> DEFINE T == {i \in 0 .. N : done[i] = f[i]}
<1>3. 0 \in T
  BY <1>1 DEF Runs
<1>4. ASSUME NEW i \in 0 .. N - 1, i \in T PROVE i + 1 \in T
  <2>1. i + 1 \in 1 .. N /\ (i + 1) - 1 = i /\ i + 1 # 0 /\ i + 1 \in 0 .. N
    OBVIOUS
  <2>2. f[i + 1] = Effect(gs[i + 1].run, f[i])
    <3>1. f[i + 1] = Effect(gs[i + 1].run, f[(i + 1) - 1])
      BY <2>1 DEF Runs
    <3> QED BY <2>1, <3>1
  <2>3. done[i + 1] = Effect(gs[i + 1].run, done[i])
    <3>1. done[i + 1] = Effect(gs[i + 1].run, done[(i + 1) - 1])
      BY <1>1, <2>1, Zenon
    <3> QED BY <2>1, <3>1
  <2> QED BY <1>4, <2>1, <2>2, <2>3
<1>5. N \in T
  <2> HIDE DEF T
  <2>1. 0 .. N \subseteq T
    BY <1>3, <1>4, Climbs
  <2> QED BY <2>1
<1> QED BY <1>2, <1>5

LEMMA SomeRun == ASSUME NEW doc, NEW gs, NEW N \in Nat PROVE \E f : Runs(f, doc, gs, N)
<1>1. PICK f : Recursive(f, doc, gs, N)
  BY RunsExists
<1>2. f[0] = doc
  BY <1>1 DEF Recursive
<1>3. ASSUME NEW i \in 1 .. N PROVE f[i] = Effect(gs[i].run, f[i - 1])
  BY <1>1 DEF Recursive
<1> QED BY <1>2, <1>3 DEF Runs

\* A replay of nothing, of what two replays share, and of one gesture more.
LEMMA ReplayNothing == \A doc : Replay(doc, <<>>) = doc
<1> SUFFICES ASSUME NEW doc PROVE Replay(doc, <<>>) = doc
  OBVIOUS
<1>1. Len(<<>>) = 0
  OBVIOUS
<1>2. PICK f : Runs(f, doc, <<>>, 0)
  BY SomeRun
<1> QED BY <1>1, <1>2, ReplayRuns DEF Runs

LEMMA ReplaySame ==
    ASSUME NEW doc, NEW gs, Len(gs) \in Nat, NEW hs, Len(hs) = Len(gs),
           \A i \in 1 .. Len(gs) : hs[i].run = gs[i].run
    PROVE  Replay(doc, hs) = Replay(doc, gs)
<1>1. PICK f : Runs(f, doc, gs, Len(gs))
  BY SomeRun
<1>2. Runs(f, doc, hs, Len(hs))
  BY <1>1 DEF Runs
<1> QED BY <1>1, <1>2, ReplayRuns

\* What is replayed in two parts.
LEMMA ReplayParts ==
    ASSUME NEW doc, NEW S, NEW gs \in Seq(S), NEW k \in 0 .. Len(gs)
    PROVE  Replay(Replay(doc, SubSeq(gs, 1, k)), SubSeq(gs, k + 1, Len(gs))) = Replay(doc, gs)
<1> DEFINE N == Len(gs) first == SubSeq(gs, 1, k) rest == SubSeq(gs, k + 1, N)
<1>1. N \in Nat /\ \A i \in 1 .. N : gs[i] \in S
  BY LenProperties, ElementOfSeq
<1>2. Len(first) = k /\ \A i \in 1 .. k : first[i] = gs[i]
  BY <1>1, SubSeqProperties
<1>3. Len(rest) = N - k /\ \A i \in 1 .. N - k : rest[i] = gs[k + i]
  <2>1. /\ Len(rest) = IF k + 1 <= N THEN N - (k + 1) + 1 ELSE 0
        /\ \A i \in 1 .. N - (k + 1) + 1 : rest[i] = gs[k + 1 + i - 1]
    BY <1>1, SubSeqProperties
  <2> QED BY <1>1, <2>1
<1> HIDE DEF first, rest, N
<1>4. PICK f : Runs(f, doc, gs, N)
  BY <1>1, SomeRun
<1>5. Replay(doc, first) = f[k]
  <2>1. Runs(f, doc, first, Len(first))
    BY <1>1, <1>2, <1>4 DEF Runs, N
  <2> QED BY <1>2, <2>1, ReplayRuns
<1> DEFINE g == [i \in 0 .. N - k |-> f[k + i]]
<1>6. Runs(g, f[k], rest, N - k)
  <2>1. g[0] = f[k]
    BY <1>1 DEF N
  <2>2. ASSUME NEW i \in 1 .. N - k PROVE g[i] = Effect(rest[i].run, g[i - 1])
    <3>1. k + i \in 1 .. N /\ (k + i) - 1 = k + (i - 1) /\ i \in 0 .. N - k /\ i - 1 \in 0 .. N - k
      BY <1>1 DEF N
    <3>2. g[i] = f[k + i] /\ g[i - 1] = f[k + (i - 1)]
      BY <3>1
    <3>3. f[k + i] = Effect(gs[k + i].run, f[(k + i) - 1])
      BY <1>4, <3>1 DEF Runs
    <3> HIDE DEF g
    <3> QED BY <1>3, <3>1, <3>2, <3>3
  <2> HIDE DEF g
  <2> QED BY <2>1, <2>2 DEF Runs
<1>7. Replay(f[k], rest) = f[N]
  <2>1. N - k \in Nat /\ N - k \in 0 .. N - k /\ k + (N - k) = N
    BY <1>1 DEF N
  <2>2. g[N - k] = f[N]
    BY <2>1
  <2> HIDE DEF g
  <2> QED BY <1>3, <1>6, <2>1, <2>2, ReplayRuns
<1>8. Replay(doc, gs) = f[N]
  BY <1>1, <1>4, ReplayRuns DEF N
<1> QED BY <1>5, <1>7, <1>8 DEF first, rest, N

LEMMA ReplayMore ==
    ASSUME NEW doc, NEW S, NEW gs \in Seq(S), NEW a \in S
    PROVE  Replay(doc, Append(gs, a)) = Effect(a.run, Replay(doc, gs))
<1> DEFINE N == Len(gs) all == Append(gs, a)
<1>1. N \in Nat /\ Len(all) = N + 1 /\ (\A i \in 1 .. N : all[i] = gs[i]) /\ all[N + 1] = a
  BY AppendProperties, LenProperties
<1> HIDE DEF all
<1>2. PICK f : Runs(f, doc, all, N + 1)
  <2>1. N + 1 \in Nat
    BY <1>1
  <2> HIDE DEF N
  <2> QED BY <2>1, SomeRun
<1>3. Runs(f, doc, gs, N)
  BY <1>1, <1>2 DEF Runs
<1>4. f[N + 1] = Effect(a.run, f[N])
  <2>1. N + 1 \in 1 .. N + 1 /\ (N + 1) - 1 = N
    BY <1>1
  <2>2. f[N + 1] = Effect(all[N + 1].run, f[(N + 1) - 1])
    BY <1>2, <2>1 DEF Runs
  <2> QED BY <1>1, <2>1, <2>2
<1>5. Replay(doc, gs) = f[N]
  BY <1>1, <1>3, ReplayRuns
<1>6. Replay(doc, all) = f[N + 1]
  BY <1>1, <1>2, ReplayRuns
<1> QED BY <1>4, <1>5, <1>6 DEF all

\* A gesture or a write makes a document of a document, and so does a merge of three.
DocsClosed ==
    /\ \A x \in Gestures \cup Writes, doc \in Docs : Effect(x, doc) \in Docs
    /\ \A dst, base, next \in Docs : Merge(dst, base, next) \in Docs

LEMMA ReplayTyped ==
    ASSUME DocsClosed, NEW doc \in Docs, NEW gs \in Seq(Attempt) PROVE Replay(doc, gs) \in Docs
<1> DEFINE N == Len(gs)
<1>1. N \in Nat /\ \A i \in 1 .. N : gs[i].run \in Gestures
  <2>1. \A i \in 1 .. N : gs[i] \in Attempt
    BY ElementOfSeq
  <2> QED BY <2>1, LenProperties DEF Attempt
<1>2. PICK f : Runs(f, doc, gs, N)
  BY <1>1, SomeRun
<1> DEFINE T == {i \in 0 .. N : f[i] \in Docs}
<1>3. 0 \in T
  BY <1>1, <1>2 DEF Runs
<1>4. ASSUME NEW i \in 0 .. N - 1, i \in T PROVE i + 1 \in T
  <2>1. i + 1 \in 1 .. N /\ (i + 1) - 1 = i /\ i + 1 \in 0 .. N
    BY <1>1
  <2>2. f[i + 1] = Effect(gs[i + 1].run, f[(i + 1) - 1])
    BY <1>2, <2>1 DEF Runs
  <2> QED BY <1>1, <1>4, <2>1, <2>2 DEF DocsClosed
<1>5. N \in T
  <2> HIDE DEF T, N
  <2>1. 0 .. N \subseteq T
    BY <1>1, <1>3, <1>4, Climbs
  <2> QED BY <1>1, <2>1
<1> QED BY <1>1, <1>2, <1>5, ReplayRuns

\* The front of a sequence in T: as far as its places are.
LEMMA FrontExists ==
    ASSUME NEW N \in Nat, NEW T
    PROVE  \E n \in 0 .. N : (\A i \in 1 .. n : i \in T) /\ (n < N => n + 1 \notin T)
<1> DEFINE Out == {n \in 0 .. N : n = N \/ n + 1 \notin T}
<1>1. Out \in SUBSET Nat /\ Out # {}
  <2>1. N \in Out /\ \A n \in Out : n \in Nat
    OBVIOUS
  <2> HIDE DEF Out
  <2> QED BY <2>1
<1>2. PICK n \in Out : \A k \in Out : n <= k
  <2> HIDE DEF Out
  <2> QED BY <1>1, LeastNatural
<1>3. ASSUME NEW i \in 1 .. n PROVE i \in T
  <2>1. i - 1 \in 0 .. N /\ i - 1 < n /\ i - 1 # N /\ (i - 1) + 1 = i
    BY <1>2
  <2>2. i - 1 \notin Out
    <3> HIDE DEF Out
    <3>1. n \in Nat
      BY <1>2 DEF Out
    <3> QED BY <1>2, <2>1, <3>1
  <2> QED BY <2>1, <2>2
<1>4. n \in 0 .. N /\ (n < N => n + 1 \notin T)
  BY <1>2
<1> QED BY <1>3, <1>4

-----------------------------------------------------------------------------
(* The invariant *)

\* The counters: every patch on the wire is younger than the one staged, which is younger than what the processor
\* has answered; the editor has heard no more than that, and a patch says what it had heard.
Counted ==
    /\ proc.applied <= sentAt /\ proc.rejected <= sentAt /\ seenRejected <= proc.rejected
    /\ \A n \in 1 .. Len(up) : up[n].applied <= proc.applied /\ up[n].rejected <= proc.rejected
    /\ staged # None =>
          /\ staged.seq <= sentAt
          /\ IsReplace(staged) \/ (proc.rejected < staged.seq /\ staged.seen <= seenRejected)
          /\ staged.seq = 0 \/ (proc.applied < staged.seq /\ proc.rejected < staged.seq)
    /\ \A j \in 1 .. Len(down) :
          /\ down[j].seq <= sentAt /\ proc.applied < down[j].seq /\ proc.rejected < down[j].seq
          /\ down[j].seen <= seenRejected
          /\ staged # None => staged.seq < down[j].seq
    /\ \A i, j \in 1 .. Len(down) : i < j => down[i].seq < down[j].seq

\* What was sent since the editor last heard of a refusal.
Fresh(s) ==
    /\ \A j \in 1 .. Len(down) : s <= down[j].seq => down[j].seen = seenRejected
    /\ staged # None /\ s <= staged.seq => IsReplace(staged) \/ staged.seen = seenRejected

\* A gesture sent under s is in that patch, and in each that replaces the document after it.
Carries(g, s) ==
    \A j \in 1 .. Len(down) :
        (down[j].seq = s \/ (s < down[j].seq /\ down[j].apply = "Overwrite")) => g \in down[j].carries

\* It is on the wire, or in what is staged; or its patch was turned down and the editor has yet to hear of it, and what
\* it has sent since will be turned down too.
Kept(g, s) ==
    /\ proc.applied < s
    /\ \/ \E j \in 1 .. Len(down) : down[j].seq = s
       \/ staged # None /\ g \in staged.carries /\ s <= staged.seq
       \/ /\ seenRejected < proc.rejected /\ (staged # None => ~IsReplace(staged))
          /\ \A j \in 1 .. Len(down) : s < down[j].seq

Tracked(a) ==
    /\ a.run \in made /\ a.seq <= sentAt
    /\ a.seq # 0 => /\ Fresh(a.seq) /\ Carries(a.run, a.seq)
                    /\ a.run \in landed \cup dropped \/ Kept(a.run, a.seq)

IInv == /\ TypeOK /\ Counted /\ (\A i \in 1 .. Len(pending) : Tracked(pending[i]))
        /\ RetiredLanded /\ ViewIsReplay

-----------------------------------------------------------------------------
(* The processor *)

LEMMA Elements ==
    ASSUME TypeOK
    PROVE  /\ Len(down) \in Nat /\ \A j \in 1 .. Len(down) : down[j] \in Patch
           /\ Len(up) \in Nat /\ \A n \in 1 .. Len(up) : up[n] \in Snapshot
           /\ Len(pending) \in Nat /\ \A i \in 1 .. Len(pending) : pending[i] \in Attempt
BY LenProperties, ElementOfSeq DEF TypeOK

LEMMA Arrived ==
    ASSUME TypeOK, NEW p, Arrives(p)
    PROVE  /\ p \in Patch /\ 1 \in 1 .. Len(down) /\ p = down[1]
           /\ down' \in Seq(Patch) /\ Len(down') = Len(down) - 1
           /\ \A j \in 1 .. Len(down') : down'[j] = down[j + 1] /\ j + 1 \in 1 .. Len(down)
<1>1. down \in Seq(Patch) /\ down # <<>> /\ p = Head(down) /\ down' = Tail(down)
  BY DEF TypeOK, Arrives
<1>2. Head(down) \in Patch /\ Tail(down) \in Seq(Patch)
  BY <1>1, HeadTailProperties
<1>3. Len(down) \in Nat /\ Len(down) # 0 /\ p = down[1]
  BY <1>1, EmptySeq, LenProperties
<1>4. Len(Tail(down)) = Len(down) - 1 /\ \A j \in 1 .. Len(Tail(down)) : Tail(down)[j] = down[j + 1]
  BY <1>1, HeadTailProperties
<1> QED BY <1>1, <1>2, <1>3, <1>4

\* What a step of the processor's leaves of the gestures outstanding.
LEMMA StillTracked ==
    ASSUME IInv, UNCHANGED <<pending, sentAt>>, made \subseteq made', landed \subseteq landed', dropped \subseteq dropped',
           \A g, s : (s \in Nat /\ Fresh(s) /\ Carries(g, s))
                        => Fresh(s)' /\ Carries(g, s)' /\ (Kept(g, s) => g \in landed' \/ Kept(g, s)')
    PROVE  (\A i \in 1 .. Len(pending) : Tracked(pending[i]))'
<1> SUFFICES ASSUME NEW i \in 1 .. Len(pending) PROVE Tracked(pending[i])'
  OBVIOUS
<1>1. PICK a \in Attempt : a = pending[i]
  BY Elements DEF IInv
<1>2. Tracked(a)
  BY <1>1 DEF IInv
<1>3. pending'[i] = a /\ a.seq \in Nat
  BY <1>1 DEF Attempt
<1>4. a.seq # 0 => /\ Fresh(a.seq)' /\ Carries(a.run, a.seq)'
                   /\ a.run \in landed' \cup dropped' \/ Kept(a.run, a.seq)'
  BY <1>2, <1>3 DEF Tracked
<1>5. a.run \in made' /\ a.seq <= sentAt'
  BY <1>2 DEF Tracked
<1> QED BY <1>3, <1>4, <1>5 DEF Tracked

\* What is staged once a patch has arrived: that patch's number, what it had heard, what it carries and, unless it was
\* diffed since a refusal, what the staged one carried.
LEMMA Arriving ==
    ASSUME IInv, UNCHANGED plan, NEW p, Arrives(p),
           staged' \in Staged, staged'.seq = p.seq, p.carries \subseteq staged'.carries,
           IsReplace(staged') \/ staged'.seen = p.seen,
           \A g : \A s \in Nat : (staged # None /\ g \in staged.carries /\ s <= staged.seq /\ Fresh(s) /\ Carries(g, s))
                                  => g \in staged'.carries,
           \A g : \A s \in Nat : (/\ staged # None => ~IsReplace(staged)
                                /\ s < p.seq /\ Carries(g, s)) => g \in staged'.carries \/ ~IsReplace(staged')
    PROVE  IInv'
<1>1. /\ Len(down) \in Nat /\ p \in Patch /\ 1 \in 1 .. Len(down) /\ p = down[1]
      /\ down' \in Seq(Patch) /\ Len(down') = Len(down) - 1
      /\ \A j \in 1 .. Len(down') : down'[j] = down[j + 1] /\ j + 1 \in 1 .. Len(down)
      /\ \A j \in 1 .. Len(down) : down[j] \in Patch
  BY Arrived, Elements DEF IInv
<1>2. UNCHANGED <<proc, edits, owed, lastSent, up, editor, host, ghosts>>
  BY DEF Arrives
<1>t. TypeOK
  BY DEF IInv
<1>3. TypeOK'
  BY <1>1, <1>2, <1>t, SyncAssumption DEF TypeOK, PendingOrdered, editor, host, ghosts
<1>s. staged' # None /\ staged'.seq \in Nat /\ p.seq \in Nat /\ sentAt \in Nat
  BY <1>1, <1>t, SyncAssumption DEF Staged, Patch, TypeOK
<1>4. Counted'
  <2>1. /\ p.seq <= sentAt /\ proc.applied < p.seq /\ proc.rejected < p.seq /\ p.seen <= seenRejected
        /\ \A j \in 2 .. Len(down) : p.seq < down[j].seq
    BY <1>1 DEF IInv, Counted
  <2>2. /\ proc'.applied <= sentAt' /\ proc'.rejected <= sentAt' /\ seenRejected' <= proc'.rejected
        /\ \A n \in 1 .. Len(up') : up'[n].applied <= proc'.applied /\ up'[n].rejected <= proc'.rejected
    BY <1>2 DEF IInv, Counted, editor
  <2>3. staged' # None =>
          /\ staged'.seq <= sentAt'
          /\ IsReplace(staged') \/ (proc'.rejected < staged'.seq /\ staged'.seen <= seenRejected')
          /\ staged'.seq = 0 \/ (proc'.applied < staged'.seq /\ proc'.rejected < staged'.seq)
    BY <1>2, <2>1 DEF editor
  <2>4. ASSUME NEW j \in 1 .. Len(down')
        PROVE  /\ down'[j].seq <= sentAt' /\ proc'.applied < down'[j].seq /\ proc'.rejected < down'[j].seq
               /\ down'[j].seen <= seenRejected'
               /\ staged' # None => staged'.seq < down'[j].seq
    <3>1. down'[j] = down[j + 1] /\ j + 1 \in 2 .. Len(down) /\ j + 1 \in 1 .. Len(down)
      BY <1>1
    <3>2. /\ down[j + 1].seq <= sentAt /\ proc.applied < down[j + 1].seq /\ proc.rejected < down[j + 1].seq
          /\ down[j + 1].seen <= seenRejected /\ p.seq < down[j + 1].seq
      BY <2>1, <3>1 DEF IInv, Counted
    <3> QED BY <1>2, <3>1, <3>2 DEF editor
  <2>5. ASSUME NEW i \in 1 .. Len(down'), NEW j \in 1 .. Len(down'), i < j PROVE down'[i].seq < down'[j].seq
    <3>1. down[i + 1].seq < down[j + 1].seq
      BY <1>1, <2>5 DEF IInv, Counted
    <3> QED BY <1>1, <3>1
  <2> QED BY <2>2, <2>3, <2>4, <2>5 DEF Counted
<1>5. ASSUME NEW g, NEW s \in Nat, Fresh(s), Carries(g, s)
      PROVE  Fresh(s)' /\ Carries(g, s)' /\ (Kept(g, s) => Kept(g, s)')
  <2>2. Fresh(s)'
    <3>1. s <= p.seq => p.seen = seenRejected
      BY <1>1, <1>5 DEF Fresh
    <3>2. \A j \in 1 .. Len(down') : s <= down'[j].seq => down'[j].seen = seenRejected
      BY <1>1, <1>5 DEF Fresh
    <3> QED BY <1>2, <3>1, <3>2 DEF Fresh, editor
  <2>3. Carries(g, s)'
    BY <1>1, <1>5 DEF Carries
  <2>4. Kept(g, s) => Kept(g, s)'
    <3> SUFFICES ASSUME Kept(g, s) PROVE Kept(g, s)'
      OBVIOUS
    <3>0. proc'.applied < s
      BY <1>2 DEF Kept
    <3>1. CASE \E j \in 1 .. Len(down) : down[j].seq = s
      <4>1. PICK j \in 1 .. Len(down) : down[j].seq = s
        BY <3>1
      <4>2. CASE j = 1
        <5>1. g \in p.carries /\ s <= p.seq
          BY <1>1, <1>s, <1>5, <4>1, <4>2 DEF Carries
        <5> QED BY <1>s, <3>0, <5>1 DEF Kept
      <4>3. CASE j # 1
        <5>1. j - 1 \in 1 .. Len(down') /\ down'[j - 1] = down[(j - 1) + 1] /\ (j - 1) + 1 = j
          BY <1>1, <4>3
        <5> QED BY <3>0, <4>1, <5>1 DEF Kept
      <4> QED BY <4>2, <4>3
    <3>2. CASE staged # None /\ g \in staged.carries /\ s <= staged.seq
      <4>1. g \in staged'.carries
        BY <1>5, <3>2
      <4>2. s <= p.seq
        <5>1. staged.seq < p.seq /\ staged.seq \in Nat
          BY <1>1, <1>t, <3>2 DEF IInv, Counted, TypeOK, Staged
        <5> QED BY <1>s, <1>5, <3>2, <5>1
      <4> QED BY <1>s, <3>0, <4>1, <4>2 DEF Kept
    <3>3. CASE /\ seenRejected < proc.rejected /\ (staged # None => ~IsReplace(staged))
               /\ \A j \in 1 .. Len(down) : s < down[j].seq
      <4>1. s < p.seq
        BY <1>1, <3>3
      <4>2. (g \in staged'.carries \/ ~IsReplace(staged')) /\ s <= p.seq
        BY <1>s, <1>5, <3>3, <4>1
      <4>3. \A j \in 1 .. Len(down') : s < down'[j].seq
        BY <1>1, <3>3
      <4>4. seenRejected' < proc'.rejected
        BY <1>2, <3>3 DEF editor
      <4> QED BY <1>s, <3>0, <4>1, <4>2, <4>3, <4>4 DEF Kept
    <3> QED BY <3>1, <3>2, <3>3 DEF Kept
  <2> QED BY <2>2, <2>3, <2>4
<1>6. RetiredLanded' /\ ViewIsReplay'
  BY <1>2 DEF IInv, RetiredLanded, ViewIsReplay, Outstanding, editor, ghosts
<1>7. (\A i \in 1 .. Len(pending) : Tracked(pending[i]))'
  BY <1>2, <1>5, StillTracked DEF editor, ghosts
<1> QED BY <1>2, <1>3, <1>4, <1>6, <1>7 DEF IInv, editor


LEMMA OnOverwriteKeeps ==
    ASSUME IInv, UNCHANGED plan, NEW p, OnOverwrite(p)
    PROVE  IInv'
<1>1. p \in Patch /\ p.seq \in Nat /\ 1 \in 1 .. Len(down) /\ p = down[1] /\ Arrives(p)
  BY Arrived DEF OnOverwrite, IInv, Patch
<1>2. staged' = [p EXCEPT !.base = None, !.seen = Always] /\ p.apply = "Overwrite"
  BY DEF OnOverwrite
<1>3. /\ staged' \in Staged /\ staged'.seq = p.seq /\ staged'.carries = p.carries
      /\ staged'.base = None
  BY <1>1, <1>2, SyncAssumption DEF Patch, Staged
<1>4. IsReplace(staged')
  BY <1>3 DEF IsReplace
\* An Overwrite carries all that is outstanding.
<1>5. ASSUME NEW g, NEW s \in Nat, s < p.seq, Carries(g, s) PROVE g \in staged'.carries
  BY <1>1, <1>2, <1>3, <1>5 DEF Carries
<1>6. ASSUME staged # None PROVE staged.seq < p.seq /\ staged.seq \in Nat
  BY <1>1, <1>6 DEF IInv, Counted, TypeOK, Staged
<1>7. ASSUME NEW g, NEW s \in Nat, staged # None, s <= staged.seq, Carries(g, s) PROVE g \in staged'.carries
  BY <1>1, <1>5, <1>6, <1>7
<1> QED BY <1>1, <1>3, <1>4, <1>5, <1>7, Arriving

LEMMA OnCoalesceKeeps ==
    ASSUME IInv, DocsClosed, UNCHANGED plan, NEW p, OnCoalesce(p)
    PROVE  IInv'
<1>1. p \in Patch /\ Arrives(p)
  BY Arrived DEF OnCoalesce, IInv
<1>2. staged \in Staged /\ staged # None /\ p.apply # "Overwrite" /\ (IsReplace(staged) \/ p.seen <= staged.seen)
  BY DEF OnCoalesce, Joins, IInv, TypeOK
<1>3. /\ Merge(staged.next, p.base, p.next) \in Docs
      /\ Stricter(staged.apply, p.apply) \in Applies
      /\ Stricter(staged.apply, p.apply) = "Overwrite" <=> staged.apply = "Overwrite"
  BY <1>1, <1>2 DEF DocsClosed, Patch, Staged, Stricter, Applies
<1> DEFINE next == Merge(staged.next, p.base, p.next) apply == Stricter(staged.apply, p.apply)
           seen == IF p.seen < staged.seen THEN p.seen ELSE staged.seen
<1>4. staged' = [staged EXCEPT !.next = next, !.seq = p.seq, !.apply = apply, !.seen = seen,
                               !.carries = @ \cup p.carries]
  BY DEF OnCoalesce
<1>5. next \in Docs /\ apply \in Applies /\ seen \in Nat /\ (p.seen <= staged.seen => seen = p.seen)
  BY <1>1, <1>2, <1>3 DEF Patch, Staged
<1> HIDE DEF next, apply, seen
<1>6. /\ staged' \in Staged /\ staged'.seq = p.seq /\ staged'.carries = staged.carries \cup p.carries
      /\ staged'.base = staged.base /\ staged'.apply = apply /\ staged'.seen = seen
  BY <1>1, <1>2, <1>4, <1>5 DEF Patch, Staged
<1>7. IsReplace(staged') <=> IsReplace(staged)
  BY <1>3, <1>6 DEF IsReplace, apply
<1>8. IsReplace(staged') \/ staged'.seen = p.seen
  BY <1>2, <1>5, <1>6, <1>7
<1> QED BY <1>1, <1>2, <1>6, <1>7, <1>8, Arriving

LEMMA OnSupersedeKeeps ==
    ASSUME IInv, UNCHANGED plan, NEW p, OnSupersede(p)
    PROVE  IInv'
<1>1. p \in Patch /\ p.seen \in Nat /\ 1 \in 1 .. Len(down) /\ p = down[1] /\ Arrives(p)
  BY Arrived DEF OnSupersede, IInv, Patch
<1>2. staged' = p /\ p.apply # "Overwrite" /\ ~Joins(p)
  BY DEF OnSupersede
<1>3. staged' \in Staged /\ ~IsReplace(staged')
  BY <1>1, <1>2, SyncAssumption DEF Patch, Staged, IsReplace
\* What it takes the place of was diffed in ignorance of a refusal the editor has heard of since.
<1>4. ASSUME NEW s \in Nat, staged # None, s <= staged.seq, Fresh(s) PROVE FALSE
  <2>1. ~IsReplace(staged) /\ ~(p.seen <= staged.seen) /\ staged.seen \in Nat
    BY <1>2, <1>4 DEF Joins, IInv, TypeOK, Staged
  <2>2. staged.seen = seenRejected /\ p.seen <= seenRejected /\ seenRejected \in Nat
    BY <1>1, <1>4, <2>1 DEF Fresh, IInv, Counted, TypeOK
  <2> QED BY <1>1, <2>1, <2>2
<1> QED BY <1>1, <1>2, <1>3, <1>4, Arriving

LEMMA OnEditKeeps ==
    ASSUME IInv, DocsClosed, UNCHANGED plan, OnEdit
    PROVE  IInv'
BY OnOverwriteKeeps, OnCoalesceKeeps, OnSupersedeKeeps DEF OnEdit

\* A block that takes what is staged: what that carried lands, or is turned down in a way the editor will hear of.
LEMMA Publishing ==
    ASSUME TypeOK, DocsClosed, NEW record \in Record, Publishes(record)
    PROVE  /\ proc' \in Record /\ proc'.applied = record.applied /\ proc'.rejected = record.rejected
           /\ written' \subseteq Writes
<1>1. CASE proc' = record /\ written' = written
  BY <1>1 DEF TypeOK
<1>2. CASE \E w \in plan.writes \ written : /\ proc' = [record EXCEPT !.value = Effect(w, @)]
                                            /\ written' = written \cup {w}
  <2>1. PICK w \in plan.writes \ written : /\ proc' = [record EXCEPT !.value = Effect(w, @)]
                                           /\ written' = written \cup {w}
    BY <1>2
  <2>2. w \in Writes
    BY SyncAssumption DEF TypeOK
  <2>3. Effect(w, record.value) \in Docs
    BY <2>2 DEF DocsClosed, Record
  <2> QED BY <2>1, <2>2, <2>3 DEF Record, TypeOK
<1> QED BY <1>1, <1>2 DEF Publishes

LEMMA Taking ==
    ASSUME IInv, DocsClosed, UNCHANGED plan, Takes, NEW record \in Record, Publishes(record),
           landed \subseteq landed', landed' \subseteq Gestures,
           record.applied = proc.applied \/ (staged.seq # 0 /\ record.applied = staged.seq),
           record.rejected = proc.rejected \/ (staged.seq # 0 /\ record.rejected = staged.seq),
           \A g : \A s \in Nat : (g \in staged.carries /\ s <= staged.seq /\ Fresh(s))
                => g \in landed' \/ (record.applied = proc.applied /\ seenRejected < record.rejected),
           (seenRejected < proc.rejected /\ ~IsReplace(staged)) => record.applied = proc.applied
    PROVE  IInv'
<1>t. TypeOK /\ Counted /\ staged \in Staged /\ staged # None /\ staged' = None /\ staged.seq \in Nat
  BY DEF IInv, TypeOK, Takes, Staged
<1>1. /\ proc' \in Record /\ proc'.applied = record.applied /\ proc'.rejected = record.rejected
      /\ written' \subseteq Writes
  BY <1>t, Publishing
<1>2. /\ proc.applied \in Nat /\ proc.rejected \in Nat /\ sentAt \in Nat /\ seenRejected \in Nat
      /\ proc'.applied \in Nat /\ proc'.rejected \in Nat
  BY <1>t, <1>1 DEF TypeOK, Record
<1>3. UNCHANGED <<edits, lastSent, down, up, editor, host, made, dropped>> /\ owed' = TRUE
  BY DEF Publishes
<1>4. TypeOK'
  BY <1>t, <1>1, <1>3 DEF TypeOK, PendingOrdered, editor, host
<1>5. /\ proc.applied <= proc'.applied /\ proc'.applied <= sentAt
      /\ proc.rejected <= proc'.rejected /\ proc'.rejected <= sentAt
      /\ \A j \in 1 .. Len(down) : proc'.applied < down[j].seq /\ proc'.rejected < down[j].seq
  BY <1>t, <1>1, <1>2 DEF Counted
<1>6. Counted'
  <2>1. \A n \in 1 .. Len(up) : up[n].applied <= proc'.applied /\ up[n].rejected <= proc'.rejected
    <3> TAKE n \in 1 .. Len(up)
    <3>1. up[n].applied \in Nat /\ up[n].rejected \in Nat
      BY <1>t, Elements DEF Snapshot
    <3>2. up[n].applied <= proc.applied /\ up[n].rejected <= proc.rejected
      BY <1>t DEF Counted
    <3> QED BY <1>2, <1>5, <3>1, <3>2
  <2> QED BY <1>t, <1>2, <1>3, <1>5, <2>1 DEF Counted, editor
<1>7. ASSUME NEW g, NEW s \in Nat, Fresh(s), Carries(g, s)
      PROVE  Fresh(s)' /\ Carries(g, s)' /\ (Kept(g, s) => g \in landed' \/ Kept(g, s)')
  <2>1. Fresh(s)' /\ Carries(g, s)'
    BY <1>t, <1>3, <1>7 DEF Fresh, Carries, editor
  <2>2. \A j \in 1 .. Len(down) : staged.seq < down[j].seq /\ down[j].seq \in Nat
    BY <1>t, Elements DEF Counted, Patch
  <2>3. ASSUME Kept(g, s), g \notin landed' PROVE Kept(g, s)'
    <3>1. CASE \E j \in 1 .. Len(down) : down[j].seq = s
      BY <1>3, <1>5, <1>1, <3>1 DEF Kept
    <3>2. CASE g \in staged.carries /\ s <= staged.seq
      <4>1. proc'.applied = proc.applied /\ seenRejected < proc'.rejected
        BY <1>1, <1>7, <2>3, <3>2
      <4>2. \A j \in 1 .. Len(down) : s < down[j].seq
        BY <1>t, <2>2, <3>2
      <4> QED BY <1>t, <1>3, <2>3, <4>1, <4>2 DEF Kept, editor
    <3>3. CASE /\ seenRejected < proc.rejected /\ ~IsReplace(staged)
               /\ \A j \in 1 .. Len(down) : s < down[j].seq
      BY <1>t, <1>1, <1>2, <1>3, <1>5, <2>3, <3>3 DEF Kept, editor
    <3> QED BY <1>t, <2>3, <3>1, <3>2, <3>3 DEF Kept
  <2> QED BY <2>1, <2>3
<1>8. (\A i \in 1 .. Len(pending) : Tracked(pending[i]))'
  BY <1>3, <1>7, StillTracked DEF editor
<1>9. RetiredLanded' /\ ViewIsReplay'
  BY <1>3 DEF IInv, RetiredLanded, ViewIsReplay, Outstanding, editor
<1> QED BY <1>4, <1>6, <1>8, <1>9 DEF IInv

LEMMA AckedRecord ==
    ASSUME TypeOK, staged # None, NEW record \in Record
    PROVE  /\ Acked(record) \in Record /\ Acked(record).rejected = record.rejected
           /\ Acked(record).applied = record.applied \/ (staged.seq # 0 /\ Acked(record).applied = staged.seq)
BY DEF Acked, Record, TypeOK, Staged

LEMMA BlockReplaceKeeps ==
    ASSUME IInv, DocsClosed, UNCHANGED plan, BlockReplace
    PROVE  IInv'
<1> DEFINE replaced == [proc EXCEPT !.value = staged.next] record == Acked(replaced)
<1>1. TypeOK /\ staged \in Staged /\ staged # None /\ IsReplace(staged)
  BY DEF IInv, TypeOK, BlockReplace, Takes
<1>2. replaced \in Record /\ replaced.applied = proc.applied /\ replaced.rejected = proc.rejected
  BY <1>1 DEF TypeOK, Record, Staged
<1> HIDE DEF replaced
<1>3. /\ record \in Record /\ record.rejected = proc.rejected
      /\ record.applied = proc.applied \/ (staged.seq # 0 /\ record.applied = staged.seq)
  BY <1>1, <1>2, AckedRecord
<1>4. Takes /\ Publishes(record) /\ landed' = landed \cup staged.carries
  BY DEF BlockReplace, replaced
<1>5. landed' \subseteq Gestures
  BY <1>1, <1>4 DEF TypeOK, Staged
<1> HIDE DEF record
<1> QED BY <1>1, <1>3, <1>4, <1>5, Taking

LEMMA BlockStaleKeeps ==
    ASSUME IInv, DocsClosed, UNCHANGED plan, BlockStale
    PROVE  IInv'
<1>1. /\ proc \in Record /\ landed \subseteq Gestures /\ seenRejected \in Nat
      /\ Takes /\ ~IsReplace(staged) /\ staged.seen < proc.rejected
      /\ Publishes(proc) /\ landed' = landed
  BY DEF IInv, TypeOK, BlockStale, Stale
<1>2. ASSUME NEW s \in Nat, s <= staged.seq, Fresh(s) PROVE seenRejected < proc.rejected
  BY <1>1, <1>2 DEF Fresh, Takes
<1> QED BY <1>1, <1>2, Taking

LEMMA BlockRefuseKeeps ==
    ASSUME IInv, DocsClosed, UNCHANGED plan, BlockRefuse
    PROVE  IInv'
<1> DEFINE record == [proc EXCEPT !.rejected = staged.seq]
<1>1. /\ proc \in Record /\ landed \subseteq Gestures /\ seenRejected \in Nat /\ Counted
      /\ Takes /\ staged # None /\ staged \in Staged /\ ~IsReplace(staged)
      /\ Publishes(record) /\ landed' = landed
  BY DEF IInv, TypeOK, BlockRefuse, Takes
<1>2. staged.seq \in Nat /\ proc.rejected \in Nat
  BY <1>1 DEF Record, Staged
<1>3. proc.rejected < staged.seq /\ seenRejected <= proc.rejected
  BY <1>1 DEF Counted
<1>4. record \in Record /\ record.applied = proc.applied /\ record.rejected = staged.seq
  BY <1>1, <1>2 DEF Record
<1>5. staged.seq # 0 /\ seenRejected < record.rejected
  BY <1>1, <1>2, <1>3, <1>4
<1> HIDE DEF record
<1> QED BY <1>1, <1>4, <1>5, Taking

LEMMA BlockMergeKeeps ==
    ASSUME IInv, DocsClosed, UNCHANGED plan, BlockMerge
    PROVE  IInv'
<1> DEFINE merged == [proc EXCEPT !.value = Merge(@, staged.base, staged.next)] record == Acked(merged)
<1>1. /\ TypeOK /\ Counted /\ proc \in Record /\ staged \in Staged /\ staged # None /\ ~IsReplace(staged)
      /\ ~(staged.seen < proc.rejected) /\ Takes /\ landed' = landed \cup staged.carries
  BY DEF IInv, TypeOK, BlockMerge, Takes, Stale
<1>2. Merge(proc.value, staged.base, staged.next) \in Docs
  BY <1>1 DEF DocsClosed, Record, Staged, IsReplace
<1>3. merged \in Record /\ merged.applied = proc.applied /\ merged.rejected = proc.rejected
  BY <1>1, <1>2 DEF Record
<1>4. Publishes(record)
  BY DEF BlockMerge
<1> HIDE DEF merged
<1>5. /\ record \in Record /\ record.rejected = proc.rejected
      /\ record.applied = proc.applied \/ (staged.seq # 0 /\ record.applied = staged.seq)
  BY <1>1, <1>3, AckedRecord
<1>6. landed' \subseteq Gestures
  BY <1>1 DEF TypeOK, Staged
\* It was diffed when the editor had heard of every refusal.
<1>7. ~(seenRejected < proc.rejected)
  <2>1. staged.seen <= seenRejected /\ staged.seen \in Nat /\ seenRejected \in Nat /\ proc.rejected \in Nat
    BY <1>1 DEF Counted, TypeOK, Staged, Record
  <2> QED BY <1>1, <2>1
<1> HIDE DEF record
<1> QED BY <1>1, <1>4, <1>5, <1>6, <1>7, Taking

LEMMA BlockWriteKeeps ==
    ASSUME IInv, DocsClosed, UNCHANGED plan, BlockWrite
    PROVE  IInv'
<1>1. /\ TypeOK /\ Counted /\ proc \in Record /\ Publishes(proc)
      /\ UNCHANGED <<staged, landed, edits, lastSent, down, up, editor, host, made, dropped>> /\ owed' = TRUE
  BY DEF IInv, TypeOK, BlockWrite, Publishes
<1>2. /\ proc' \in Record /\ proc'.applied = proc.applied /\ proc'.rejected = proc.rejected
      /\ written' \subseteq Writes
  BY <1>1, Publishing
<1>3. TypeOK' /\ Counted'
  BY <1>1, <1>2 DEF TypeOK, Counted, PendingOrdered, editor, host
<1>4. ASSUME NEW g, NEW s \in Nat, Fresh(s), Carries(g, s)
      PROVE  Fresh(s)' /\ Carries(g, s)' /\ (Kept(g, s) => Kept(g, s)')
  BY <1>1, <1>2, <1>4 DEF Fresh, Carries, Kept, editor
<1>5. (\A i \in 1 .. Len(pending) : Tracked(pending[i]))'
  BY <1>1, <1>4, StillTracked DEF editor
<1>6. RetiredLanded' /\ ViewIsReplay'
  BY <1>1 DEF IInv, RetiredLanded, ViewIsReplay, Outstanding, editor
<1> QED BY <1>3, <1>5, <1>6 DEF IInv

LEMMA BumpKeeps ==
    ASSUME IInv, UNCHANGED plan, Bump
    PROVE  IInv'
<1>1. UNCHANGED <<proc, staged, lastSent, down, up, editor, host, ghosts>> /\ owed' = FALSE /\ edits' = edits + 1
  BY DEF Bump
<1>2. TypeOK'
  <2>1. TypeOK
    BY DEF IInv
  <2>2. edits \in Nat
    BY <2>1, Zenon DEF TypeOK
  <2>3. owed' \in BOOLEAN
    BY <1>1, Zenon
  <2>4. edits' \in Nat
    BY <1>1, <2>2
  <2> QED BY <1>1, <2>1, <2>3, <2>4 DEF TypeOK, PendingOrdered, editor, host, ghosts
<1>4. Counted' /\ RetiredLanded' /\ ViewIsReplay'
  BY <1>1 DEF IInv, Counted, RetiredLanded, ViewIsReplay, Outstanding, editor, ghosts
<1>3. (\A i \in 1 .. Len(pending) : Tracked(pending[i]))'
  BY <1>1 DEF IInv, Tracked, Fresh, Carries, Kept, editor, ghosts
<1> QED BY <1>2, <1>3, <1>4 DEF IInv

LEMMA PumpKeeps ==
    ASSUME IInv, UNCHANGED plan, Pump
    PROVE  IInv'
<1> DEFINE snapshot == [value |-> proc.value, applied |-> proc.applied, rejected |-> proc.rejected, gen |-> edits]
<1>1. /\ TypeOK /\ Counted /\ UNCHANGED <<proc, staged, edits, owed, down, editor, host, ghosts>>
      /\ up' = Append(up, snapshot) /\ lastSent' = edits /\ Len(up) < WireCap
  BY DEF Pump, IInv
<1>2. snapshot \in Snapshot /\ up \in Seq(Snapshot) /\ proc \in Record
  BY <1>1 DEF TypeOK, Record, Snapshot
<1>3. /\ up' \in Seq(Snapshot) /\ Len(up') = Len(up) + 1 /\ up'[Len(up) + 1] = snapshot /\ Len(up) \in Nat
      /\ \A n \in 1 .. Len(up) : up'[n] = up[n]
  <2> HIDE DEF snapshot
  <2> QED BY <1>1, <1>2, AppendProperties, LenProperties
<1>4. TypeOK'
  <2>1. up' \in Seq(Snapshot) /\ Len(up') <= WireCap /\ lastSent' \in Nat
    BY <1>1, <1>3, SyncAssumption DEF TypeOK
  <2> HIDE DEF snapshot
  <2> QED BY <1>1, <2>1 DEF TypeOK, PendingOrdered, editor, host, ghosts
<1>5. Counted'
  <2>1. ASSUME NEW n \in 1 .. Len(up') PROVE up'[n].applied <= proc.applied /\ up'[n].rejected <= proc.rejected
    <3>1. CASE n \in 1 .. Len(up)
      BY <1>1, <1>3, <3>1 DEF Counted
    <3>2. CASE n = Len(up) + 1
      BY <1>2, <1>3, <3>2 DEF Record
    <3> QED BY <1>3, <3>1, <3>2
  <2> QED BY <1>1, <2>1 DEF Counted, editor
<1>6. RetiredLanded' /\ ViewIsReplay'
  BY <1>1 DEF IInv, RetiredLanded, ViewIsReplay, Outstanding, editor, ghosts
<1>7. (\A i \in 1 .. Len(pending) : Tracked(pending[i]))'
  BY <1>1 DEF IInv, Tracked, Fresh, Carries, Kept, editor, ghosts
<1> QED BY <1>4, <1>5, <1>6, <1>7 DEF IInv

-----------------------------------------------------------------------------
(* The editor *)

LEMMA EditKeeps ==
    ASSUME IInv, DocsClosed, UNCHANGED plan, NEW g, Edit(g)
    PROVE  IInv'
<1> DEFINE attempt == [run |-> g, seq |-> 0]
<1>1. /\ TypeOK /\ Counted /\ view' = Effect(g, view) /\ pending' = Append(pending, attempt) /\ made' = made \cup {g}
      /\ UNCHANGED <<processor, down, up, confirmed, sentDoc, gen, sentAt, seenRejected, resend, host, landed, dropped,
                     written>>
  BY DEF IInv, Edit
<1>2. g \in Gestures /\ attempt \in Attempt
  BY <1>1, SyncAssumption DEF Edit, TypeOK, Attempt
<1>3. /\ pending' \in Seq(Attempt) /\ Len(pending') = Len(pending) + 1 /\ pending'[Len(pending) + 1] = attempt
      /\ \A i \in 1 .. Len(pending) : pending'[i] = pending[i]
  <2>1. pending \in Seq(Attempt)
    BY <1>1 DEF TypeOK
  <2> HIDE DEF attempt
  <2> QED BY <1>1, <1>2, <2>1, AppendProperties
<1>4. Len(pending) \in Nat
  BY <1>1, Elements
<1>5. TypeOK'
  <2>1. view' \in Docs /\ made' \subseteq Gestures
    BY <1>1, <1>2 DEF DocsClosed, TypeOK
  <2>2. PendingOrdered'
    <3> SUFFICES ASSUME NEW i \in 1 .. Len(pending'), NEW j \in 1 .. Len(pending'), i < j, pending'[j].seq # 0
                 PROVE  pending'[i].seq # 0 /\ pending'[i].seq <= pending'[j].seq
      BY DEF PendingOrdered
    <3>1. j # Len(pending) + 1
      BY <1>3
    <3>2. i \in 1 .. Len(pending) /\ j \in 1 .. Len(pending)
      BY <1>3, <1>4, <3>1
    <3> QED BY <1>1, <1>3, <3>2 DEF TypeOK, PendingOrdered
  <2> HIDE DEF attempt
  <2> QED BY <1>1, <1>3, <2>1, <2>2 DEF TypeOK, processor, host
<1>6. Counted'
  BY <1>1 DEF Counted, processor
<1>7. (\A i \in 1 .. Len(pending) : Tracked(pending[i]))'
  <2> SUFFICES ASSUME NEW i \in 1 .. Len(pending') PROVE Tracked(pending[i])'
    OBVIOUS
  <2>1. CASE i = Len(pending) + 1
    BY <1>1, <1>3, <2>1 DEF Tracked, TypeOK
  <2>2. CASE i # Len(pending) + 1
    <3>1. PICK a \in Attempt : a = pending[i] /\ a = pending'[i] /\ Tracked(a)
      <4>1. i \in 1 .. Len(pending)
        BY <1>3, <1>4, <2>2
      <4> QED BY <1>1, <1>3, <4>1, Elements DEF IInv
    <3>2. Tracked(a)'
      BY <1>1, <3>1 DEF Tracked, Fresh, Carries, Kept, processor
    <3> QED BY <3>1, <3>2
  <2> QED BY <2>1, <2>2
<1>8. RetiredLanded'
  <2>1. Outstanding \cup {g} \subseteq Outstanding'
    BY <1>3, <1>4 DEF Outstanding
  <2> QED BY <1>1, <2>1 DEF IInv, RetiredLanded
<1>9. ViewIsReplay'
  <2>1. Replay(confirmed, Append(pending, attempt)) = Effect(attempt.run, Replay(confirmed, pending))
    <3>1. pending \in Seq(Attempt)
      BY <1>1 DEF TypeOK
    <3> HIDE DEF attempt
    <3> QED BY <1>2, <3>1, ReplayMore
  <2>2. attempt.run = g /\ confirmed' = confirmed
    BY <1>1
  <2> HIDE DEF attempt
  <2> QED BY <1>1, <2>1, <2>2 DEF IInv, ViewIsReplay
<1> QED BY <1>5, <1>6, <1>7, <1>8, <1>9 DEF IInv

LEMMA Mapped ==
    ASSUME NEW S, NEW n \in Nat, NEW f \in [1 .. n -> S]
    PROVE  f \in Seq(S) /\ Len(f) = n
<1>1. f \in Seq(S)
  BY SeqDef
<1>2. Len(f) \in Nat /\ DOMAIN f = 1 .. Len(f)
  BY <1>1, LenProperties
<1> QED BY <1>1, <1>2

LEMMA FlushKeeps ==
    ASSUME IInv, UNCHANGED plan, Flush
    PROVE  IInv'
<1> DEFINE patch == [base |-> sentDoc, next |-> view, seq |-> sentAt + 1, apply |-> FlushPolicy, seen |-> seenRejected,
                     carries |-> Carried]
           N == Len(pending)
<1>1. /\ TypeOK /\ Counted /\ Len(down) < WireCap /\ sentAt + 1 < Always /\ down' = Append(down, patch)
      /\ sentAt' = sentAt + 1 /\ sentDoc' = view /\ resend' = FALSE
      /\ pending' = [i \in 1 .. N |-> [pending[i] EXCEPT !.seq = IF @ = 0 THEN sentAt' ELSE @]]
      /\ UNCHANGED <<processor, up, confirmed, view, gen, seenRejected, host, ghosts>>
  BY DEF IInv, Flush
<1>2. /\ sentAt \in Nat /\ Always \in Nat /\ N \in Nat /\ \A i \in 1 .. N : pending[i] \in Attempt
      /\ Len(down) \in Nat /\ \A j \in 1 .. Len(down) : down[j] \in Patch
  BY <1>1, Elements, SyncAssumption DEF TypeOK
<1>3. patch \in Patch
  <2>1. FlushPolicy \in Applies
    BY DEF FlushPolicy, Applies
  <2>2. Carried \subseteq Gestures
    BY <1>2 DEF Carried, Outstanding, Unsent, Attempt
  <2> QED BY <1>1, <1>2, <2>1, <2>2 DEF Patch, TypeOK
<1>4. /\ down' \in Seq(Patch) /\ Len(down') = Len(down) + 1 /\ down'[Len(down) + 1] = patch
      /\ \A j \in 1 .. Len(down) : down'[j] = down[j]
  <2>1. down \in Seq(Patch)
    BY <1>1 DEF TypeOK
  <2> HIDE DEF patch
  <2> QED BY <1>1, <1>3, <2>1, AppendProperties
<1>5. \A i \in 1 .. N : /\ pending'[i] \in Attempt /\ pending'[i].run = pending[i].run
                        /\ pending'[i].seq = IF pending[i].seq = 0 THEN sentAt + 1 ELSE pending[i].seq
  BY <1>1, <1>2 DEF Attempt
<1>6. pending' \in Seq(Attempt) /\ Len(pending') = N
  <2>1. pending' \in [1 .. N -> Attempt]
    <3>1. pending' = [i \in 1 .. N |-> pending'[i]]
      BY <1>1
    <3> QED BY <1>5, <3>1
  <2> QED BY <1>2, <2>1, Mapped
<1>7. \A i \in 1 .. N : pending[i].seq <= sentAt /\ pending[i].seq \in Nat
  BY <1>2 DEF IInv, Tracked, Attempt
<1> HIDE DEF N
<1>8. TypeOK'
  <2>1. PendingOrdered'
    <3> SUFFICES ASSUME NEW i \in 1 .. N, NEW j \in 1 .. N, i < j
                 PROVE  pending'[j].seq = 0 \/ (pending'[i].seq # 0 /\ pending'[i].seq <= pending'[j].seq)
      BY <1>6 DEF PendingOrdered
    <3>1. pending[j].seq = 0 \/ (pending[i].seq # 0 /\ pending[i].seq <= pending[j].seq)
      BY <1>1 DEF TypeOK, PendingOrdered, N
    <3> QED BY <1>2, <1>5, <1>7, <3>1
  <2>2. sentAt' \in 0 .. Always - 1 /\ Len(down') <= WireCap /\ sentDoc' \in Docs /\ resend' \in BOOLEAN
    <3>1. sentAt' \in 0 .. Always - 1
      BY <1>1, <1>2
    <3>2. Len(down') <= WireCap
      BY <1>1, <1>2, <1>4, SyncAssumption
    <3>3. sentDoc' \in Docs
      BY <1>1 DEF TypeOK
    <3>4. resend' \in BOOLEAN
      BY <1>1, Zenon
    <3> QED BY <3>1, <3>2, <3>3, <3>4
  <2> HIDE DEF patch
  <2> QED BY <1>1, <1>4, <1>6, <2>1, <2>2 DEF TypeOK, processor, host, ghosts
<1>9. Counted'
  <2>1. /\ proc.applied \in Nat /\ proc.rejected \in Nat /\ seenRejected \in Nat
        /\ proc.applied <= sentAt /\ proc.rejected <= sentAt /\ seenRejected <= proc.rejected
        /\ staged # None => staged.seq \in Nat /\ staged.seq <= sentAt
    BY <1>1 DEF Counted, TypeOK, Record, Staged
  <2>2. ASSUME NEW j \in 1 .. Len(down')
        PROVE  /\ down'[j].seq <= sentAt' /\ proc.applied < down'[j].seq /\ proc.rejected < down'[j].seq
               /\ down'[j].seen <= seenRejected
               /\ staged # None => staged.seq < down'[j].seq
    <3>1. CASE j = Len(down) + 1
      BY <1>1, <1>2, <1>4, <2>1, <3>1
    <3>2. CASE j # Len(down) + 1
      <4>1. j \in 1 .. Len(down) /\ down'[j] = down[j] /\ down[j].seq \in Nat
        BY <1>2, <1>4, <3>2 DEF Patch
      <4>2. /\ down[j].seq <= sentAt /\ proc.applied < down[j].seq /\ proc.rejected < down[j].seq
            /\ down[j].seen <= seenRejected
            /\ staged # None => staged.seq < down[j].seq
        BY <1>1, <4>1 DEF Counted
      <4>3. down[j].seq <= sentAt'
        BY <1>1, <1>2, <4>1, <4>2
      <4> QED BY <4>1, <4>2, <4>3
    <3> QED BY <3>1, <3>2
  <2>3. ASSUME NEW i \in 1 .. Len(down'), NEW j \in 1 .. Len(down'), i < j PROVE down'[i].seq < down'[j].seq
    <3>1. i \in 1 .. Len(down) /\ down'[i] = down[i] /\ down[i].seq \in Nat /\ down[i].seq <= sentAt
      BY <1>1, <1>2, <1>4, <2>3 DEF Counted, Patch
    <3>2. CASE j = Len(down) + 1
      BY <1>2, <1>4, <3>1, <3>2
    <3>3. CASE j # Len(down) + 1
      <4>1. j \in 1 .. Len(down)
        BY <1>2, <1>4, <3>3
      <4> QED BY <1>1, <1>4, <2>3, <3>1, <4>1 DEF Counted
    <3> QED BY <3>2, <3>3
  <2>4. proc'.applied <= sentAt' /\ proc'.rejected <= sentAt' /\ (staged' # None => staged'.seq <= sentAt')
    BY <1>1, <1>2, <2>1 DEF processor
  <2> HIDE DEF patch
  <2> QED BY <1>1, <2>1, <2>2, <2>3, <2>4 DEF Counted, processor
<1>10. ASSUME NEW i \in 1 .. N PROVE Tracked(pending[i])'
  <2>1. PICK a \in Attempt : a = pending[i] /\ Tracked(a)
    BY <1>2 DEF IInv, N
  <2>2. PICK b \in Attempt : b = pending'[i] /\ b.run = a.run /\ b.seq = IF a.seq = 0 THEN sentAt + 1 ELSE a.seq
    BY <1>5, <2>1
  <2>3. a.run \in Outstanding /\ (a.seq = 0 => a.run \in Unsent)
    BY <2>1 DEF Outstanding, Unsent, N
  <2>4. b.run \in made' /\ b.seq <= sentAt' /\ a.seq <= sentAt /\ a.seq \in Nat /\ b.seq \in Nat
    BY <1>1, <1>2, <1>7, <2>1, <2>2 DEF Tracked, ghosts, Attempt
  <2>5. b.run \in patch.carries \/ (a.seq # 0 /\ patch.apply # "Overwrite")
    BY <2>2, <2>3 DEF Carried
  <2>6. /\ patch.seq = sentAt + 1 /\ patch.seen = seenRejected
        /\ \A j \in 1 .. Len(down) : down[j].seq \in Nat /\ down[j].seq <= sentAt
        /\ staged # None => staged.seq \in Nat /\ staged.seq <= sentAt
        /\ proc.applied \in Nat /\ proc.applied <= sentAt
    BY <1>1, <1>2 DEF Counted, TypeOK, Staged, Patch, Record
  <2> HIDE DEF patch
  <2>7. \A j \in 1 .. Len(down') : (j \in 1 .. Len(down) /\ down'[j] = down[j]) \/ (j = Len(down) + 1 /\ down'[j] = patch)
    BY <1>2, <1>4
  <2>8. Len(down) + 1 \in 1 .. Len(down') /\ \A j \in 1 .. Len(down) : j \in 1 .. Len(down')
    BY <1>2, <1>4
  <2>u. UNCHANGED <<proc, staged, seenRejected, landed, dropped>>
    BY <1>1 DEF processor, ghosts
  <2>9. CASE a.seq = 0
    <3>1. b.seq = sentAt + 1
      BY <2>2, <2>9
    <3>2. Fresh(b.seq)'
      <4>1. \A j \in 1 .. Len(down') : b.seq <= down'[j].seq => down'[j].seen = seenRejected
        BY <1>2, <2>6, <2>7, <3>1
      <4>2. staged # None => ~(b.seq <= staged.seq)
        BY <1>2, <2>6, <3>1
      <4> QED BY <2>u, <4>1, <4>2 DEF Fresh
    <3>3. Carries(b.run, b.seq)'
      <4>1. \A j \in 1 .. Len(down) : ~(down[j].seq = b.seq) /\ ~(b.seq < down[j].seq)
        BY <1>2, <2>6, <3>1
      <4>2. \A j \in 1 .. Len(down') : (down'[j].seq = b.seq \/ b.seq < down'[j].seq) => b.run \in down'[j].carries
        BY <2>5, <2>7, <2>9, <4>1
      <4> QED BY <4>2 DEF Carries
    <3>4. Kept(b.run, b.seq)'
      <4>1. proc'.applied < b.seq
        BY <1>2, <2>6, <2>u, <3>1
      <4> QED BY <1>4, <2>6, <2>8, <3>1, <4>1 DEF Kept
    <3> QED BY <2>2, <2>4, <3>2, <3>3, <3>4 DEF Tracked
  <2>10. CASE a.seq # 0
    <3>1. /\ b.seq = a.seq /\ b.seq < patch.seq
          /\ Fresh(b.seq) /\ Carries(b.run, b.seq) /\ (b.run \in landed \cup dropped \/ Kept(b.run, b.seq))
      BY <1>2, <2>1, <2>2, <2>4, <2>6, <2>10 DEF Tracked
    <3>2. Fresh(b.seq)'
      BY <2>6, <2>7, <2>u, <3>1 DEF Fresh
    <3>3. Carries(b.run, b.seq)'
      <4> SUFFICES ASSUME NEW j \in 1 .. Len(down'),
                          down'[j].seq = b.seq \/ (b.seq < down'[j].seq /\ down'[j].apply = "Overwrite")
                   PROVE  b.run \in down'[j].carries
        BY DEF Carries
      <4>1. CASE j \in 1 .. Len(down) /\ down'[j] = down[j]
        BY <3>1, <4>1 DEF Carries
      <4>2. CASE j = Len(down) + 1 /\ down'[j] = patch
        <5>1. patch.seq # b.seq
          BY <1>2, <2>4, <2>6, <3>1
        <5> QED BY <2>5, <4>2, <5>1
      <4> QED BY <2>7, <4>1, <4>2
    <3>4. Kept(b.run, b.seq) => Kept(b.run, b.seq)'
      <4> SUFFICES ASSUME Kept(b.run, b.seq) PROVE Kept(b.run, b.seq)'
        OBVIOUS
      <4>1. CASE \E j \in 1 .. Len(down) : down[j].seq = b.seq
        BY <1>4, <2>8, <2>u, <4>1 DEF Kept
      <4>2. CASE staged # None /\ b.run \in staged.carries /\ b.seq <= staged.seq
        BY <2>u, <4>2 DEF Kept
      <4>3. CASE /\ seenRejected < proc.rejected /\ (staged # None => ~IsReplace(staged))
                 /\ \A j \in 1 .. Len(down) : b.seq < down[j].seq
        <5>1. \A j \in 1 .. Len(down') : b.seq < down'[j].seq
          BY <2>7, <3>1, <4>3
        <5> QED BY <2>u, <4>3, <5>1 DEF Kept
      <4> QED BY <4>1, <4>2, <4>3 DEF Kept
    <3> QED BY <2>2, <2>4, <2>u, <3>1, <3>2, <3>3, <3>4 DEF Tracked
  <2> QED BY <2>9, <2>10
<1>11. RetiredLanded'
  <2>1. Outstanding' = Outstanding
    BY <1>5, <1>6 DEF Outstanding, N
  <2> QED BY <1>1, <2>1 DEF IInv, RetiredLanded, ghosts
<1>12. ViewIsReplay'
  <2>1. Replay(confirmed, pending') = Replay(confirmed, pending)
    BY <1>2, <1>5, <1>6, ReplaySame DEF N
  <2> QED BY <1>1, <2>1 DEF IInv, ViewIsReplay
<1> QED BY <1>6, <1>8, <1>9, <1>10, <1>11, <1>12 DEF IInv

\* What a poll makes of the wire and the watermarks.
LEMMA Polled ==
    ASSUME TypeOK, Counted, NEW n \in 1 .. Len(up), Poll(n)
    PROVE  /\ up[n] \in Snapshot /\ up[n].applied <= proc.applied /\ up[n].rejected <= proc.rejected
           /\ gen' \in Nat /\ seenRejected' \in Nat /\ seenRejected <= seenRejected' /\ seenRejected' <= proc.rejected
           /\ up[n].rejected <= seenRejected => seenRejected' = seenRejected
           /\ up' \in Seq(Snapshot) /\ Len(up') <= WireCap
           /\ \A m \in 1 .. Len(up') : up'[m].applied <= proc.applied /\ up'[m].rejected <= proc.rejected
<1>1. /\ up \in Seq(Snapshot) /\ Len(up) \in Nat /\ Len(up) <= WireCap /\ WireCap \in Nat /\ up[n] \in Snapshot
      /\ seenRejected \in Nat /\ proc.rejected \in Nat /\ seenRejected <= proc.rejected
      /\ \A m \in 1 .. Len(up) : up[m].applied <= proc.applied /\ up[m].rejected <= proc.rejected
  BY Elements, SyncAssumption DEF TypeOK, Counted, Record
<1>2. up[n].rejected \in Nat /\ up[n].gen \in Nat
  BY <1>1 DEF Snapshot
<1>3. /\ gen' = up[n].gen /\ up' = SubSeq(up, n + 1, Len(up))
      /\ seenRejected' = IF up[n].rejected > seenRejected THEN up[n].rejected ELSE seenRejected
  BY DEF Poll, From
<1>4. /\ up' \in Seq(Snapshot) /\ Len(up') = Len(up) - n
      /\ \A m \in 1 .. Len(up) - n : up'[m] = up[n + m]
  <2>1. /\ SubSeq(up, n + 1, Len(up)) \in Seq(Snapshot)
        /\ Len(SubSeq(up, n + 1, Len(up))) = IF n + 1 <= Len(up) THEN Len(up) - (n + 1) + 1 ELSE 0
        /\ \A m \in 1 .. Len(up) - (n + 1) + 1 : SubSeq(up, n + 1, Len(up))[m] = up[n + 1 + m - 1]
    BY <1>1, SubSeqProperties
  <2> QED BY <1>1, <1>3, <2>1
<1>5. \A m \in 1 .. Len(up') : up'[m].applied <= proc.applied /\ up'[m].rejected <= proc.rejected
  <2> TAKE m \in 1 .. Len(up')
  <2>1. n + m \in 1 .. Len(up) /\ up'[m] = up[n + m]
    BY <1>1, <1>4
  <2> QED BY <1>1, <2>1
<1>6. Len(up') <= WireCap
  BY <1>1, <1>4
<1> QED BY <1>1, <1>2, <1>3, <1>4, <1>5, <1>6

\* The gestures a snapshot retires are the first ones, each of a patch sent and no younger than the last one applied.
LEMMA Retires ==
    ASSUME TypeOK, NEW applied \in Nat
    PROVE  \E n \in 0 .. Len(pending) :
              /\ \A i \in 1 .. n : pending[i].seq # 0 /\ pending[i].seq <= applied
              /\ Outlasting(applied) \in Seq(Attempt) /\ Len(Outlasting(applied)) = Len(pending) - n
              /\ \A i \in 1 .. Len(pending) - n : Outlasting(applied)[i] = pending[n + i]
<1> DEFINE N == Len(pending)
           Front(n) == /\ \A i \in 1 .. n : pending[i].seq # 0 /\ pending[i].seq <= applied
                       /\ n < N => ~(pending[n + 1].seq # 0 /\ pending[n + 1].seq <= applied)
           n == CHOOSE k \in 0 .. N : Front(k)
<1>1. N \in Nat /\ pending \in Seq(Attempt)
  BY Elements DEF TypeOK
<1>2. \E k \in 0 .. N : Front(k)
  <2> DEFINE T == {i \in 1 .. N : pending[i].seq # 0 /\ pending[i].seq <= applied}
  <2>1. \E k \in 0 .. N : (\A i \in 1 .. k : i \in T) /\ (k < N => k + 1 \notin T)
    <3> HIDE DEF T, N
    <3> QED BY <1>1, FrontExists
  <2>2. PICK k \in 0 .. N : (\A i \in 1 .. k : i \in T) /\ (k < N => k + 1 \notin T)
    BY <2>1
  <2>3. k < N => k + 1 \in 1 .. N
    BY <1>1
  <2> QED BY <2>2, <2>3
<1>3. n \in 0 .. N /\ Front(n)
  <2> HIDE DEF N, Front
  <2> QED BY <1>2
<1>4. Outlasting(applied) = SubSeq(pending, 1 + n, N)
  BY DEF Outlasting, Leading, From
<1> HIDE DEF n, N
<1>5. /\ SubSeq(pending, 1 + n, N) \in Seq(Attempt) /\ Len(SubSeq(pending, 1 + n, N)) = N - n
      /\ \A i \in 1 .. N - n : SubSeq(pending, 1 + n, N)[i] = pending[n + i]
  <2>1. /\ SubSeq(pending, 1 + n, N) \in Seq(Attempt)
        /\ Len(SubSeq(pending, 1 + n, N)) = IF 1 + n <= N THEN N - (1 + n) + 1 ELSE 0
        /\ \A i \in 1 .. N - (1 + n) + 1 : SubSeq(pending, 1 + n, N)[i] = pending[1 + n + i - 1]
    BY <1>1, <1>3, SubSeqProperties DEF N
  <2>2. n \in 0 .. N
    BY <1>3
  <2> QED BY <1>1, <2>1, <2>2
<1> QED BY <1>1, <1>3, <1>4, <1>5 DEF N

LEMMA Accepts ==
    ASSUME NEW attempts \in Seq(Attempt)
    PROVE  Leading(attempts, LAMBDA a : a.seq # 0) \in 0 .. Len(attempts)
<1> DEFINE N == Len(attempts) T == {i \in 1 .. N : attempts[i].seq # 0}
           Front(n) == (\A i \in 1 .. n : attempts[i].seq # 0) /\ (n < N => ~(attempts[n + 1].seq # 0))
<1>1. N \in Nat
  BY LenProperties
<1>2. \E k \in 0 .. N : (\A i \in 1 .. k : i \in T) /\ (k < N => k + 1 \notin T)
  <2> HIDE DEF T, N
  <2> QED BY <1>1, FrontExists
<1>3. PICK k \in 0 .. N : (\A i \in 1 .. k : i \in T) /\ (k < N => k + 1 \notin T)
  BY <1>2
<1>4. k < N => k + 1 \in 1 .. N
  BY <1>1
<1>5. \E n \in 0 .. N : Front(n)
  BY <1>3, <1>4
<1>6. (CHOOSE n \in 0 .. N : Front(n)) \in 0 .. N
  <2> HIDE DEF N, Front
  <2> QED BY <1>5
<1> QED BY <1>6 DEF Leading

LEMMA RearmedAttempts ==
    ASSUME NEW attempts \in Seq(Attempt)
    PROVE  /\ Rearmed(attempts) \in Seq(Attempt) /\ Len(Rearmed(attempts)) = Len(attempts)
           /\ \A i \in 1 .. Len(attempts) : Rearmed(attempts)[i].run = attempts[i].run /\ Rearmed(attempts)[i].seq = 0
<1>1. Len(attempts) \in Nat /\ \A i \in 1 .. Len(attempts) : attempts[i] \in Attempt
  BY LenProperties, ElementOfSeq
<1>2. \A i \in 1 .. Len(attempts) : /\ Rearmed(attempts)[i] \in Attempt /\ Rearmed(attempts)[i].run = attempts[i].run
                                   /\ Rearmed(attempts)[i].seq = 0
  BY <1>1 DEF Rearmed, Attempt
<1>3. Rearmed(attempts) \in [1 .. Len(attempts) -> Attempt]
  <2>1. Rearmed(attempts) = [i \in 1 .. Len(attempts) |-> Rearmed(attempts)[i]]
    BY DEF Rearmed
  <2> QED BY <1>2, <2>1
<1> QED BY <1>1, <1>2, <1>3, Mapped

LEMMA Rebuilt ==
    ASSUME DocsClosed, confirmed' \in Docs, NEW attempts \in Seq(Attempt), Rebuild(attempts)
    PROVE  /\ sentDoc' \in Docs /\ view' \in Docs /\ pending' = attempts
           /\ view' = Replay(confirmed', attempts)
<1> DEFINE k == Leading(attempts, LAMBDA a : a.seq # 0)
           first == SubSeq(attempts, 1, k) rest == SubSeq(attempts, k + 1, Len(attempts))
<1>1. k \in 0 .. Len(attempts) /\ Len(attempts) \in Nat
  BY Accepts, LenProperties
<1>2. sentDoc' = Replay(confirmed', first) /\ view' = Replay(sentDoc', rest) /\ pending' = attempts
  BY DEF Rebuild, From
<1> HIDE DEF k
<1>3. first \in Seq(Attempt) /\ rest \in Seq(Attempt)
  BY <1>1, SubSeqProperties
<1>4. Replay(Replay(confirmed', first), rest) = Replay(confirmed', attempts)
  BY <1>1, ReplayParts
<1> HIDE DEF first, rest
<1>5. sentDoc' \in Docs
  BY <1>2, <1>3, ReplayTyped
<1>6. view' \in Docs
  BY <1>2, <1>3, <1>5, ReplayTyped
<1> QED BY <1>2, <1>4, <1>5, <1>6

LEMMA OnSnapshotKeeps ==
    ASSUME IInv, DocsClosed, UNCHANGED plan, OnSnapshot
    PROVE  IInv'
<1>t. TypeOK /\ Counted
  BY DEF IInv
<1>1. PICK n \in 1 .. Len(up) :
        /\ Poll(n) /\ confirmed' = up[n].value
        /\ Rebuild(IF up[n].rejected > seenRejected THEN Rearmed(Outlasting(up[n].applied))
                   ELSE Outlasting(up[n].applied))
        /\ UNCHANGED <<processor, down, sentAt, resend, host, ghosts>>
  BY DEF OnSnapshot
<1>2. /\ up[n] \in Snapshot /\ up[n].applied <= proc.applied
      /\ gen' \in Nat /\ seenRejected' \in Nat /\ seenRejected <= seenRejected' /\ seenRejected' <= proc.rejected
      /\ up[n].rejected <= seenRejected => seenRejected' = seenRejected
      /\ up' \in Seq(Snapshot) /\ Len(up') <= WireCap
      /\ \A m \in 1 .. Len(up') : up'[m].applied <= proc.applied /\ up'[m].rejected <= proc.rejected
  BY <1>1, <1>t, Polled
<1>3. /\ up[n].applied \in Nat /\ up[n].rejected \in Nat /\ up[n].value \in Docs
      /\ proc.applied \in Nat /\ seenRejected \in Nat /\ Len(pending) \in Nat
      /\ \A i \in 1 .. Len(pending) : pending[i] \in Attempt
  BY <1>2, <1>t, Elements DEF Snapshot, TypeOK, Record
<1> DEFINE left == Outlasting(up[n].applied)
<1>4. PICK k \in 0 .. Len(pending) :
        /\ \A i \in 1 .. k : pending[i].seq # 0 /\ pending[i].seq <= up[n].applied
        /\ left \in Seq(Attempt) /\ Len(left) = Len(pending) - k
        /\ \A i \in 1 .. Len(pending) - k : left[i] = pending[k + i]
  BY <1>3, <1>t, Retires
<1> HIDE DEF left
<1> DEFINE news == up[n].rejected > seenRejected
           attempts == IF news THEN Rearmed(left) ELSE left
<1>5. /\ attempts \in Seq(Attempt) /\ Len(attempts) = Len(pending) - k
      /\ \A i \in 1 .. Len(attempts) : /\ k + i \in 1 .. Len(pending)
                                      /\ attempts[i].run = pending[k + i].run
                                      /\ attempts[i] \in Attempt
                                      /\ attempts[i].seq = IF news THEN 0 ELSE pending[k + i].seq
  <2> HIDE DEF news
  <2>1. /\ attempts \in Seq(Attempt) /\ Len(attempts) = Len(pending) - k
        /\ \A i \in 1 .. Len(attempts) : /\ attempts[i].run = left[i].run
                                        /\ attempts[i].seq = IF news THEN 0 ELSE left[i].seq
    BY <1>4, RearmedAttempts
  <2> HIDE DEF attempts
  <2>2. \A i \in 1 .. Len(attempts) : attempts[i] \in Attempt
    BY <2>1, ElementOfSeq
  <2>3. \A i \in 1 .. Len(attempts) : k + i \in 1 .. Len(pending) /\ left[i] = pending[k + i]
    BY <1>3, <1>4, <2>1
  <2> QED BY <2>1, <2>2, <2>3
<1>6. Rebuild(attempts)
  BY <1>1 DEF left
<1> HIDE DEF attempts
<1>7. sentDoc' \in Docs /\ view' \in Docs /\ pending' = attempts /\ view' = Replay(confirmed', attempts)
  BY <1>1, <1>3, <1>5, <1>6, Rebuilt
<1>u. UNCHANGED <<proc, staged, edits, owed, lastSent, down, sentAt, resend, host, made, landed, dropped, written>>
  BY <1>1 DEF processor, ghosts
<1>8. TypeOK'
  <2>1. PendingOrdered'
    <3> SUFFICES ASSUME NEW i \in 1 .. Len(attempts), NEW j \in 1 .. Len(attempts), i < j
                 PROVE  attempts[j].seq = 0 \/ (attempts[i].seq # 0 /\ attempts[i].seq <= attempts[j].seq)
      BY <1>7 DEF PendingOrdered
    <3>1. CASE news
      BY <1>5, <3>1
    <3>2. CASE ~news
      <4>1. k + i \in 1 .. Len(pending) /\ k + j \in 1 .. Len(pending) /\ k + i < k + j
        BY <1>5
      <4>2. pending[k + j].seq = 0 \/ (pending[k + i].seq # 0 /\ pending[k + i].seq <= pending[k + j].seq)
        BY <1>t, <4>1 DEF TypeOK, PendingOrdered
      <4> HIDE DEF news
      <4> QED BY <1>5, <3>2, <4>2
    <3> QED BY <3>1, <3>2
  <2>2. confirmed' \in Docs
    BY <1>1, <1>3
  <2> QED BY <1>2, <1>5, <1>7, <1>t, <1>u, <2>1, <2>2 DEF TypeOK, host
<1>9. Counted'
  <2>1. proc.rejected \in Nat /\ (staged # None => staged.seen \in Nat) /\ (\A j \in 1 .. Len(down) : down[j].seen \in Nat)
    BY <1>t, Elements DEF TypeOK, Record, Staged, Patch
  <2>2. \A j \in 1 .. Len(down) : down[j].seen <= seenRejected'
    BY <1>2, <1>3, <1>t, <2>1 DEF Counted
  <2>3. staged # None /\ ~IsReplace(staged) => staged.seen <= seenRejected'
    BY <1>2, <1>3, <1>t, <2>1 DEF Counted
  <2> QED BY <1>2, <1>t, <1>u, <2>2, <2>3 DEF Counted
<1>10. ASSUME NEW i \in 1 .. Len(pending') PROVE Tracked(pending[i])'
  <2>1. PICK a \in Attempt : a = pending[k + i] /\ Tracked(a)
    BY <1>3, <1>5, <1>7 DEF IInv
  <2>2. PICK b \in Attempt : b = pending'[i] /\ b.run = a.run /\ b.seq = IF news THEN 0 ELSE a.seq
    BY <1>5, <1>7, <2>1
  <2>3. b.run \in made
    BY <2>1, <2>2 DEF Tracked
  <2>4. CASE news
    <3>1. b.seq = 0 /\ 0 <= sentAt
      BY <1>t, <2>2, <2>4 DEF TypeOK
    <3>2. Tracked(b)'
      BY <1>u, <2>3, <3>1 DEF Tracked
    <3> QED BY <2>2, <3>2
  <2>5. CASE ~news
    <3>1. b.seq = a.seq /\ seenRejected' = seenRejected
      BY <1>2, <1>3, <2>2, <2>5
    <3>2. b = a
      BY <2>2, <3>1 DEF Attempt
    <3>3. Tracked(a)'
      BY <1>u, <2>1, <3>1 DEF Tracked, Fresh, Carries, Kept
    <3>4. Tracked(b)'
      BY <3>2, <3>3
    <3> QED BY <2>2, <3>4
  <2> QED BY <2>4, <2>5
<1>11. RetiredLanded'
  <2>1. ASSUME NEW g \in made, g \notin landed, g \notin dropped PROVE g \in Outstanding'
    <3>1. PICK i \in 1 .. Len(pending) : pending[i].run = g
      BY <2>1 DEF IInv, RetiredLanded, Outstanding
    <3>2. ~(i \in 1 .. k)
      <4> SUFFICES ASSUME i \in 1 .. k PROVE FALSE
        OBVIOUS
      <4>1. PICK a \in Attempt : a = pending[i] /\ Tracked(a)
        BY <1>3, <3>1 DEF IInv
      <4>2. a.seq # 0 /\ a.seq <= up[n].applied /\ a.seq \in Nat /\ a.run = g
        BY <1>4, <3>1, <4>1 DEF Attempt
      <4>3. proc.applied < a.seq
        BY <2>1, <4>1, <4>2 DEF Tracked, Kept
      <4> QED BY <1>2, <1>3, <4>2, <4>3
    <3>3. i - k \in 1 .. Len(attempts) /\ k + (i - k) = i
      BY <1>3, <1>5, <3>2
    <3>4. attempts[i - k].run = g
      BY <1>5, <3>1, <3>3
    <3> QED BY <1>7, <3>3, <3>4 DEF Outstanding
  <2> QED BY <1>u, <2>1 DEF RetiredLanded
<1>12. ViewIsReplay'
  BY <1>7 DEF ViewIsReplay
<1> QED BY <1>8, <1>9, <1>10, <1>11, <1>12 DEF IInv

-----------------------------------------------------------------------------
(* Loads *)

LEMMA LoadStageKeeps ==
    ASSUME IInv, UNCHANGED plan, NEW doc \in plan.loads, LoadStage(doc)
    PROVE  IInv'
<1>1. /\ TypeOK /\ Counted /\ doc \in Docs
      /\ staged' = [base |-> None, next |-> doc, seq |-> 0, apply |-> "Overwrite", seen |-> Always, carries |-> {}]
      /\ load' = "staged" /\ loading' = doc /\ loaded' = loaded \cup {doc} /\ dropped' = made
      /\ UNCHANGED <<proc, edits, owed, lastSent, down, up, editor, made, landed, written>>
  BY SyncAssumption DEF IInv, TypeOK, LoadStage
<1>2. staged' \in Staged /\ staged'.seq = 0 /\ staged'.base = None
  BY <1>1, SyncAssumption DEF Staged, Applies
<1>3. staged' # None /\ IsReplace(staged')
  BY <1>2, SyncAssumption DEF IsReplace
<1>4. TypeOK'
  BY <1>1, <1>2 DEF TypeOK, PendingOrdered, editor
<1>5. Counted'
  <2>1. sentAt \in Nat /\ proc.applied \in Nat /\ \A j \in 1 .. Len(down) : down[j].seq \in Nat
    BY <1>1, Elements DEF TypeOK, Record, Patch
  <2>2. \A j \in 1 .. Len(down) : 0 < down[j].seq
    BY <1>1, <2>1 DEF Counted
  <2> QED BY <1>1, <1>2, <1>3, <2>1, <2>2 DEF Counted, editor
<1>6. (\A i \in 1 .. Len(pending) : Tracked(pending[i]))'
  <2> SUFFICES ASSUME NEW i \in 1 .. Len(pending) PROVE Tracked(pending[i])'
    BY <1>1 DEF editor
  <2>1. PICK a \in Attempt : a = pending[i] /\ a = pending'[i] /\ Tracked(a)
    BY <1>1, Elements DEF IInv, editor
  <2>2. Tracked(a)'
    BY <1>1, <1>3, <2>1 DEF Tracked, Fresh, Carries, editor
  <2> QED BY <2>1, <2>2
<1>7. RetiredLanded' /\ ViewIsReplay'
  BY <1>1 DEF IInv, RetiredLanded, ViewIsReplay, Outstanding, editor
<1> QED BY <1>4, <1>5, <1>6, <1>7 DEF IInv

LEMMA LoadSkipKeeps ==
    ASSUME IInv, UNCHANGED plan, LoadSkip
    PROVE  IInv'
<1>1. /\ TypeOK /\ load' = "taken" /\ lastSent' = edits
      /\ UNCHANGED <<proc, staged, edits, owed, down, up, editor, loading, loaded, ghosts>>
  BY DEF IInv, LoadSkip
<1>2. TypeOK'
  BY <1>1 DEF TypeOK, PendingOrdered, editor, ghosts
<1>3. Counted' /\ RetiredLanded' /\ ViewIsReplay'
  BY <1>1 DEF IInv, Counted, RetiredLanded, ViewIsReplay, Outstanding, editor, ghosts
<1>4. (\A i \in 1 .. Len(pending) : Tracked(pending[i]))'
  BY <1>1 DEF IInv, Tracked, Fresh, Carries, Kept, editor, ghosts
<1> QED BY <1>2, <1>3, <1>4 DEF IInv

\* The editor starts over from the document that was loaded.
LEMMA Seeded ==
    ASSUME IInv, UNCHANGED plan, NEW doc \in Docs, Seed(doc),
           resend' \in BOOLEAN, load' \in {"none", "staged", "taken"}, loading' \in Docs,
           loaded' \subseteq plan.loads \cup plan.resends,
           down' \in Seq(Patch), Len(down') <= Len(down), \A j \in 1 .. Len(down') : down'[j] = down[j]
    PROVE  IInv'
<1>1. /\ TypeOK /\ Counted /\ confirmed' = doc /\ sentDoc' = doc /\ view' = doc /\ pending' = <<>> /\ dropped' = made
      /\ UNCHANGED <<proc, staged, edits, owed, lastSent, sentAt, made, landed, written>>
  BY DEF IInv, Seed, processor
<1>2. /\ Len(down) \in Nat /\ Len(down') \in Nat /\ Len(down) <= WireCap /\ WireCap \in Nat
      /\ proc.rejected \in Nat /\ seenRejected \in Nat
  BY <1>1, Elements, LenProperties, SyncAssumption DEF TypeOK, Record
<1>3. /\ gen' \in Nat /\ seenRejected' \in Nat /\ seenRejected <= seenRejected' /\ seenRejected' <= proc.rejected
      /\ up' \in Seq(Snapshot) /\ Len(up') <= WireCap
      /\ \A m \in 1 .. Len(up') : up'[m].applied <= proc.applied /\ up'[m].rejected <= proc.rejected
  <2>1. CASE up = <<>> /\ UNCHANGED <<up, gen, seenRejected>>
    BY <1>1, <2>1 DEF TypeOK, Counted
  <2>2. CASE \E n \in 1 .. Len(up) : Poll(n)
    BY <1>1, <2>2, Polled
  <2> QED BY <2>1, <2>2 DEF Seed
<1>4. Len(pending') = 0 /\ pending' \in Seq(Attempt) /\ Len(down') <= WireCap
  BY <1>1, <1>2, EmptySeq
<1>5. TypeOK'
  <2>1. PendingOrdered'
    BY <1>4 DEF PendingOrdered
  <2> QED BY <1>1, <1>3, <1>4, <2>1 DEF TypeOK
<1>6. Counted'
  <2>1. \A j \in 1 .. Len(down') : j \in 1 .. Len(down) /\ down'[j] = down[j] /\ down[j].seen \in Nat
    BY <1>1, <1>2, Elements DEF Patch
  <2>2. \A j \in 1 .. Len(down') : down'[j].seen <= seenRejected'
    BY <1>1, <1>2, <1>3, <2>1 DEF Counted
  <2>3. staged # None /\ ~IsReplace(staged) => staged.seen <= seenRejected'
    BY <1>1, <1>2, <1>3 DEF Counted, TypeOK, Staged
  <2> QED BY <1>1, <1>3, <2>1, <2>2, <2>3 DEF Counted
<1>7. RetiredLanded'
  BY <1>1 DEF RetiredLanded
<1>8. ViewIsReplay'
  BY <1>1, ReplayNothing DEF ViewIsReplay
<1>9. (\A i \in 1 .. Len(pending) : Tracked(pending[i]))'
  BY <1>4
<1> QED BY <1>5, <1>6, <1>7, <1>8, <1>9 DEF IInv

LEMMA LoadSeedKeeps ==
    ASSUME IInv, UNCHANGED plan, LoadSeed
    PROVE  IInv'
<1>1. TypeOK /\ Seed(loading) /\ resend' = FALSE /\ load' = "none" /\ UNCHANGED <<down, loading, loaded>>
  BY DEF IInv, LoadSeed
<1>2. /\ loading \in Docs /\ down' \in Seq(Patch) /\ Len(down') <= Len(down) /\ loaded' \subseteq plan.loads \cup plan.resends
      /\ \A j \in 1 .. Len(down') : down'[j] = down[j]
  BY <1>1, Elements DEF TypeOK
<1>3. resend' \in BOOLEAN
  BY <1>1, Zenon
<1> QED BY <1>1, <1>2, <1>3, Seeded

LEMMA LoadResendKeeps ==
    ASSUME IInv, UNCHANGED plan, NEW doc \in plan.resends, LoadResend(doc)
    PROVE  IInv'
<1>1. TypeOK /\ Seed(doc) /\ resend' = TRUE /\ loaded' = loaded \cup {doc} /\ UNCHANGED <<load, loading>> /\ doc \in Docs
  BY SyncAssumption DEF IInv, TypeOK, LoadResend
<1>2. down' \in Seq(Patch) /\ Len(down') <= Len(down) /\ \A j \in 1 .. Len(down') : down'[j] = down[j]
  <2>1. CASE down' = down
    BY <1>1, <2>1, Elements DEF TypeOK
  <2>2. CASE down # <<>> /\ down' = SubSeq(down, 1, Len(down) - 1)
    <3>1. down \in Seq(Patch) /\ Len(down) \in Nat /\ Len(down) # 0
      BY <1>1, <2>2, Elements, EmptySeq DEF TypeOK
    <3>2. /\ SubSeq(down, 1, Len(down) - 1) \in Seq(Patch)
          /\ Len(SubSeq(down, 1, Len(down) - 1)) = IF 1 <= Len(down) - 1 THEN Len(down) - 1 - 1 + 1 ELSE 0
          /\ \A j \in 1 .. Len(down) - 1 - 1 + 1 : SubSeq(down, 1, Len(down) - 1)[j] = down[1 + j - 1]
      BY <3>1, SubSeqProperties
    <3> QED BY <2>2, <3>1, <3>2
  <2> QED BY <2>1, <2>2 DEF LoadResend
<1>3. resend' \in BOOLEAN
  BY <1>1, Zenon
<1>4. load' \in {"none", "staged", "taken"} /\ loading' \in Docs /\ loaded' \subseteq plan.loads \cup plan.resends
  BY <1>1 DEF TypeOK
<1> QED BY <1>1, <1>2, <1>3, <1>4, Seeded

-----------------------------------------------------------------------------
(* The result *)

LEMMA InitHolds == Init => IInv
<1> SUFFICES ASSUME Init PROVE IInv
  OBVIOUS
<1>1. /\ down = <<>> /\ up = <<>> /\ pending = <<>> /\ Len(down) = 0 /\ Len(up) = 0 /\ Len(pending) = 0
      /\ down \in Seq(Patch) /\ up \in Seq(Snapshot) /\ pending \in Seq(Attempt)
  BY EmptySeq DEF Init
<1>2. TypeOK
  <2>1. proc \in Record /\ sentAt \in 0 .. Always - 1 /\ gen \in Nat /\ edits \in Nat /\ lastSent \in Nat /\ seenRejected \in Nat
    BY SyncAssumption DEF Init, Record
  <2>2. PendingOrdered
    BY <1>1 DEF PendingOrdered
  <2>3. owed \in BOOLEAN /\ resend \in BOOLEAN
    BY Zenon DEF Init
  <2>4. Len(down) <= WireCap /\ Len(up) <= WireCap
    BY <1>1, SyncAssumption
  <2> QED BY <1>1, <2>1, <2>2, <2>3, <2>4, SyncAssumption DEF Init, TypeOK
<1>3. Counted
  BY <1>1 DEF Init, Counted
<1>4. RetiredLanded
  BY DEF Init, RetiredLanded
<1>5. ViewIsReplay
  BY ReplayNothing DEF Init, ViewIsReplay
<1>6. \A i \in 1 .. Len(pending) : Tracked(pending[i])
  BY <1>1
<1> QED BY <1>2, <1>3, <1>4, <1>5, <1>6 DEF IInv

LEMMA StepKeeps == ASSUME DocsClosed, IInv, [Next]_vars PROVE IInv'
<1>1. CASE UNCHANGED vars
  <2>1. UNCHANGED <<plan, proc, staged, edits, owed, lastSent, down, up, confirmed, sentDoc, view, pending, gen, sentAt,
                    seenRejected, resend, load, loading, loaded, made, landed, dropped, written>>
    BY <1>1 DEF vars, processor, editor, host, ghosts
  <2>2. TypeOK' /\ Counted' /\ RetiredLanded' /\ ViewIsReplay'
    BY <2>1 DEF IInv, TypeOK, Counted, RetiredLanded, ViewIsReplay, Outstanding, PendingOrdered
  <2>3. (\A i \in 1 .. Len(pending) : Tracked(pending[i]))'
    BY <2>1 DEF IInv, Tracked, Fresh, Carries, Kept
  <2> QED BY <2>2, <2>3 DEF IInv
<1>2. CASE Next
  <2>1. UNCHANGED plan
    BY <1>2 DEF Next
  <2>2. CASE OnEdit
    BY <2>1, <2>2, OnEditKeeps
  <2>3. CASE Block
    BY <2>1, <2>3, BlockReplaceKeeps, BlockStaleKeeps, BlockRefuseKeeps, BlockMergeKeeps, BlockWriteKeeps DEF Block
  <2>4. CASE Bump
    BY <2>1, <2>4, BumpKeeps
  <2>5. CASE Pump
    BY <2>1, <2>5, PumpKeeps
  <2>6. CASE \E g \in Gestures : Edit(g)
    BY <2>1, <2>6, EditKeeps
  <2>7. CASE Flush
    BY <2>1, <2>7, FlushKeeps
  <2>8. CASE OnSnapshot
    BY <2>1, <2>8, OnSnapshotKeeps
  <2>9. CASE \E doc \in plan.loads : LoadStage(doc)
    BY <2>1, <2>9, LoadStageKeeps
  <2>10. CASE LoadSkip
    BY <2>1, <2>10, LoadSkipKeeps
  <2>11. CASE LoadSeed
    BY <2>1, <2>11, LoadSeedKeeps
  <2>12. CASE \E doc \in plan.resends : LoadResend(doc)
    BY <2>1, <2>12, LoadResendKeeps
  <2> QED BY <1>2, <2>2, <2>3, <2>4, <2>5, <2>6, <2>7, <2>8, <2>9, <2>10, <2>11, <2>12 DEF Next, Steps
<1> QED BY <1>1, <1>2

LEMMA LinkInvariance == ASSUME DocsClosed PROVE Spec => []IInv
<1>1. Init => IInv
  BY InitHolds
<1>2. IInv /\ [Next]_vars => IInv'
  BY StepKeeps
<1> QED BY <1>1, <1>2, PTL DEF Spec

\* "A refusal never loses the edit": for all documents and gestures, whatever is refused, coalesced, superseded or
\* loaded, a gesture stays pending until a patch that carries it was applied or its document was replaced; the view
\* is what is confirmed with what is pending on top; and what is in flight is well formed.
THEOREM LinkIsSound == ASSUME DocsClosed PROVE Spec => []LinkSound
<1>1. IInv => LinkSound
  BY DEF IInv, LinkSound
<1> QED BY <1>1, LinkInvariance, PTL

=============================================================================
