------------------------------ MODULE MC_Hosts ------------------------------
(* The wrappers, each between its host and a processor, the notes that pass  *)
(* through any of them, and the sessions any of them saves and loads: one    *)
(* behaviour is about one of these.  What the wrappers say of themselves is  *)
(* the same few things, and each wrapper is followed by what is proved of it *)
(* alone: the properties come after the last one.                            *)
EXTENDS Integers, SequenceTheorems, WellFoundedInduction, TLAPS

CONSTANTS Subjects, Settling, Values, Keys, None, MaxHold, FadeBlocks,
          Rates, MaxUi, MaxQueue, MaxPackets, RingSize, RingCap, LandingCap,
          Capacity, InboxRoom, OutboxRoom, Bends, Frames, MaxEvents, MaxBlocks, MaxTurns, StateBudget,
          ClapPlans, Vst3Plans, Auv2Plans, Auv3Plans, AaxPlans, WebPlans, SessionPlans,
          Sessions  \* what an AAX host may load

VARIABLES
    subject, left, main,
    kernel, sync, bypass, needsClear, offline, latency, reported, pending, accepted, names, pc, block, told,
    asked, late, quietly,
    posted, pendingLoad, chosen, hostValue, ready, changes, applied, needsResync, active, shown, raced, host,
    rate, fromFlush, fromLoad, fromUi, view, touched,
    running, loaded, wasMoving, didPeek, control, gestured, ui, uiQueue, half, toProcessor, query, swallowed,
    globals, queue, epoch, seen, pendingPreset,
    answer, switched,
    params, mirror, revision, dirty, segment, runtime, runtimeDirty, coefs, runtimePort, alg, ring, signal,
    notices, awaited, direct, cached, saver, counted, crossed,
    linked, down, posts, landing, inbound, outbound, upPosts, toMain, processor, lostDown, lostUp,
    held, next, inbox, bend, allOff, wasBypassed, passing, bypassed, skipped, outbox, slice, now, skipping, voices,
    toSend, sounding, events, blocks, turns, reset, spilled,
    format, session, kept, load

\* No value of a parameter is the absence of one.
ASSUME NoneApart == None \notin Values

\* A latency is so many samples, and there is a longest one.
ASSUME LatenciesBounded == Values \subseteq Nat /\ 0 \in Values /\ \E m \in Values : \A v \in Values : v <= m

\* Notes are held, kept and counted in numbers, and a block has so many frames.
ASSUME NotesCounted == Capacity \in Nat /\ OutboxRoom \in Nat /\ Frames \in Nat /\ None \notin Int

\* The rings take an entry.
ASSUME RingsTake == RingCap \in Nat \ {0} /\ RingSize \in Nat \ {0}

native == <<kernel, sync, bypass, needsClear, offline, latency, reported, pending, accepted, names, pc, block, told,
            asked, late, quietly>>
clap == <<rate, fromFlush, fromLoad, fromUi, view, touched>>
vst3 == <<running, loaded, wasMoving, didPeek, control, gestured, ui, uiQueue, half, toProcessor, query, swallowed>>
auv2 == <<globals, queue, epoch, seen, pendingPreset>>
auv3 == <<answer, switched>>
aax == <<params, mirror, revision, dirty, segment, runtime, runtimeDirty, coefs, runtimePort, alg, ring, signal,
         notices, awaited, direct, cached, saver, counted, crossed>>
web == <<linked, down, posts, landing, inbound, outbound, upPosts, toMain, processor, lostDown, lostUp>>
notes == <<held, next, inbox, bend, allOff, wasBypassed, passing, bypassed, skipped, outbox, slice, now, skipping, voices,
           toSend, sounding, events, blocks, turns, reset, spilled>>
instance == <<format, session, kept, load>>
wrappers == <<main, native, posted, pendingLoad, chosen, hostValue, ready, changes, applied, needsResync, active,
              shown, raced, host, clap, vst3, auv2, auv3, aax, web>>
hostVars == <<subject, left, wrappers, notes, instance>>

\* What a behaviour may hold, a plan: each kind of call so many times.
AllCalls == {"edit", "touch", "auto", "set", "flush", "load", "save", "reset", "mode", "bypass", "cycle", "rate",
             "setup", "pdc", "note", "meter", "write", "look", "resize", "undo"}
\* A session says a value and a bypass.
ASSUME SessionsRecorded == Sessions \subseteq [value : Values, bypassed : BOOLEAN]

\* The plans that are run.  The temporal properties take the first set of each wrapper, the invariants both.
Plan(r) == [c \in AllCalls |-> IF c \in DOMAIN r THEN r[c] ELSE 0]
PlansOf(few, more) == {Plan(r) : r \in few \cup IF Settling THEN {} ELSE more}

ClapCalls == PlansOf({[auto |-> 1, cycle |-> 1], [auto |-> 1, bypass |-> 1], [flush |-> 1, mode |-> 1, cycle |-> 1]},
                     {[edit |-> 1, touch |-> 2, auto |-> 1], [flush |-> 1, load |-> 1],
                      [auto |-> 1, bypass |-> 2, cycle |-> 1], [flush |-> 1, cycle |-> 1, mode |-> 1, rate |-> 1],
                      [note |-> 2, reset |-> 1, bypass |-> 1]})
Vst3Calls == PlansOf({[load |-> 1, cycle |-> 1], [auto |-> 1, setup |-> 1, cycle |-> 1], [auto |-> 1, bypass |-> 1],
                      [auto |-> 1, mode |-> 1]},
                     {[edit |-> 1, touch |-> 2], [touch |-> 2, load |-> 1], [auto |-> 2], [auto |-> 1, bypass |-> 2],
                      [note |-> 2, bypass |-> 1]})
Auv2Calls == PlansOf({[set |-> 1, cycle |-> 1], [set |-> 1, mode |-> 1], [mode |-> 1, reset |-> 1],
                      [set |-> 1, bypass |-> 1]},
                     {[set |-> 1, bypass |-> 2], [edit |-> 1, set |-> 1], [load |-> 2], [set |-> 2],
                      [set |-> 1, reset |-> 1], [note |-> 2, bypass |-> 1, mode |-> 1]})
Auv3Calls == PlansOf({[set |-> 1, reset |-> 1], [set |-> 1, mode |-> 1, cycle |-> 1], [auto |-> 1, bypass |-> 1]},
                     {[set |-> 2, auto |-> 1, reset |-> 1], [load |-> 2, set |-> 1], [auto |-> 2, bypass |-> 2],
                      [note |-> 2, bypass |-> 1, cycle |-> 1]})
AaxCalls == PlansOf({[auto |-> 1, cycle |-> 1], [auto |-> 1, pdc |-> 1], [mode |-> 1, bypass |-> 2]},
                    {[auto |-> 1, save |-> 1], [load |-> 2, save |-> 1],
                     [load |-> 1, auto |-> 1, save |-> 1], [note |-> 1, bypass |-> 1, cycle |-> 1]})
WebCalls == PlansOf({[set |-> 1, bypass |-> 1], [set |-> 1, meter |-> 2], [set |-> 1, reset |-> 1]},
                    {[set |-> 2], [set |-> 1, bypass |-> 2], [note |-> 2, bypass |-> 1], [note |-> 2, reset |-> 1]})
SessionCalls == {Plan(r) : r \in
    {[look |-> 1, resize |-> 1, save |-> 1, load |-> 1], [look |-> 1, save |-> 1, load |-> 2],
     [edit |-> 1, bypass |-> 1, save |-> 1, load |-> 2], [auto |-> 1, write |-> 1, load |-> 2, undo |-> 1],
     [look |-> 1, resize |-> 1, load |-> 1, undo |-> 2], [edit |-> 1, write |-> 1, load |-> 1, undo |-> 2]}}
TwoSessions == {[value |-> 0, bypassed |-> TRUE], [value |-> 1, bypassed |-> FALSE]}

-----------------------------------------------------------------------------
(* The notes: what the processor plays is held, and what sounds is ended.    *)

\* A source that names its notes, and one that does not.
Note == INSTANCE Notes WITH Locals <- {-1, 7}

\* A number is the lowest of those it is among.
LEMMA LowestIsThere ==
  ASSUME NEW S \in SUBSET Note!Slots, S # {}
  PROVE  Note!Lowest(S) \in S
<1> DEFINE R == {ss \in Nat \X Nat : ss[1] < ss[2]}
<1>1. IsWellFoundedOn(R, Nat)
  BY NatLessThanWellFounded, Zenon DEF OpToRel
<1>2. \A x, y \in Nat : x < y => <<x, y>> \in R
  OBVIOUS
<1>3. S \subseteq Nat
  BY NotesCounted DEF Note!Slots
<1> HIDE DEF R
<1>4. PICK m \in S : \A k \in S : ~(<<k, m>> \in R)
  BY <1>1, <1>3, WFMin
<1>5. \A k \in S : ~(k < m)
  BY <1>2, <1>3, <1>4, Zenon
<1>6. \E s \in S : \A k \in S : s <= k
  BY <1>3, <1>5
<1> QED BY <1>6, Zenon DEF Note!Lowest

\* Slots in order are all of them.
LEMMA InOrderIsAll ==
  ASSUME NEW S \in SUBSET Note!Slots, NEW t \in Note!InOrder(S)
  PROVE  /\ t \in Seq(S) /\ DOMAIN t = 1 .. Len(t)
         /\ \A s \in S : \E k \in 1 .. Len(t) : t[k] = s
<1>1. PICK n \in 0 .. Capacity : t \in [1 .. n -> S]
  BY DEF Note!InOrder
<1>2. n \in Nat
  BY <1>1, NotesCounted
<1>3. \A s \in S : \E k \in DOMAIN t : t[k] = s
  BY DEF Note!InOrder
<1> QED BY <1>1, <1>2, <1>3

Hold == {Note!Free} \cup [used : {TRUE}, id : Nat, local : {-1, 7}, channel : {0, 1}, source : {"host", "editor"}]
Asked == [on : BOOLEAN, local : {-1, 7}, channel : {0, 1}]
Sent == [on : BOOLEAN, id : Nat]
Entries == [on : BOOLEAN, id : Nat, frame : Nat]

\* The ids of the notes held.
Named == {held[s].id : s \in Note!Used}

\* Each note held has an id of its own, and one that was given out.
Table ==
    /\ held \in [Note!Slots -> Hold] /\ next \in Nat /\ turns \in Nat
    /\ \A s \in Note!Used : held[s].id < next
    /\ \A s, t \in Note!Used : held[s].id = held[t].id => s = t

\* What is in the box is in time order as it is, none later than the frame.
Sorted(box, frame) ==
    \A j \in 1 .. Len(box) : /\ box[j].frame <= frame
                             /\ \A k \in 1 .. Len(box) : j < k => box[j].frame <= box[k].frame

\* What sounds further down, once what waits went out.
Heard == Note!Played(outbox, IF allOff THEN {} ELSE sounding)

\* A note's end, as the processor sends it.
SendsOff(i) == \E k \in 1 .. Len(toSend) : toSend[k].id = i /\ ~toSend[k].on

NoteInv ==
    /\ Table
    /\ inbox \in Seq(Asked) /\ outbox \in Seq(Entries) /\ toSend \in Seq(Sent) /\ now \in 0 .. Frames \cup {None}
    /\ IF now = None THEN outbox = <<>> ELSE Sorted(outbox, now)
    /\ DOMAIN voices \subseteq Named /\ Note!NotesBend
    /\ passing = wasBypassed /\ (skipped => wasBypassed)
    /\ \A k \in 1 .. Len(toSend) :
           toSend[k].on => \/ toSend[k].id \in DOMAIN voices
                           \/ \E j \in k + 1 .. Len(toSend) : toSend[j].id = toSend[k].id /\ ~toSend[j].on
    /\ ~spilled => \A i \in Heard : /\ passing => i \in Named
                                    /\ ~passing => i \in DOMAIN voices \/ SendsOff(i)

\* A used slot holds a note.
LEMMA UsedHeld ==
  ASSUME held \in [Note!Slots -> Hold], NEW s \in Note!Used
  PROVE  held[s].id \in Nat /\ held[s].source \in {"host", "editor"}
<1>1. s \in Note!Slots /\ held[s].used /\ held[s] \in Hold
  BY DEF Note!Used
<1>2. held[s] # Note!Free
  BY <1>1 DEF Note!Free
<1>3. held[s] \in [used : {TRUE}, id : Nat, local : {-1, 7}, channel : {0, 1}, source : {"host", "editor"}]
  BY <1>1, <1>2 DEF Hold
<1> QED BY <1>3

\* In time order, what comes last counts.
LEMMA PlayedInOrder ==
  ASSUME NEW box \in Seq(Entries), NEW frame, Sorted(box, frame), NEW before
  PROVE  Note!Played(box, before) =
             {i \in before : \A k \in 1 .. Len(box) : box[k].id # i}
             \cup {i \in Nat : \E k \in 1 .. Len(box) : /\ box[k].id = i /\ box[k].on
                                                       /\ \A j \in k + 1 .. Len(box) : box[j].id # i}
<1> DEFINE Last == {k \in DOMAIN box : \A j \in DOMAIN box : box[j].id = box[k].id => ~Note!InTime(box, k, j)}
<1>1. DOMAIN box = 1 .. Len(box) /\ Len(box) \in Nat /\ \A k \in 1 .. Len(box) : box[k].frame \in Nat /\ box[k].id \in Nat
  <2>1. DOMAIN box = 1 .. Len(box) /\ Len(box) \in Nat /\ \A k \in 1 .. Len(box) : box[k] \in Entries
    OBVIOUS
  <2> QED BY <2>1 DEF Entries
<1>2. ASSUME NEW k \in 1 .. Len(box), NEW j \in 1 .. Len(box) PROVE Note!InTime(box, k, j) <=> k < j
  BY <1>1 DEF Note!InTime, Sorted
<1>3. Last = {k \in 1 .. Len(box) : \A j \in k + 1 .. Len(box) : box[j].id # box[k].id}
  <2>1. ASSUME NEW k \in Last PROVE k \in 1 .. Len(box) /\ \A j \in k + 1 .. Len(box) : box[j].id # box[k].id
    BY <1>1, <1>2
  <2>2. ASSUME NEW k \in 1 .. Len(box), \A j \in k + 1 .. Len(box) : box[j].id # box[k].id PROVE k \in Last
    BY <1>1, <1>2, <2>2
  <2> QED BY <2>1, <2>2
<1>4. Note!Played(box, before) =
          (before \ {box[k].id : k \in DOMAIN box}) \cup {box[k].id : k \in {l \in Last : box[l].on}}
  BY DEF Note!Played
<1> HIDE DEF Last
<1>5. ASSUME NEW i \in Note!Played(box, before)
      PROVE  \/ i \in before /\ \A k \in 1 .. Len(box) : box[k].id # i
             \/ i \in Nat /\ \E k \in 1 .. Len(box) : box[k].id = i /\ box[k].on /\ \A j \in k + 1 .. Len(box) : box[j].id # i
  BY <1>1, <1>3, <1>4
<1>6. ASSUME NEW i \in before, \A k \in 1 .. Len(box) : box[k].id # i PROVE i \in Note!Played(box, before)
  BY <1>1, <1>4, <1>6
<1>7. ASSUME NEW k \in 1 .. Len(box), box[k].on, \A j \in k + 1 .. Len(box) : box[j].id # box[k].id
      PROVE  box[k].id \in Note!Played(box, before)
  BY <1>3, <1>4, <1>7
<1> QED BY <1>5, <1>6, <1>7

\* What more is sent is heard last.
LEMMA PlayedMore ==
  ASSUME NEW box \in Seq(Entries), NEW more \in Seq(Entries), NEW f, Sorted(box, f),
         NEW g, Sorted(box \o more, g), NEW before, NEW i \in Note!Played(box \o more, before)
  PROVE  \/ \E k \in 1 .. Len(more) : more[k].id = i /\ more[k].on /\ \A j \in k + 1 .. Len(more) : more[j].id # i
         \/ (\A k \in 1 .. Len(more) : more[k].id # i) /\ i \in Note!Played(box, before)
<1> DEFINE all == box \o more
<1>1. /\ all \in Seq(Entries) /\ Len(all) = Len(box) + Len(more)
      /\ \A k \in 1 .. Len(box) : all[k] = box[k]
      /\ \A k \in 1 .. Len(more) : all[Len(box) + k] = more[k]
  BY ConcatProperties
<1>2. Len(box) \in Nat /\ Len(more) \in Nat
  OBVIOUS
<1> HIDE DEF all
<1>3. CASE i \in before /\ \A k \in 1 .. Len(all) : all[k].id # i
  <2>1. \A k \in 1 .. Len(more) : more[k].id # i
    BY <1>1, <1>2, <1>3
  <2>2. \A k \in 1 .. Len(box) : box[k].id # i
    BY <1>1, <1>2, <1>3
  <2> QED BY <1>3, <2>1, <2>2, PlayedInOrder
<1>4. ASSUME NEW k \in 1 .. Len(all), i \in Nat, all[k].id = i, all[k].on, \A j \in k + 1 .. Len(all) : all[j].id # i
      PROVE  \/ \E m \in 1 .. Len(more) : more[m].id = i /\ more[m].on /\ \A j \in m + 1 .. Len(more) : more[j].id # i
             \/ (\A m \in 1 .. Len(more) : more[m].id # i) /\ i \in Note!Played(box, before)
  <2>1. CASE k <= Len(box)
    <3>1. \A m \in 1 .. Len(more) : more[m].id # i
      BY <1>1, <1>2, <1>4, <2>1
    <3>2. box[k].id = i /\ box[k].on /\ \A j \in k + 1 .. Len(box) : box[j].id # i
      BY <1>1, <1>2, <1>4, <2>1
    <3>3. k \in 1 .. Len(box)
      BY <1>1, <1>2, <2>1
    <3> QED BY <1>4, <3>1, <3>2, <3>3, PlayedInOrder
  <2>2. CASE k > Len(box)
    <3>0. k - Len(box) \in 1 .. Len(more) /\ k = Len(box) + (k - Len(box))
      BY <1>1, <1>2, <1>4, <2>2
    <3>1. PICK m \in 1 .. Len(more) : k = Len(box) + m
      BY <3>0
    <3>2. more[m].id = i /\ more[m].on
      BY <1>1, <1>2, <1>4, <3>1
    <3>3. ASSUME NEW j \in m + 1 .. Len(more) PROVE more[j].id # i
      BY <1>1, <1>2, <1>4, <3>1
    <3> QED BY <3>2, <3>3
  <2> QED BY <1>1, <1>2, <2>1, <2>2
<1>5. \/ i \in before /\ \A k \in 1 .. Len(all) : all[k].id # i
      \/ i \in Nat /\ \E k \in 1 .. Len(all) : all[k].id = i /\ all[k].on /\ \A j \in k + 1 .. Len(all) : all[j].id # i
  <2>1. all \in Seq(Entries) /\ Sorted(all, g) /\ i \in Note!Played(all, before)
    BY <1>1 DEF all
  <2> QED BY <2>1, PlayedInOrder
<1> QED BY <1>3, <1>4, <1>5

\* The box keeps its order when what it takes comes no earlier, all at one frame.
LEMMA KeptSorted ==
  ASSUME NEW box \in Seq(Entries), NEW more \in Seq(Entries), NEW f \in Nat, Sorted(box, f), NEW g \in Nat, f <= g,
         \A k, j \in 1 .. Len(more) : f <= more[k].frame /\ more[k].frame <= g /\ more[k].frame = more[j].frame
  PROVE  /\ Sorted(box \o more, g)
         /\ Note!Kept(box, more) \in Seq(Entries) /\ Sorted(Note!Kept(box, more), g)
         /\ ~Note!Spills(box, more) => Note!Kept(box, more) = box \o more
<1> DEFINE all == box \o more
<1>1. /\ all \in Seq(Entries) /\ Len(all) = Len(box) + Len(more)
      /\ \A k \in 1 .. Len(all) : all[k] = IF k <= Len(box) THEN box[k] ELSE more[k - Len(box)]
  BY ConcatProperties
<1>2. Len(box) \in Nat /\ Len(more) \in Nat /\ Len(all) \in Nat
  BY <1>1
<1>3. \A k \in 1 .. Len(all) : k > Len(box) => k - Len(box) \in 1 .. Len(more)
  BY <1>1, <1>2
<1>4. \A k \in 1 .. Len(all) : all[k].frame \in Nat
  <2>1. \A k \in 1 .. Len(all) : all[k] \in Entries
    BY <1>1
  <2> QED BY <2>1 DEF Entries
<1> HIDE DEF all
<1>5. Sorted(all, g)
  <2>1. ASSUME NEW j \in 1 .. Len(all)
        PROVE  /\ all[j].frame <= g
               /\ j > Len(box) => f <= all[j].frame
               /\ j <= Len(box) => all[j].frame <= f
    <3>1. CASE j <= Len(box)
      <4>1. j \in 1 .. Len(box) /\ all[j] = box[j]
        BY <1>1, <1>2, <3>1
      <4>2. all[j].frame <= f
        BY <4>1 DEF Sorted
      <4> QED BY <1>2, <1>4, <3>1, <4>2
    <3>2. CASE j > Len(box)
      BY <1>1, <1>2, <1>3, <3>2
    <3> QED BY <1>2, <3>1, <3>2
  <2>2. ASSUME NEW j \in 1 .. Len(all), NEW k \in 1 .. Len(all), j < k PROVE all[j].frame <= all[k].frame
    <3>1. CASE k <= Len(box)
      BY <1>1, <1>2, <2>2, <3>1 DEF Sorted
    <3>2. CASE k > Len(box) /\ j > Len(box)
      <4>1. all[j] = more[j - Len(box)] /\ all[k] = more[k - Len(box)]
        BY <1>1, <1>2, <3>2
      <4>2. all[j].frame = all[k].frame
        BY <1>3, <3>2, <4>1
      <4> QED BY <1>4, <4>2
    <3>3. CASE k > Len(box) /\ j <= Len(box)
      BY <2>1, <1>4, <3>3
    <3> QED BY <3>1, <3>2, <3>3, <1>2
  <2> QED BY <2>1, <2>2 DEF Sorted
<1>6. CASE ~Note!Spills(box, more)
  BY <1>1, <1>5, <1>6 DEF Note!Kept, all
<1>7. CASE Note!Spills(box, more)
  <2>1. Note!Kept(box, more) = SubSeq(all, 1, OutboxRoom) /\ OutboxRoom < Len(all)
    BY <1>1, <1>7, NotesCounted DEF Note!Kept, Note!Spills, all
  <2>2. /\ SubSeq(all, 1, OutboxRoom) \in Seq(Entries) /\ Len(SubSeq(all, 1, OutboxRoom)) = OutboxRoom
        /\ \A k \in 1 .. OutboxRoom : SubSeq(all, 1, OutboxRoom)[k] = all[k]
    BY <1>1, <1>2, <2>1, NotesCounted, SubSeqProperties
  <2>3. Sorted(SubSeq(all, 1, OutboxRoom), g)
    BY <1>2, <1>5, <2>1, <2>2, NotesCounted DEF Sorted
  <2> QED BY <1>5, <1>7, <2>1, <2>2, <2>3 DEF all
<1> QED BY <1>6, <1>7

\* All that the invariant is about.
noted == <<held, next, inbox, turns, outbox, toSend, now, voices, bend, reset, passing, wasBypassed, skipped, spilled,
           allOff, sounding>>

\* Nothing but the reader's counts moves.
LEMMA NotesSame ==
  ASSUME NoteInv, UNCHANGED noted
  PROVE  NoteInv'
BY DEF NoteInv, noted, Table, Named, Heard, Sorted, SendsOff, Note!NotesBend, Note!Used

\* What no step of a block's events changes.
around == <<turns, now, passing, wasBypassed, skipped, allOff, sounding>>

\* A note that starts takes a free slot and the next id: the processor has it, and further down hears it at most.
LEMMA NotesStart ==
  ASSUME NoteInv, now # None, NEW source \in {"host", "editor"}, NEW local \in {-1, 7}, NEW channel \in {0, 1},
         Note!NoteOn(source, local, channel, now), UNCHANGED around,
         inbox' \in Seq(Asked), bend' = bend, reset' = reset
  PROVE  NoteInv'
<1>1. CASE Note!Used = Note!Slots
  <2>1. UNCHANGED <<held, next, outbox, toSend, voices, spilled, around>>
    BY <1>1 DEF Note!NoteOn, Note!names, Note!player
  <2> QED BY <2>1 DEF around, NoteInv, Table, Named, Heard, Sorted, SendsOff, Note!NotesBend, Note!Used
<1>2. CASE Note!Used # Note!Slots
  <2> DEFINE l == Note!Lowest(Note!Slots \ Note!Used)
             new == [used |-> TRUE, id |-> next, local |-> local, channel |-> channel, source |-> source]
             on == <<Note!Entry(TRUE, next, now)>>
  <2>1. l \in Note!Slots \ Note!Used
    <3>1. Note!Slots \ Note!Used \in SUBSET Note!Slots /\ Note!Slots \ Note!Used # {}
      BY <1>2 DEF Note!Used
    <3> QED BY <3>1, LowestIsThere
  <2>2. /\ held' = [held EXCEPT ![l] = new] /\ next' = next + 1
        /\ voices' = [i \in DOMAIN voices \cup {next} |->
                       IF i # next THEN voices[i] ELSE IF source = "host" /\ channel = Note!Member THEN bend ELSE 0]
        /\ toSend' = Append(toSend, [on |-> TRUE, id |-> next]) /\ Note!Pass(on)
    BY <1>2 DEF Note!NoteOn, Note!Mint, Note!Start
  <2>3. /\ held \in [Note!Slots -> Hold] /\ next \in Nat /\ now \in Nat
        /\ outbox \in Seq(Entries) /\ toSend \in Seq(Sent) /\ Sorted(outbox, now)
    BY NotesCounted DEF NoteInv, Table
  <2>4. new \in Hold
    BY <2>3, Zenon DEF Hold
  <2> HIDE DEF l, new
  <2>5. new.id = next /\ new.used /\ new.source = source /\ new.channel = channel
    BY DEF new
  <2>6. /\ held' \in [Note!Slots -> Hold] /\ held'[l] = new
        /\ \A s \in Note!Slots : s # l => held'[s] = held[s]
    BY <2>1, <2>2, <2>3, <2>4
  <2>7. Note!Used' = Note!Used \cup {l}
    BY <2>1, <2>5, <2>6 DEF Note!Used
  <2>8. Table'
    <3>1. next' \in Nat /\ turns' \in Nat /\ next < next'
      BY <2>2, <2>3 DEF NoteInv, Table, around
    <3>2. ASSUME NEW s \in Note!Used' PROVE s = l \/ (s \in Note!Used /\ held'[s] = held[s] /\ held[s].id \in Nat /\ held[s].id < next)
      <4>1. s # l => s \in Note!Used /\ held'[s] = held[s]
        BY <2>6, <2>7, <3>2 DEF Note!Used
      <4>2. s \in Note!Used => held[s].id \in Nat
        BY UsedHeld DEF NoteInv, Table
      <4> QED BY <4>1, <4>2 DEF NoteInv, Table
    <3>3. \A s \in Note!Used' : held'[s].id < next'
      BY <2>2, <2>3, <2>5, <2>6, <3>1, <3>2
    <3>4. ASSUME NEW s \in Note!Used', NEW t \in Note!Used', held'[s].id = held'[t].id PROVE s = t
      BY <2>3, <2>5, <2>6, <3>2, <3>4 DEF NoteInv, Table
    <3> QED BY <2>6, <3>1, <3>3, <3>4 DEF Table
  <2>9. Named' = Named \cup {next}
    BY <2>1, <2>5, <2>6, <2>7 DEF Named, Note!Used
  <2>10. /\ DOMAIN voices' = DOMAIN voices \cup {next}
         /\ \A i \in DOMAIN voices : i # next => voices'[i] = voices[i]
         /\ voices'[next] = IF source = "host" /\ channel = Note!Member THEN bend ELSE 0
    BY <2>2
  <2>11. next \notin Named
    BY <2>3 DEF NoteInv, Table, Named
  <2>12. DOMAIN voices' \subseteq Named'
    BY <2>9, <2>10 DEF NoteInv
  <2>13. Note!NotesBend'
    <3> SUFFICES ASSUME ~reset, NEW s \in Note!Used', held'[s].source = "host", held'[s].channel = Note!Member,
                        held'[s].id \in DOMAIN voices'
                 PROVE  voices'[held'[s].id] = bend
      BY DEF Note!NotesBend
    <3>1. CASE s = l
      BY <2>5, <2>6, <2>10, <2>11, <3>1 DEF NoteInv
    <3>2. CASE s # l
      <4>1. s \in Note!Used /\ held'[s] = held[s] /\ held[s].id \in Named
        BY <2>6, <2>7, <3>2 DEF Note!Used, Named
      <4>2. held[s].id \in DOMAIN voices
        BY <2>10, <2>11, <4>1
      <4> QED BY <2>10, <2>11, <3>2, <4>1, <4>2 DEF NoteInv, Note!NotesBend
    <3> QED BY <3>1, <3>2
  <2>14. /\ toSend' \in Seq(Sent) /\ Len(toSend') = Len(toSend) + 1 /\ Len(toSend) \in Nat
         /\ toSend'[Len(toSend) + 1] = [on |-> TRUE, id |-> next]
         /\ \A k \in 1 .. Len(toSend) : toSend'[k] = toSend[k]
    <3>1. [on |-> TRUE, id |-> next] \in Sent
      BY <2>3, Zenon DEF Sent
    <3> QED BY <2>2, <2>3, <3>1, AppendProperties
  <2>15. ASSUME NEW k \in 1 .. Len(toSend'), toSend'[k].on
         PROVE  \/ toSend'[k].id \in DOMAIN voices'
                \/ \E j \in k + 1 .. Len(toSend') : toSend'[j].id = toSend'[k].id /\ ~toSend'[j].on
    <3>1. CASE k = Len(toSend) + 1
      BY <2>10, <2>14, <3>1
    <3>2. CASE k # Len(toSend) + 1
      <4>1. k \in 1 .. Len(toSend) /\ toSend'[k] = toSend[k]
        BY <2>14, <3>2
      <4>2. CASE toSend[k].id \in DOMAIN voices
        BY <2>10, <4>1, <4>2
      <4>3. ASSUME NEW j \in k + 1 .. Len(toSend), toSend[j].id = toSend[k].id, ~toSend[j].on
            PROVE  \E m \in k + 1 .. Len(toSend') : toSend'[m].id = toSend'[k].id /\ ~toSend'[m].on
        BY <2>14, <4>1, <4>3
      <4> QED BY <2>15, <4>1, <4>2, <4>3 DEF NoteInv
    <3> QED BY <3>1, <3>2
  <2>16. on \in Seq(Entries) /\ Len(on) = 1 /\ on[1].id = next /\ on[1].frame = now
    <3>1. Note!Entry(TRUE, next, now) \in Entries
      BY <2>3, Zenon DEF Note!Entry, Entries
    <3> QED BY <3>1 DEF Note!Entry
  <2> HIDE DEF on
  <2>17. /\ Sorted(outbox \o on, now)
         /\ Note!Kept(outbox, on) \in Seq(Entries) /\ Sorted(Note!Kept(outbox, on), now)
         /\ ~Note!Spills(outbox, on) => Note!Kept(outbox, on) = outbox \o on
    <3>1. \A k, j \in 1 .. Len(on) : now <= on[k].frame /\ on[k].frame <= now /\ on[k].frame = on[j].frame
      BY <2>3, <2>16
    <3>2. now \in Nat /\ now <= now /\ outbox \in Seq(Entries) /\ on \in Seq(Entries) /\ Sorted(outbox, now)
      BY <2>3, <2>16
    <3> QED BY <3>1, <3>2, KeptSorted, Zenon
  <2>18. outbox' \in Seq(Entries) /\ now' = now /\ Sorted(outbox', now)
    BY <2>2, <2>3, <2>17 DEF Note!Pass, around
  <2>19. ASSUME ~spilled', NEW i \in Heard'
         PROVE  (passing' => i \in Named') /\ (~passing' => i \in DOMAIN voices' \/ SendsOff(i)')
    <3>1. ~spilled /\ (passing => outbox' = outbox \o on) /\ (~passing => outbox' = outbox) /\ passing' = passing
      BY <2>2, <2>17, <2>19 DEF Note!Pass, around
    <3>2. i = next \/ i \in Heard
      <4> DEFINE before == IF allOff THEN {} ELSE sounding
      <4>1. Heard' = Note!Played(outbox', before) /\ Heard = Note!Played(outbox, before)
        BY Zenon DEF Heard, around, Note!Played, Note!InTime
      <4> HIDE DEF before
      <4>2. CASE passing
        <5>1. i \in Note!Played(outbox \o on, before)
          BY <2>19, <3>1, <4>1, <4>2
        <5> QED BY <2>3, <2>16, <2>17, <4>1, <5>1, PlayedMore
      <4> QED BY <2>19, <3>1, <4>1, <4>2
    <3>3. SendsOff(i) => SendsOff(i)'
      BY <2>14 DEF SendsOff
    <3>4. CASE i = next
      BY <2>9, <2>10, <3>4
    <3>5. CASE i \in Heard
      BY <2>9, <2>10, <3>1, <3>3, <3>5 DEF NoteInv
    <3> QED BY <3>2, <3>4, <3>5
  <2>20. passing' = wasBypassed' /\ (skipped' => wasBypassed') /\ now' \in 0 .. Frames \cup {None} /\ now' # None
    BY DEF NoteInv, around
  <2> QED BY <2>8, <2>12, <2>13, <2>14, <2>15, <2>18, <2>19, <2>20 DEF NoteInv
<1> QED BY <1>1, <1>2

\* Notes that stop free their slots: the processor is told of those it has, further down hears of all.
LEMMA NotesStop ==
  ASSUME NoteInv, now # None, NEW S \in SUBSET Note!Used, Note!Stop(S, now), UNCHANGED around,
         inbox' \in Seq(Asked), bend' = bend, reset' = reset
  PROVE  NoteInv'
<1> DEFINE ids == {held[s].id : s \in S}
           off(t) == [k \in DOMAIN t |-> [on |-> FALSE, id |-> held[t[k]].id]]
           out(t) == [k \in DOMAIN t |-> Note!Entry(FALSE, held[t[k]].id, now)]
           heard == {s \in S : held[s].id \in DOMAIN voices}
<1>1. /\ held \in [Note!Slots -> Hold] /\ now \in Nat
      /\ outbox \in Seq(Entries) /\ toSend \in Seq(Sent) /\ Sorted(outbox, now)
  BY NotesCounted DEF NoteInv, Table
<1>2. /\ held' = Note!Released(S) /\ next' = next
      /\ voices' = [i \in DOMAIN voices \ ids |-> voices[i]]
  BY DEF Note!Stop
<1>3. PICK t \in Note!InOrder(heard) : toSend' = toSend \o off(t)
  BY DEF Note!Stop
<1>4. PICK u \in Note!InOrder(S) : Note!Pass(out(u))
  BY DEF Note!Stop
<1>5. S \in SUBSET Note!Slots /\ heard \in SUBSET Note!Slots
  BY DEF Note!Used
<1>6. \A s \in S : held[s].id \in Nat
  BY <1>1, UsedHeld
<1>7. /\ t \in Seq(heard) /\ Len(t) \in Nat /\ DOMAIN t = 1 .. Len(t) /\ \A s \in heard : \E k \in 1 .. Len(t) : t[k] = s
      /\ \A k \in 1 .. Len(t) : t[k] \in heard
  <2> DEFINE T == heard
  <2> HIDE DEF T
  <2>1. t \in Note!InOrder(T) /\ T \in SUBSET Note!Slots
    BY <1>3, <1>5 DEF T
  <2>2. t \in Seq(T) /\ DOMAIN t = 1 .. Len(t) /\ \A s \in T : \E k \in 1 .. Len(t) : t[k] = s
    BY <2>1, InOrderIsAll
  <2>3. Len(t) \in Nat /\ \A k \in 1 .. Len(t) : t[k] \in T
    BY <2>2
  <2> QED BY <2>2, <2>3 DEF T
<1>8. /\ u \in Seq(S) /\ Len(u) \in Nat /\ DOMAIN u = 1 .. Len(u) /\ \A s \in S : \E k \in 1 .. Len(u) : u[k] = s
      /\ \A k \in 1 .. Len(u) : u[k] \in S
  BY <1>5, InOrderIsAll
<1>9. /\ off(t) \in Seq(Sent) /\ Len(off(t)) = Len(t)
      /\ \A k \in 1 .. Len(t) : ~off(t)[k].on /\ off(t)[k].id = held[t[k]].id
  <2>1. ASSUME NEW k \in 1 .. Len(t) PROVE [on |-> FALSE, id |-> held[t[k]].id] \in Sent
    <3>1. held[t[k]].id \in Nat
      BY <1>6, <1>7
    <3> QED BY <3>1, Zenon DEF Sent
  <2>2. off(t) \in [1 .. Len(t) -> Sent]
    BY <1>7, <2>1
  <2> QED BY <1>7, <2>2
<1>10. /\ out(u) \in Seq(Entries) /\ Len(out(u)) = Len(u)
       /\ \A k \in 1 .. Len(u) : ~out(u)[k].on /\ out(u)[k].id = held[u[k]].id /\ out(u)[k].frame = now
  <2>1. ASSUME NEW k \in 1 .. Len(u) PROVE Note!Entry(FALSE, held[u[k]].id, now) \in Entries
    <3>1. held[u[k]].id \in Nat
      BY <1>6, <1>8
    <3> QED BY <1>1, <3>1, Zenon DEF Entries, Note!Entry
  <2>2. out(u) \in [1 .. Len(u) -> Entries]
    BY <1>8, <2>1
  <2> QED BY <1>8, <2>2 DEF Note!Entry
<1>11. /\ held' \in [Note!Slots -> Hold] /\ Note!Used' = Note!Used \ S
       /\ \A s \in Note!Used' : held'[s] = held[s]
  <2>1. /\ held' = [s \in Note!Slots |-> IF s \in S THEN Note!Free ELSE held[s]]
        /\ Note!Free \in Hold /\ ~Note!Free.used
    BY <1>2 DEF Note!Released, Hold, Note!Free
  <2> QED BY <1>1, <2>1 DEF Note!Used
<1>12. Table'
  BY <1>2, <1>11 DEF NoteInv, Table, around
<1>13. \A i \in Named : i \notin ids => i \in Named'
  BY <1>11 DEF Named
<1> HIDE DEF ids, off, out
<1>14. DOMAIN voices' = DOMAIN voices \ ids /\ \A i \in DOMAIN voices' : voices'[i] = voices[i]
  BY <1>2
<1>15. DOMAIN voices' \subseteq Named'
  BY <1>13, <1>14 DEF NoteInv
<1>16. Note!NotesBend'
  BY <1>11, <1>14 DEF NoteInv, Note!NotesBend
<1>17. /\ toSend' \in Seq(Sent) /\ Len(toSend') = Len(toSend) + Len(t) /\ Len(toSend) \in Nat
       /\ \A k \in 1 .. Len(toSend) : toSend'[k] = toSend[k]
       /\ \A k \in 1 .. Len(t) : toSend'[Len(toSend) + k] = off(t)[k]
  <2> DEFINE more == off(t)
  <2> HIDE DEF more
  <2>1. toSend' = toSend \o more /\ more \in Seq(Sent) /\ Len(more) = Len(t)
    BY <1>3, <1>9 DEF more
  <2>2. /\ toSend \o more \in Seq(Sent) /\ Len(toSend \o more) = Len(toSend) + Len(more)
        /\ \A k \in 1 .. Len(toSend) : (toSend \o more)[k] = toSend[k]
        /\ \A k \in 1 .. Len(more) : (toSend \o more)[Len(toSend) + k] = more[k]
    <3>1. /\ toSend \o more \in Seq(Sent) /\ Len(toSend \o more) = Len(toSend) + Len(more)
          /\ \A k \in 1 .. Len(toSend) + Len(more) :
                 (toSend \o more)[k] = IF k <= Len(toSend) THEN toSend[k] ELSE more[k - Len(toSend)]
      BY <1>1, <2>1, ConcatProperties
    <3>2. Len(toSend) \in Nat /\ Len(more) \in Nat
      BY <1>1, <2>1
    <3> QED BY <3>1, <3>2
  <2> QED BY <1>1, <2>1, <2>2 DEF more
<1>18. ASSUME NEW i \in DOMAIN voices, i \notin DOMAIN voices'
       PROVE  \E j \in Len(toSend) + 1 .. Len(toSend') : toSend'[j].id = i /\ ~toSend'[j].on
  <2>1. PICK s \in heard : held[s].id = i
    BY <1>14, <1>18 DEF ids
  <2>2. PICK k \in 1 .. Len(t) : t[k] = s
    BY <1>7
  <2>3. toSend'[Len(toSend) + k].id = i /\ ~toSend'[Len(toSend) + k].on
    BY <1>9, <1>17, <2>1, <2>2
  <2>4. Len(toSend) + k \in Len(toSend) + 1 .. Len(toSend')
    BY <1>7, <1>17
  <2> QED BY <2>3, <2>4
<1>19. ASSUME NEW k \in 1 .. Len(toSend'), toSend'[k].on
       PROVE  \/ toSend'[k].id \in DOMAIN voices'
              \/ \E j \in k + 1 .. Len(toSend') : toSend'[j].id = toSend'[k].id /\ ~toSend'[j].on
  <2>1. k \in 1 .. Len(toSend) /\ toSend'[k] = toSend[k]
    <3>1. CASE k > Len(toSend)
      <4>1. k - Len(toSend) \in 1 .. Len(t) /\ k = Len(toSend) + (k - Len(toSend))
        BY <1>7, <1>17, <3>1
      <4>2. ~toSend'[k].on
        BY <1>9, <1>17, <4>1
      <4> QED BY <1>19, <4>2
    <3> QED BY <1>17, <3>1
  <2>2. CASE toSend[k].id \in DOMAIN voices
    BY <1>17, <1>18, <2>1, <2>2
  <2>3. ASSUME NEW j \in k + 1 .. Len(toSend), toSend[j].id = toSend[k].id, ~toSend[j].on
        PROVE  \E m \in k + 1 .. Len(toSend') : toSend'[m].id = toSend'[k].id /\ ~toSend'[m].on
    BY <1>7, <1>17, <2>1, <2>3
  <2> QED BY <1>19, <2>1, <2>2, <2>3 DEF NoteInv
<1>20. /\ Sorted(outbox \o out(u), now)
       /\ Note!Kept(outbox, out(u)) \in Seq(Entries) /\ Sorted(Note!Kept(outbox, out(u)), now)
       /\ ~Note!Spills(outbox, out(u)) => Note!Kept(outbox, out(u)) = outbox \o out(u)
  <2>1. \A k, j \in 1 .. Len(out(u)) : /\ now <= out(u)[k].frame /\ out(u)[k].frame <= now
                                      /\ out(u)[k].frame = out(u)[j].frame
    BY <1>1, <1>10
  <2>2. now <= now
    BY <1>1
  <2> QED BY <1>1, <1>10, <2>1, <2>2, KeptSorted
<1>21. outbox' \in Seq(Entries) /\ now' = now /\ Sorted(outbox', now)
  BY <1>1, <1>4, <1>20 DEF Note!Pass, around
<1>22. ASSUME ~spilled', NEW i \in Heard'
       PROVE  (passing' => i \in Named') /\ (~passing' => i \in DOMAIN voices' \/ SendsOff(i)')
  <2>1. /\ ~spilled /\ (passing => outbox' = outbox \o out(u)) /\ (~passing => outbox' = outbox)
        /\ passing' = passing
    BY <1>4, <1>20, <1>22 DEF Note!Pass, around
  <2> DEFINE before == IF allOff THEN {} ELSE sounding
  <2>2. Heard' = Note!Played(outbox', before) /\ Heard = Note!Played(outbox, before)
    BY Zenon DEF Heard, around, Note!Played, Note!InTime
  <2> HIDE DEF before
  <2>3. CASE passing
    <3>1. i \in Note!Played(outbox \o out(u), before)
      BY <1>22, <2>1, <2>2, <2>3
    <3>2. /\ \A k \in 1 .. Len(u) : out(u)[k].id # i
          /\ i \in Heard
      <4> DEFINE more == out(u)
      <4> HIDE DEF more
      <4>1. /\ more \in Seq(Entries) /\ Sorted(outbox \o more, now) /\ i \in Note!Played(outbox \o more, before)
            /\ Len(more) = Len(u) /\ \A k \in 1 .. Len(more) : ~more[k].on
        BY <1>10, <1>20, <3>1 DEF more
      <4>2. \/ \E k \in 1 .. Len(more) : more[k].id = i /\ more[k].on /\ \A j \in k + 1 .. Len(more) : more[j].id # i
            \/ (\A k \in 1 .. Len(more) : more[k].id # i) /\ i \in Note!Played(outbox, before)
        BY <1>1, <4>1, PlayedMore
      <4> QED BY <2>2, <4>1, <4>2 DEF more
    <3>3. i \notin ids
      <4>1. \A s \in S : held[s].id # i
        BY <1>8, <1>10, <3>2
      <4> QED BY <4>1 DEF ids
    <3> QED BY <1>13, <2>1, <2>3, <3>2, <3>3 DEF NoteInv
  <2>4. CASE ~passing
    <3>1. i \in DOMAIN voices \/ SendsOff(i)
      BY <1>22, <2>1, <2>2, <2>4 DEF NoteInv
    <3>2. SendsOff(i) => SendsOff(i)'
      <4>1. \A k \in 1 .. Len(toSend) : k \in 1 .. Len(toSend') /\ toSend'[k] = toSend[k]
        <5>1. Len(t) \in Nat
          BY <1>7
        <5> HIDE DEF heard
        <5> QED BY <1>17, <5>1
      <4> QED BY <4>1 DEF SendsOff
    <3>3. i \in DOMAIN voices /\ i \notin DOMAIN voices' => SendsOff(i)'
      BY <1>17, <1>18 DEF SendsOff
    <3> QED BY <2>1, <2>4, <3>1, <3>2, <3>3
  <2> QED BY <2>3, <2>4
<1>23. passing' = wasBypassed' /\ (skipped' => wasBypassed') /\ now' \in 0 .. Frames \cup {None} /\ now' # None
  BY DEF NoteInv, around
<1> QED BY <1>12, <1>15, <1>16, <1>17, <1>19, <1>21, <1>22, <1>23 DEF NoteInv

\* An event of a source means notes of that source, held.
LEMMA CalledIsTheirs ==
  ASSUME NEW source, NEW local, NEW channel, NEW s \in Note!Called(source, local, channel)
  PROVE  s \in Note!Used /\ held[s].source = source
<1> DEFINE named == {t \in Note!Used : local >= 0 /\ held[t].source = source /\ held[t].local = local}
<1>1. CASE named # {}
  <2>1. named \in SUBSET Note!Slots
    BY DEF Note!Used
  <2>2. Note!Called(source, local, channel) = {Note!Lowest(named)}
    BY <1>1 DEF Note!Called
  <2>3. Note!Lowest(named) \in named
    BY <1>1, <2>1, LowestIsThere
  <2> QED BY <2>2, <2>3
<1>2. CASE named = {}
  BY <1>2, Zenon DEF Note!Called
<1> QED BY <1>1, <1>2

\* A break of the stream leaves no note held, and none to end.
LEMMA NotesForgotten ==
  ASSUME NoteInv, held' = Note!Forgotten, voices' = <<>>, toSend' = <<>>, allOff', turns' = turns + 1, next' = next,
         inbox' = inbox, outbox' = <<>>
  PROVE  /\ Table' /\ inbox' \in Seq(Asked) /\ toSend' \in Seq(Sent) /\ Len(toSend') = 0
         /\ DOMAIN voices' = {} /\ Note!NotesBend' /\ Heard' = {}
<1>1. held' \in [Note!Slots -> Hold] /\ Note!Used' = {}
  BY DEF Note!Forgotten, Hold, Note!Free, Note!Used
<1>2. DOMAIN voices' = {} /\ Heard' = {} /\ toSend' \in Seq(Sent) /\ Len(toSend') = 0
  BY DEF Heard, Note!Played
<1>3. turns' \in Nat /\ next' \in Nat /\ inbox' \in Seq(Asked)
  BY DEF NoteInv, Table
<1> QED BY <1>1, <1>2, <1>3 DEF Table, Note!NotesBend

\* Every step keeps it: the top of a block ...
LEMMA NotesBegin ==
  ASSUME NoteInv, Note!Begin
  PROVE  NoteInv'
<1>1. PICK stream \in {FALSE, turns < MaxTurns} :
         /\ turns' = IF stream THEN turns + 1 ELSE turns
         /\ skipped' = IF stream THEN FALSE ELSE skipping'
         /\ held' = IF stream THEN Note!Forgotten ELSE held
         /\ bend' = IF stream THEN 0 ELSE bend
         /\ reset' = IF stream THEN FALSE ELSE reset
         /\ allOff' = (allOff \/ stream \/ bypassed # wasBypassed)
         /\ IF stream \/ (skipped /\ ~skipping') THEN voices' = <<>> /\ toSend' = <<>> ELSE UNCHANGED Note!player
  BY DEF Note!Begin
<1>2. /\ now = None /\ now' = 0 /\ outbox = <<>> /\ outbox' = <<>> /\ inbox' = inbox /\ next' = next
      /\ skipping' \in {FALSE, bypassed} /\ wasBypassed' = bypassed /\ passing' = bypassed
      /\ sounding' = sounding /\ spilled' = spilled
  BY DEF Note!Begin, NoteInv
<1>3. now' \in 0 .. Frames /\ now' # None /\ outbox' \in Seq(Entries) /\ Sorted(outbox', now')
  BY <1>2, NotesCounted DEF Sorted
<1>4. skipped' => wasBypassed'
  <2>1. skipped' => skipping'
    BY <1>1
  <2>2. skipping' => bypassed
    BY <1>2
  <2> QED BY <1>2, <2>1, <2>2
<1>5. CASE stream
  <2>1. held' = Note!Forgotten /\ voices' = <<>> /\ toSend' = <<>> /\ allOff' /\ turns' = turns + 1
    BY <1>1, <1>5
  <2> QED BY <1>2, <1>3, <1>4, <2>1, NotesForgotten DEF NoteInv
<1>6. CASE ~stream
  <2>1. held' = held /\ turns' = turns /\ bend' = bend /\ reset' = reset /\ next' = next
    BY <1>1, <1>2, <1>6
  <2>2. Table' /\ Named' = Named
    BY <2>1 DEF NoteInv, Table, Named, Note!Used
  <2>3. allOff' => Heard' = {}
    BY <1>2 DEF Heard, Note!Played
  <2>4. ~allOff' => bypassed = wasBypassed /\ ~allOff /\ Heard' = Heard
    BY <1>1, <1>2 DEF Heard, Note!Played
  <2>5. CASE skipped /\ ~skipping'
    <3>1. voices' = <<>> /\ toSend' = <<>> /\ DOMAIN voices' = {} /\ toSend' \in Seq(Sent) /\ Len(toSend') = 0
      BY <1>1, <1>6, <2>5
    <3>2. ~allOff' => passing'
      BY <1>2, <2>4, <2>5 DEF NoteInv
    <3>3. Note!NotesBend'
      BY <3>1 DEF Note!NotesBend
    <3>4. \A i \in Heard' : ~spilled' => i \in Named'  /\ passing'
      BY <1>2, <2>2, <2>3, <2>4, <3>2 DEF NoteInv
    <3> QED BY <1>2, <1>3, <1>4, <2>2, <3>1, <3>3, <3>4 DEF NoteInv
  <2>6. CASE ~(skipped /\ ~skipping')
    <3>1. voices' = voices /\ toSend' = toSend
      BY <1>1, <1>6, <2>6 DEF Note!player
    <3>2. Note!NotesBend'
      BY <2>1, <3>1 DEF NoteInv, Note!NotesBend, Note!Used
    <3>3. ASSUME ~spilled', NEW i \in Heard' PROVE (passing' => i \in Named') /\ (~passing' => i \in DOMAIN voices' \/ SendsOff(i)')
      BY <1>2, <2>2, <2>3, <2>4, <3>1, <3>3 DEF NoteInv, SendsOff
    <3> QED BY <1>2, <1>3, <1>4, <2>2, <3>1, <3>2, <3>3 DEF NoteInv
  <2> QED BY <2>5, <2>6
<1> QED BY <1>5, <1>6

\* ... what the editor sent before it, and the host's notes in it ...
LEMMA NotesNamed ==
  ASSUME NoteInv, Note!DrainEditor \/ Note!HostNote \/ Note!HostWildcard
  PROVE  NoteInv'
<1>1. CASE Note!DrainEditor
  <2>1. PICK e \in {Head(inbox)} :
          IF e.on THEN Note!NoteOn("editor", e.local, e.channel, 0) ELSE Note!NoteOff("editor", e.local, e.channel, 0)
    BY <1>1 DEF Note!DrainEditor
  <2>2. /\ now = 0 /\ UNCHANGED around /\ bend' = bend /\ reset' = reset
        /\ inbox # <<>> /\ inbox' = Tail(inbox) /\ inbox \in Seq(Asked)
    BY <1>1 DEF Note!DrainEditor, Note!output, Note!counts, around, NoteInv
  <2>3. e.local \in {-1, 7} /\ e.channel \in {0, 1} /\ inbox' \in Seq(Asked)
    <3>1. Head(inbox) \in Asked /\ Tail(inbox) \in Seq(Asked)
      BY <2>2
    <3> QED BY <2>2, <3>1 DEF Asked
  <2>4. now # None
    BY <2>2, NotesCounted
  <2>5. CASE e.on
    BY <2>1, <2>2, <2>3, <2>4, <2>5, NotesStart
  <2>6. CASE ~e.on
    <3>1. Note!Stop(Note!Called("editor", e.local, e.channel), now)
      BY <2>1, <2>2, <2>6 DEF Note!NoteOff
    <3>2. Note!Called("editor", e.local, e.channel) \in SUBSET Note!Used
      BY CalledIsTheirs
    <3> QED BY <2>2, <2>3, <2>4, <3>1, <3>2, NotesStop
  <2> QED BY <2>5, <2>6
<1>2. ASSUME Note!HostNote \/ Note!HostWildcard
      PROVE  now # None /\ UNCHANGED around /\ bend' = bend /\ reset' = reset /\ inbox' \in Seq(Asked)
  BY <1>2 DEF Note!HostNote, Note!HostWildcard, Note!Playing, Note!output, around, NoteInv
<1>3. CASE Note!HostNote
  <2>1. PICK on \in BOOLEAN, local \in {-1, 7}, channel \in {0, 1} :
          IF on THEN Note!NoteOn("host", local, channel, now) ELSE Note!NoteOff("host", local, channel, now)
    BY <1>3 DEF Note!HostNote, Note!Channels
  <2>2. CASE on
    BY <1>2, <1>3, <2>1, <2>2, NotesStart
  <2>3. CASE ~on
    <3>1. Note!Stop(Note!Called("host", local, channel), now)
      BY <2>1, <2>3 DEF Note!NoteOff
    <3>2. Note!Called("host", local, channel) \in SUBSET Note!Used
      BY CalledIsTheirs
    <3> QED BY <1>2, <1>3, <3>1, <3>2, NotesStop
  <2> QED BY <2>2, <2>3
<1>4. CASE Note!HostWildcard
  <2>1. PICK S \in SUBSET Note!Used : Note!Stop(S, now)
    BY <1>4 DEF Note!HostWildcard
  <2> QED BY <1>2, <1>4, <2>1, NotesStop
<1> QED BY <1>1, <1>3, <1>4

\* ... its bends, a slice, the end ...
LEMMA NotesBent ==
  ASSUME NoteInv, Note!HostBends
  PROVE  NoteInv'
<1>1. PICK b \in Bends :
        /\ bend' = b
        /\ voices' = [i \in DOMAIN voices |->
                        IF \E s \in Note!Used : held[s].id = i /\ held[s].source = "host" /\ held[s].channel = Note!Member
                        THEN b ELSE voices[i]]
  BY DEF Note!HostBends
<1>2. /\ UNCHANGED <<held, next, inbox, outbox, toSend, spilled>> /\ UNCHANGED around
  BY DEF Note!HostBends, Note!names, Note!output, around
<1>3. DOMAIN voices' = DOMAIN voices
  BY <1>1
<1>4. Note!NotesBend'
  BY <1>1, <1>2 DEF Note!NotesBend, Note!Used
<1>5. Table' /\ Named' = Named /\ Heard' = Heard
  BY <1>2 DEF NoteInv, Table, Named, Heard, Note!Used, around
<1>6. \A i : SendsOff(i)' <=> SendsOff(i)
  BY <1>2 DEF SendsOff
<1> QED BY <1>2, <1>3, <1>4, <1>5, <1>6 DEF NoteInv, Sorted, around

\* A slice is rendered: what the processor sends follows what passed it ...
LEMMA NotesSlice ==
  ASSUME NoteInv, Note!Slice
  PROVE  NoteInv'
<1>1. PICK n \in 1 .. (Frames - now), at \in {0, Frames} :
        /\ now' = now + n
        /\ \E entries \in {[k \in DOMAIN toSend |->
                              Note!Entry(toSend[k].on, toSend[k].id, now + (IF at < n THEN at ELSE n - 1))]} :
             /\ outbox' = IF wasBypassed THEN outbox ELSE Note!Kept(outbox, entries)
             /\ spilled' = (spilled \/ (~wasBypassed /\ Note!Spills(outbox, entries)))
  BY DEF Note!Slice
<1> DEFINE f == now + (IF at < n THEN at ELSE n - 1)
           sent == [k \in DOMAIN toSend |-> Note!Entry(toSend[k].on, toSend[k].id, f)]
<1>2. /\ outbox' = (IF wasBypassed THEN outbox ELSE Note!Kept(outbox, sent))
      /\ spilled' = (spilled \/ (~wasBypassed /\ Note!Spills(outbox, sent)))
  BY <1>1
<1>3. /\ now # None /\ toSend' = <<>>
      /\ UNCHANGED <<held, next, inbox, bend, voices, reset, turns, passing, wasBypassed, skipped, allOff, sounding>>
  BY DEF Note!Slice, Note!names, Note!output, Note!counts
<1>4. /\ now \in Nat /\ outbox \in Seq(Entries) /\ toSend \in Seq(Sent) /\ Sorted(outbox, now)
      /\ DOMAIN toSend = 1 .. Len(toSend) /\ Len(toSend) \in Nat
  BY <1>3, NotesCounted DEF NoteInv
<1>5. f \in Nat /\ now <= f /\ f <= now' /\ now' \in 0 .. Frames /\ now' # None
  BY <1>1, <1>4, NotesCounted
<1>6. sent \in Seq(Entries) /\ Len(sent) = Len(toSend)
      /\ \A k \in 1 .. Len(toSend) : sent[k].on = toSend[k].on /\ sent[k].id = toSend[k].id /\ sent[k].frame = f
  <2>1. ASSUME NEW k \in 1 .. Len(toSend) PROVE Note!Entry(toSend[k].on, toSend[k].id, f) \in Entries
    <3>1. toSend[k] \in Sent
      BY <1>4
    <3>2. toSend[k].on \in BOOLEAN /\ toSend[k].id \in Nat
      BY <3>1, Zenon DEF Sent
    <3> HIDE DEF f
    <3> QED BY <1>5, <3>2, Zenon DEF Entries, Note!Entry
  <2>2. sent \in [1 .. Len(toSend) -> Entries]
    BY <1>4, <2>1
  <2> QED BY <1>4, <2>2 DEF Note!Entry
<1> HIDE DEF sent, f
<1>7. /\ Sorted(outbox \o sent, now')
      /\ Note!Kept(outbox, sent) \in Seq(Entries) /\ Sorted(Note!Kept(outbox, sent), now')
      /\ ~Note!Spills(outbox, sent) => Note!Kept(outbox, sent) = outbox \o sent
  <2>1. \A k, j \in 1 .. Len(sent) : now <= sent[k].frame /\ sent[k].frame <= now' /\ sent[k].frame = sent[j].frame
    BY <1>5, <1>6
  <2>2. now' \in Nat /\ now <= now'
    BY <1>4, <1>5
  <2> QED BY <1>4, <1>6, <2>1, <2>2, KeptSorted
<1>8. Sorted(outbox, now')
  <2>1. ASSUME NEW k \in 1 .. Len(outbox) PROVE outbox[k].frame \in Nat
    <3>1. outbox[k] \in Entries
      BY <1>4
    <3> QED BY <3>1 DEF Entries
  <2>2. now \in Nat /\ now' \in Nat /\ now <= now'
    BY <1>4, <1>5
  <2> QED BY <1>4, <2>1, <2>2 DEF Sorted
<1>9. outbox' \in Seq(Entries) /\ Sorted(outbox', now')
  BY <1>2, <1>4, <1>7, <1>8
<1>10. Table' /\ Named' = Named /\ Note!NotesBend' /\ DOMAIN voices' \subseteq Named'
  BY <1>3 DEF NoteInv, Table, Named, Note!Used, Note!NotesBend
<1>11. toSend' \in Seq(Sent) /\ Len(toSend') = 0
  BY <1>3
<1>12. ASSUME ~spilled', NEW i \in Heard' PROVE (passing' => i \in Named') /\ (~passing' => i \in DOMAIN voices')
  <2> DEFINE before == IF allOff THEN {} ELSE sounding
  <2>1. Heard' = Note!Played(outbox', before) /\ Heard = Note!Played(outbox, before)
    BY <1>3, Zenon DEF Heard, Note!Played, Note!InTime
  <2> HIDE DEF before
  <2>2. passing' = passing /\ passing = wasBypassed /\ ~spilled
    BY <1>2, <1>3, <1>12 DEF NoteInv
  <2>3. CASE passing
    BY <1>2, <1>10, <1>12, <2>1, <2>2, <2>3 DEF NoteInv
  <2>4. CASE ~passing
    <3>1. i \in Note!Played(outbox \o sent, before)
      BY <1>2, <1>7, <1>12, <2>1, <2>2, <2>4
    <3>2. \/ \E k \in 1 .. Len(sent) : sent[k].id = i /\ sent[k].on /\ \A j \in k + 1 .. Len(sent) : sent[j].id # i
          \/ (\A k \in 1 .. Len(sent) : sent[k].id # i) /\ i \in Note!Played(outbox, before)
      BY <1>4, <1>6, <1>7, <3>1, PlayedMore
    <3>3. ASSUME NEW k \in 1 .. Len(toSend), toSend[k].id = i, toSend[k].on, \A j \in k + 1 .. Len(toSend) : toSend[j].id # i
          PROVE  i \in DOMAIN voices
      BY <3>3 DEF NoteInv
    <3>4. ASSUME \A k \in 1 .. Len(toSend) : toSend[k].id # i, i \in Heard PROVE i \in DOMAIN voices
      BY <2>2, <2>4, <3>4 DEF NoteInv, SendsOff
    <3>5. \/ \E k \in 1 .. Len(toSend) : toSend[k].id = i /\ toSend[k].on /\ \A j \in k + 1 .. Len(toSend) : toSend[j].id # i
          \/ (\A k \in 1 .. Len(toSend) : toSend[k].id # i) /\ i \in Heard
      <4>1. ASSUME NEW k \in 1 .. Len(sent), sent[k].id = i, sent[k].on, \A j \in k + 1 .. Len(sent) : sent[j].id # i
            PROVE  \E m \in 1 .. Len(toSend) : toSend[m].id = i /\ toSend[m].on /\ \A j \in m + 1 .. Len(toSend) : toSend[j].id # i
        <5>1. k \in 1 .. Len(toSend) /\ toSend[k].id = i /\ toSend[k].on
          BY <1>6, <4>1
        <5>2. ASSUME NEW j \in k + 1 .. Len(toSend) PROVE toSend[j].id # i
          BY <1>4, <1>6, <4>1, <5>1
        <5> QED BY <5>1, <5>2
      <4>2. (\A k \in 1 .. Len(sent) : sent[k].id # i) => \A k \in 1 .. Len(toSend) : toSend[k].id # i
        BY <1>6
      <4> QED BY <2>1, <3>2, <4>1, <4>2
    <3>6. i \in DOMAIN voices
      BY <3>3, <3>4, <3>5
    <3> QED BY <1>3, <2>2, <2>4, <3>6
  <2> QED BY <2>3, <2>4
<1>13. inbox' \in Seq(Asked) /\ passing' = wasBypassed' /\ (skipped' => wasBypassed')
  BY <1>3 DEF NoteInv
<1> QED BY <1>5, <1>9, <1>10, <1>11, <1>12, <1>13 DEF NoteInv

\* ... what was kept goes out at the end of the block ...
LEMMA NotesSent ==
  ASSUME NoteInv, Note!SendNotes
  PROVE  NoteInv'
<1>1. /\ sounding' = Heard /\ ~allOff' /\ outbox' = <<>> /\ now' = None
      /\ UNCHANGED <<held, next, inbox, bend, voices, toSend, reset, turns, passing, wasBypassed, skipped, spilled>>
  BY DEF Note!SendNotes, Note!names, Note!player, Note!counts, Heard
<1>2. Heard' = Heard
  BY <1>1 DEF Heard, Note!Played
<1>3. \A i : SendsOff(i)' <=> SendsOff(i)
  BY <1>1 DEF SendsOff
<1>4. Table' /\ Named' = Named /\ Note!NotesBend'
  BY <1>1 DEF NoteInv, Table, Named, Note!Used, Note!NotesBend
<1>5. outbox' \in Seq(Entries) /\ inbox' \in Seq(Asked) /\ toSend' \in Seq(Sent)
  BY <1>1 DEF NoteInv
<1>6. (~spilled)' => \A i \in Heard' : /\ passing' => i \in Named'
                                       /\ ~passing' => i \in DOMAIN voices' \/ SendsOff(i)'
  BY <1>1, <1>2, <1>3, <1>4 DEF NoteInv
<1> QED BY <1>1, <1>4, <1>5, <1>6 DEF NoteInv

\* ... and what happens between blocks.
LEMMA NotesBetween ==
  ASSUME NoteInv, Note!EditorPlays \/ Note!HostTurnsBypass \/ Note!Deactivate \/ Note!HostResets
  PROVE  NoteInv'
<1>1. CASE Note!EditorPlays
  <2>1. PICK on \in BOOLEAN, local \in {-1, 7}, channel \in {0, 1} :
          inbox' = IF Len(inbox) < InboxRoom
                   THEN Append(inbox, [on |-> on, local |-> local, channel |-> channel]) ELSE inbox
    BY <1>1 DEF Note!EditorPlays, Note!Channels
  <2>2. [on |-> on, local |-> local, channel |-> channel] \in Asked
    BY Zenon DEF Asked
  <2>3. inbox' \in Seq(Asked)
    BY <2>1, <2>2, AppendProperties DEF NoteInv
  <2>4. /\ UNCHANGED <<held, next, outbox, toSend, now, voices, bend, reset, passing, wasBypassed, skipped, spilled,
                       allOff, sounding, turns>>
    BY <1>1 DEF Note!EditorPlays, Note!names, Note!player, Note!output
  <2> QED BY <2>3, <2>4 DEF NoteInv, Table, Named, Heard, Sorted, SendsOff, Note!NotesBend, Note!Used
<1>2. CASE Note!HostTurnsBypass
  <2>1. turns' = turns + 1
        /\ UNCHANGED <<held, next, inbox, outbox, toSend, now, voices, bend, reset, passing, wasBypassed, skipped, spilled,
                       allOff, sounding>>
    BY <1>2 DEF Note!HostTurnsBypass, Note!names, Note!player, Note!output
  <2> QED BY <2>1 DEF NoteInv, Table, Named, Heard, Sorted, SendsOff, Note!NotesBend, Note!Used
<1>3. CASE Note!Deactivate
  <2>1. /\ held' = Note!Forgotten /\ allOff' /\ voices' = <<>> /\ toSend' = <<>> /\ ~skipped' /\ turns' = turns + 1
        /\ now = None /\ UNCHANGED <<next, inbox, wasBypassed, passing, outbox, now>>
    BY <1>3 DEF Note!Deactivate
  <2> QED BY <2>1, NotesForgotten DEF NoteInv
<1>4. CASE Note!HostResets
  <2>1. reset' /\ UNCHANGED <<held, next, inbox, outbox, toSend, voices, spilled>> /\ UNCHANGED around
    BY <1>4 DEF Note!HostResets, Note!names, Note!player, Note!output, around
  <2> QED BY <2>1 DEF NoteInv, Table, Named, Heard, Sorted, SendsOff, Note!NotesBend, Note!Used, around
<1> QED BY <1>1, <1>2, <1>3, <1>4

\* Every step keeps the notes held, and those that sound to be ended.
LEMMA NotesInvariance == Note!Init /\ [][Note!Next]_(Note!nvars) => []NoteInv
<1>1. Note!Init => NoteInv
  <2> SUFFICES ASSUME Note!Init PROVE NoteInv
    OBVIOUS
  <2>1. /\ held = Note!Forgotten /\ next = 1 /\ inbox = <<>> /\ outbox = <<>> /\ toSend = <<>> /\ now = None
        /\ voices = <<>> /\ sounding = {} /\ passing = FALSE /\ wasBypassed = FALSE /\ skipped = FALSE /\ turns = 0
    BY DEF Note!Init, Note!Forgotten
  <2>2. held \in [Note!Slots -> Hold] /\ Note!Used = {}
    BY <2>1 DEF Note!Forgotten, Hold, Note!Free, Note!Used
  <2>3. Heard = {} /\ DOMAIN voices = {} /\ Len(toSend) = 0
    BY <2>1 DEF Heard, Note!Played
  <2>4. outbox \in Seq(Entries) /\ toSend \in Seq(Sent) /\ inbox \in Seq(Asked)
    BY <2>1
  <2>5. Table /\ Note!NotesBend
    BY <2>1, <2>2 DEF Table, Note!NotesBend
  <2>6. DOMAIN voices \subseteq Named /\ passing = wasBypassed /\ (skipped => wasBypassed)
        /\ now \in 0 .. Frames \cup {None} /\ IF now = None THEN outbox = <<>> ELSE Sorted(outbox, now)
    BY <2>1, <2>3
  <2>7. 1 .. Len(toSend) = {}
    BY <2>3
  <2> QED BY <2>3, <2>4, <2>5, <2>6, <2>7 DEF NoteInv
<1>2. NoteInv /\ [Note!Next]_(Note!nvars) => NoteInv'
  <2>1. NoteInv /\ Note!Next => NoteInv'
    BY NotesBegin, NotesNamed, NotesBent, NotesSlice, NotesSent, NotesBetween DEF Note!Next
  <2>2. NoteInv /\ UNCHANGED Note!nvars => NoteInv'
    BY NotesSame DEF Note!nvars, noted
  <2> QED BY <2>1, <2>2
<1> QED BY <1>1, <1>2, PTL

\* What the invariant says of what a reader asks.
LEMMA NotesCanEnd ==
  ASSUME NoteInv
  PROVE  Note!VoicesNamed /\ Note!NothingHangs /\ Note!NotesBend
<1>1. Note!VoicesNamed
  BY DEF NoteInv, Note!VoicesNamed, Named, Table
<1>2. ASSUME now = None, ~allOff, ~spilled, NEW i \in sounding
      PROVE  \/ i \in DOMAIN voices
             \/ wasBypassed /\ \E s \in Note!Used : held[s].id = i
             \/ \E k \in DOMAIN toSend : toSend[k] = [on |-> FALSE, id |-> i]
  <2>1. i \in Heard
    BY <1>2 DEF NoteInv, Heard, Note!Played
  <2>2. (passing => i \in Named) /\ (~passing => i \in DOMAIN voices \/ SendsOff(i)) /\ passing = wasBypassed
    BY <1>2, <2>1 DEF NoteInv
  <2>3. SendsOff(i) => \E k \in DOMAIN toSend : toSend[k] = [on |-> FALSE, id |-> i]
    <3> SUFFICES ASSUME NEW k \in 1 .. Len(toSend), toSend[k].id = i, ~toSend[k].on
                 PROVE  k \in DOMAIN toSend /\ toSend[k] = [on |-> FALSE, id |-> i]
      BY DEF SendsOff
    <3>1. toSend[k] \in Sent /\ k \in DOMAIN toSend
      BY DEF NoteInv
    <3>2. toSend[k].on = FALSE
      BY <3>1, Zenon DEF Sent
    <3> QED BY <3>1, <3>2 DEF Sent
  <2> QED BY <2>2, <2>3 DEF Named
<1>3. Note!NothingHangs
  BY <1>2, Zenon DEF Note!NothingHangs
<1> QED BY <1>1, <1>3 DEF NoteInv

\* A note ends by its own source's event, unless the stream broke.
LEMMA NotesApart ==
  ASSUME NoteInv, [Note!Next]_(Note!nvars)
  PROVE  Note!SourcesApart
<1> SUFFICES ASSUME NEW s \in Note!Used, held'[s] # held[s], turns' = turns
             PROVE  IF held[s].source = "host" THEN inbox' = inbox ELSE inbox # <<>> /\ inbox' = Tail(inbox)
  BY DEF Note!SourcesApart
<1>1. held \in [Note!Slots -> Hold] /\ held' # held /\ turns # turns + 1 /\ s \in Note!Slots
  BY DEF NoteInv, Table, Note!Used
<1>2. ASSUME NEW source, NEW local, NEW channel, NEW at, Note!NoteOn(source, local, channel, at)
      PROVE  FALSE
  <2>1. Note!Used # Note!Slots /\ Note!Mint(source, local, channel)
    BY <1>1, <1>2 DEF Note!NoteOn, Note!names
  <2>2. Note!Lowest(Note!Slots \ Note!Used) \in Note!Slots \ Note!Used
    <3>1. Note!Slots \ Note!Used \in SUBSET Note!Slots /\ Note!Slots \ Note!Used # {}
      BY <2>1 DEF Note!Used
    <3> QED BY <3>1, LowestIsThere
  <2>3. s # Note!Lowest(Note!Slots \ Note!Used)
    BY <2>2
  <2> QED BY <1>1, <2>1, <2>3 DEF Note!Mint
<1>3. ASSUME NEW S, NEW at, Note!Stop(S, at) PROVE s \in S
  BY <1>1, <1>3 DEF Note!Stop, Note!Released
<1>4. CASE Note!DrainEditor
  <2>1. PICK e \in {Head(inbox)} :
          IF e.on THEN Note!NoteOn("editor", e.local, e.channel, 0) ELSE Note!NoteOff("editor", e.local, e.channel, 0)
    BY <1>4 DEF Note!DrainEditor
  <2>2. s \in Note!Called("editor", e.local, e.channel)
    BY <1>2, <1>3, <2>1 DEF Note!NoteOff
  <2>3. held[s].source = "editor"
    BY <2>2, CalledIsTheirs
  <2> QED BY <1>4, <2>3 DEF Note!DrainEditor
<1>5. CASE Note!HostNote
  <2>1. PICK on \in BOOLEAN, local \in {-1, 7}, channel \in {0, 1} :
          IF on THEN Note!NoteOn("host", local, channel, now) ELSE Note!NoteOff("host", local, channel, now)
    BY <1>5 DEF Note!HostNote, Note!Channels
  <2>2. s \in Note!Called("host", local, channel)
    BY <1>2, <1>3, <2>1 DEF Note!NoteOff
  <2>3. held[s].source = "host"
    BY <2>2, CalledIsTheirs
  <2> QED BY <1>5, <2>3 DEF Note!HostNote
<1>6. CASE Note!HostWildcard
  <2>1. held[s].source = "host"
    BY <1>3, <1>6 DEF Note!HostWildcard
  <2> QED BY <1>6, <2>1 DEF Note!HostWildcard
<1>7. CASE Note!Begin
  BY <1>1, <1>7 DEF Note!Begin
<1>8. CASE Note!Deactivate
  BY <1>1, <1>8 DEF Note!Deactivate
<1> QED BY <1>1, <1>4, <1>5, <1>6, <1>7, <1>8
       DEF Note!Next, Note!nvars, Note!EditorPlays, Note!HostTurnsBypass, Note!HostBends, Note!HostResets, Note!Slice,
           Note!SendNotes, Note!names

-----------------------------------------------------------------------------
(* What the proofs about several wrappers share.                             *)

Stream == INSTANCE StreamSync

\* The fields the restarts are told by.
SyncFields == {"holdOffline", "pending", "holding", "wasSkipped"}
Fielded(s, k, b) == SyncFields \subseteq DOMAIN s /\ "past" \in DOMAIN k /\ {"now", "fade"} \subseteq DOMAIN b

\* What a block is told, and what is remembered of it: only a restart of the stream takes no note of a skip,
\* and only where renders are held back is one held.
LEMMA StreamGoesOn ==
    ASSUME NEW s, SyncFields \subseteq DOMAIN s, s.holding => s.pending, NEW f
    PROVE  LET to == Stream!SyncNext(s, f) plan == Stream!SyncPlan(s, f) IN
           /\ SyncFields \subseteq DOMAIN to /\ (to.holding => to.pending)
           /\ plan \in {"none", "resume", "stream", "hold"}
           /\ plan = "none" => ~s.pending /\ (s.wasSkipped => f.skipping)
           /\ plan = "hold" => to.pending /\ to.wasSkipped = s.wasSkipped
           /\ plan # "hold" => ~to.pending /\ (to.wasSkipped <=> plan # "stream" /\ f.skipping)
           /\ ~s.holdOffline /\ ~s.holding => plan # "hold" /\ ~to.holdOffline /\ ~to.holding
<1> DEFINE after == Stream!SyncSees(s, f)
<1>1. /\ SyncFields \subseteq DOMAIN after /\ (after.holding => after.pending) /\ after.wasSkipped = s.wasSkipped
      /\ s.pending => after.pending
      /\ ~s.holdOffline /\ ~s.holding => ~after.holdOffline /\ ~after.holding
  <2>1. CASE Stream!Discontinuous(s, f)
    BY <2>1 DEF Stream!SyncSees, SyncFields
  <2>2. CASE ~Stream!Discontinuous(s, f)
    BY <2>2 DEF Stream!SyncSees, SyncFields
  <2> QED BY <2>1, <2>2
<1>2. Stream!HoldsOn(after, f) => after.holding
  BY Zenon DEF Stream!HoldsOn
<1> HIDE DEF after
<1>3. CASE Stream!HoldsOn(after, f)
  BY <1>1, <1>2, <1>3 DEF after, Stream!SyncNext, Stream!SyncPlan, Stream!SyncAfter, Stream!PlanOf, SyncFields
<1>4. CASE ~Stream!HoldsOn(after, f)
  BY <1>1, <1>4 DEF after, Stream!SyncNext, Stream!SyncPlan, Stream!SyncAfter, Stream!PlanOf, SyncFields
<1> QED BY <1>3, <1>4

\* The longest latency, and what may be a proposal or an answer of one.
Top == Stream!MaxLatency
Optional(v) == v = None \/ v <= Top

\* It is one of them, and none is longer.
LEMMA Longest == Top \in Values /\ \A v \in Values : v <= Top
<1>1. \E m \in Values : \A v \in Values : v <= m
  BY LatenciesBounded
<1> QED BY <1>1, Zenon DEF Top, Stream!MaxLatency

\* What is proposed and what is accepted, the delays reach.
Handshake ==
    /\ {"value", "latency"} \subseteq DOMAIN kernel /\ {"latency", "max"} \subseteq DOMAIN bypass
    /\ Optional(pending) /\ Optional(accepted) /\ kernel.latency = bypass.latency
\* What the wrapper answers with is what the processor goes by, or what the next block makes it go by.
Answers == latency = IF accepted = None THEN kernel.latency ELSE accepted

\* A list.
Listed(s) == s \in Seq({s[i] : i \in DOMAIN s})

\* Every sequence is one.
LEMMA SequencesList == ASSUME NEW S, NEW s \in Seq(S) PROVE Listed(s)
<1>1. s = [i \in 1 .. Len(s) |-> s[i]] /\ DOMAIN s = 1 .. Len(s) /\ Len(s) \in Nat
  OBVIOUS
<1>2. \A i \in 1 .. Len(s) : s[i] \in {s[j] : j \in DOMAIN s}
  BY <1>1
<1> QED BY <1>1, <1>2 DEF Listed

\* What is appended to a list, taken from it, or cut off it is a list.
LEMMA Lists ==
    /\ Listed(<<>>)
    /\ \A s, t : Listed(s) /\ Listed(t) => Listed(s \o t)
    /\ \A s, e : Listed(s) => Listed(Append(s, e))
    /\ \A s : Listed(s) /\ s # <<>> => Listed(Tail(s))
    /\ \A e : Listed(<<e>>)
<1>1. ASSUME NEW S, NEW s \in Seq(S) PROVE Listed(s)
  BY SequencesList
<1>2. Listed(<<>>)
  <2>1. <<>> \in Seq({})
    OBVIOUS
  <2> QED BY <1>1, <2>1
<1>3. ASSUME NEW s, NEW t, Listed(s), Listed(t) PROVE Listed(s \o t)
  <2> DEFINE S == {s[i] : i \in DOMAIN s} \cup {t[i] : i \in DOMAIN t}
  <2>1. s \in Seq(S) /\ t \in Seq(S)
    BY <1>3 DEF Listed
  <2> HIDE DEF S
  <2>2. s \o t \in Seq(S)
    BY <2>1
  <2> QED BY <1>1, <2>2
<1>4. ASSUME NEW s, NEW e, Listed(s) PROVE Listed(Append(s, e))
  <2> DEFINE S == {s[i] : i \in DOMAIN s} \cup {e}
  <2>1. s \in Seq(S) /\ e \in S
    BY <1>4 DEF Listed
  <2> HIDE DEF S
  <2>2. Append(s, e) \in Seq(S)
    BY <2>1
  <2> QED BY <1>1, <2>2
<1>5. ASSUME NEW s, Listed(s), s # <<>> PROVE Listed(Tail(s))
  <2> DEFINE S == {s[i] : i \in DOMAIN s}
  <2>1. s \in Seq(S)
    BY <1>5 DEF Listed
  <2> HIDE DEF S
  <2>2. Tail(s) \in Seq(S)
    BY <1>5, <2>1
  <2> QED BY <1>1, <2>2
<1>6. ASSUME NEW e PROVE Listed(<<e>>)
  <2>1. <<e>> \in Seq({e})
    OBVIOUS
  <2> QED BY <1>1, <2>1
<1> QED BY <1>2, <1>3, <1>4, <1>5, <1>6

\* A block's note comes after its values, and one that starts is named.
NoteLast(s, ns) == \A i \in 1 .. Len(s) : /\ s[i].kind \in {"on", "off"} => i = Len(s)
                                          /\ s[i].kind = "on" => s[i].value \in ns

\* It does when notes follow values, and as long as they are taken from the front; nothing follows a note.
LEMMA NotesFollow ==
    ASSUME NEW S, NEW s \in Seq(S), NEW ns
    PROVE  /\ NoteLast(s, ns) /\ s # <<>> => /\ NoteLast(Tail(s), ns)
                                             /\ Head(s).kind = "off" => \A rest : NoteLast(Tail(s), rest)
                                             /\ Head(s).kind = "on" => Head(s).value \in ns
           /\ \A t \in Seq(S) :
                 /\ Len(t) <= 1 /\ \A i \in 1 .. Len(s) : s[i].kind \notin {"on", "off"}
                 /\ \A i \in 1 .. Len(t) : t[i].kind = "on" => t[i].value \in ns
                 => NoteLast(s \o t, ns)
<1>1. ASSUME NoteLast(s, ns), s # <<>>
      PROVE  /\ NoteLast(Tail(s), ns)
             /\ Head(s).kind = "off" => \A rest : NoteLast(Tail(s), rest)
             /\ Head(s).kind = "on" => Head(s).value \in ns
  <2> DEFINE left_ == Tail(s)
             first == Head(s)
  <2>1. /\ Len(s) \in Nat \ {0} /\ first = s[1] /\ Len(left_) = Len(s) - 1
        /\ \A i \in 1 .. Len(s) - 1 : left_[i] = s[i + 1]
    BY <1>1, HeadTailProperties
  <2> HIDE DEF left_, first
  <2>2. NoteLast(left_, ns)
    <3> SUFFICES ASSUME NEW i \in 1 .. Len(s) - 1
                 PROVE  /\ left_[i].kind \in {"on", "off"} => i = Len(left_)
                        /\ left_[i].kind = "on" => left_[i].value \in ns
      BY <2>1 DEF NoteLast
    <3>1. i + 1 \in 1 .. Len(s) /\ left_[i] = s[i + 1]
      BY <2>1
    <3>2. /\ s[i + 1].kind \in {"on", "off"} => i + 1 = Len(s)
          /\ s[i + 1].kind = "on" => s[i + 1].value \in ns
      BY <1>1, <3>1 DEF NoteLast
    <3> QED BY <2>1, <3>1, <3>2
  <2>3. 1 \in 1 .. Len(s)
    BY <2>1
  <2>4. (first.kind \in {"on", "off"} => 1 = Len(s)) /\ (first.kind = "on" => first.value \in ns)
    BY <1>1, <2>1, <2>3, Zenon DEF NoteLast
  <2>5. first.kind = "off" => \A rest : NoteLast(left_, rest)
    <3>1. first.kind = "off" => Len(s) = 1
      BY <2>4, Zenon
    <3>2. Len(s) = 1 => 1 .. Len(left_) = {}
      BY <2>1
    <3> QED BY <3>1, <3>2, Zenon DEF NoteLast
  <2> QED BY <2>2, <2>4, <2>5 DEF left_, first
<1>2. ASSUME NEW t \in Seq(S), Len(t) <= 1, \A i \in 1 .. Len(s) : s[i].kind \notin {"on", "off"},
             \A i \in 1 .. Len(t) : t[i].kind = "on" => t[i].value \in ns
      PROVE  NoteLast(s \o t, ns)
  <2>1. /\ Len(s \o t) = Len(s) + Len(t) /\ Len(s) \in Nat /\ Len(t) \in Nat
        /\ \A i \in 1 .. Len(s) + Len(t) : (s \o t)[i] = IF i <= Len(s) THEN s[i] ELSE t[i - Len(s)]
    BY ConcatProperties
  <2>2. ASSUME NEW i \in 1 .. Len(s) + Len(t)
        PROVE  \/ i <= Len(s) /\ (s \o t)[i] = s[i]
               \/ i = Len(s) + Len(t) /\ 1 \in 1 .. Len(t) /\ (s \o t)[i] = t[1]
    BY <1>2, <2>1
  <2> QED BY <1>2, <2>1, <2>2 DEF NoteLast
<1> QED BY <1>1, <1>2

\* A list of two lists holds what they hold.
LEMMA JoinedHolds ==
    ASSUME NEW s, NEW t, Listed(s), Listed(t), NEW i \in DOMAIN (s \o t)
    PROVE  (\E j \in DOMAIN s : (s \o t)[i] = s[j]) \/ (\E j \in DOMAIN t : (s \o t)[i] = t[j])
<1> DEFINE S == {s[j] : j \in DOMAIN s} \cup {t[j] : j \in DOMAIN t}
           all == s \o t
<1>1. s \in Seq(S) /\ t \in Seq(S)
  BY DEF Listed
<1> HIDE DEF S
<1>2. /\ all \in Seq(S) /\ Len(all) = Len(s) + Len(t)
      /\ \A j \in 1 .. Len(s) + Len(t) : all[j] = IF j <= Len(s) THEN s[j] ELSE t[j - Len(s)]
  BY <1>1, ConcatProperties
<1>3. /\ DOMAIN s = 1 .. Len(s) /\ DOMAIN t = 1 .. Len(t) /\ Len(s) \in Nat /\ Len(t) \in Nat
  BY <1>1
<1>4. i \in DOMAIN all
  OBVIOUS
<1> HIDE DEF all
<1>5. i \in 1 .. Len(s) + Len(t)
  BY <1>2, <1>3, <1>4
<1>6. CASE i <= Len(s)
  <2>1. i \in DOMAIN s /\ all[i] = s[i]
    BY <1>2, <1>3, <1>5, <1>6
  <2> QED BY <2>1 DEF all
<1>7. CASE ~(i <= Len(s))
  <2>1. i - Len(s) \in DOMAIN t /\ all[i] = t[i - Len(s)]
    BY <1>2, <1>3, <1>5, <1>7
  <2> QED BY <2>1 DEF all
<1> QED BY <1>6, <1>7

\* What the events of a block write, and what they leave of a value held before them.
Writes(es) == {i \in DOMAIN es : es[i].kind \in {"set", "ramp"}}
Comes(es, from, v) ==
    \/ Writes(es) = {} /\ from = v
    \/ \E i \in Writes(es) : es[i].value = v /\ \A j \in Writes(es) : j <= i

\* Each event that is taken leaves the rest to come, and nothing is left of none.
LEMMA ComesOn ==
    ASSUME NEW s, Listed(s), NEW from, NEW v, Comes(s, from, v)
    PROVE  /\ s = <<>> => from = v
           /\ s # <<>> => Comes(Tail(s), IF Head(s).kind \in {"set", "ramp"} THEN Head(s).value ELSE from, v)
<1> DEFINE S == {s[i] : i \in DOMAIN s}
<1>0. s \in Seq(S)
  BY DEF Listed
<1> HIDE DEF S
<1>1. s = <<>> => from = v
  BY DEF Comes, Writes
<1>2. ASSUME s # <<>>
      PROVE  Comes(Tail(s), IF Head(s).kind \in {"set", "ramp"} THEN Head(s).value ELSE from, v)
  <2> DEFINE t == Tail(s)
             first == Head(s)
             was == IF first.kind \in {"set", "ramp"} THEN first.value ELSE from
  <2>1. /\ Len(s) \in Nat \ {0} /\ first = s[1] /\ DOMAIN t = 1 .. Len(s) - 1 /\ DOMAIN s = 1 .. Len(s)
        /\ \A i \in 1 .. Len(s) - 1 : t[i] = s[i + 1]
    BY <1>0, <1>2, HeadTailProperties
  <2> HIDE DEF t, first
  <2>2. \A i \in DOMAIN t : i \in Writes(t) <=> i + 1 \in Writes(s)
    BY <2>1 DEF Writes
  <2>3. 1 \in Writes(s) <=> first.kind \in {"set", "ramp"}
    BY <2>1 DEF Writes
  <2>4. CASE Writes(s) = {}
    <3>1. Writes(t) = {}
      BY <2>2, <2>4 DEF Writes
    <3> QED BY <2>3, <2>4, <3>1 DEF Comes, t, first
  <2>5. CASE Writes(s) # {}
    <3>1. PICK i \in Writes(s) : s[i].value = v /\ \A j \in Writes(s) : j <= i
      BY <2>5 DEF Comes
    <3>2. i \in 1 .. Len(s) /\ \A j \in Writes(t) : j \in DOMAIN t /\ j \in 1 .. Len(s) - 1
      BY <2>1 DEF Writes
    <3>3. CASE i = 1
      <4>1. Writes(t) = {}
        <5> SUFFICES ASSUME NEW j \in Writes(t) PROVE FALSE
          OBVIOUS
        <5>1. j \in Nat \ {0} /\ j + 1 \in Writes(s)
          BY <2>1, <2>2, <3>2
        <5>2. j + 1 <= 1
          BY <3>1, <3>3, <5>1
        <5> QED BY <5>1, <5>2
      <4>2. was = v
        BY <2>1, <2>3, <3>1, <3>3
      <4> QED BY <4>1, <4>2 DEF Comes, t, first
    <3>4. CASE i # 1
      <4>1. i - 1 \in DOMAIN t /\ t[i - 1] = s[i] /\ (i - 1) + 1 = i
        BY <2>1, <3>2, <3>4
      <4>2. i - 1 \in Writes(t) /\ t[i - 1].value = v
        BY <2>2, <3>1, <4>1
      <4>3. ASSUME NEW j \in Writes(t) PROVE j <= i - 1
        <5>1. j \in DOMAIN t /\ j \in 1 .. Len(s) - 1
          BY <3>2
        <5>2. j + 1 \in Writes(s)
          BY <2>2, <5>1
        <5>3. j + 1 <= i
          BY <3>1, <5>2
        <5> QED BY <3>2, <5>1, <5>3
      <4> QED BY <4>2, <4>3, Zenon DEF Comes, t
    <3> QED BY <3>3, <3>4
  <2> QED BY <2>4, <2>5
<1> QED BY <1>1, <1>2

\* Of values and notes after them, the last value comes.
LEMMA ComesLast ==
    ASSUME NEW s, Listed(s), NEW t, Listed(t), NEW from,
           Writes(s) = DOMAIN s, Writes(t) = {}
    PROVE  /\ s = <<>> => Comes(s \o t, from, from)
           /\ s # <<>> => Comes(s \o t, from, s[Len(s)].value)
<1> DEFINE S == {s[j] : j \in DOMAIN s} \cup {t[j] : j \in DOMAIN t}
           all == s \o t
<1>1. s \in Seq(S) /\ t \in Seq(S)
  BY DEF Listed
<1> HIDE DEF S
<1>2. /\ all \in Seq(S) /\ DOMAIN all = 1 .. Len(s) + Len(t)
      /\ \A j \in 1 .. Len(s) + Len(t) : all[j] = IF j <= Len(s) THEN s[j] ELSE t[j - Len(s)]
      /\ DOMAIN s = 1 .. Len(s) /\ DOMAIN t = 1 .. Len(t) /\ Len(s) \in Nat /\ Len(t) \in Nat
  BY <1>1, ConcatProperties
<1> HIDE DEF all
<1>3. ASSUME NEW j \in DOMAIN all PROVE j \in Writes(all) <=> j <= Len(s)
  <2>1. CASE j <= Len(s)
    <3>1. j \in DOMAIN s /\ all[j] = s[j]
      BY <1>2, <2>1
    <3> QED BY <2>1, <3>1 DEF Writes
  <2>2. CASE ~(j <= Len(s))
    <3>1. j - Len(s) \in DOMAIN t /\ all[j] = t[j - Len(s)]
      BY <1>2, <2>2
    <3>2. j - Len(s) \notin Writes(t)
      OBVIOUS
    <3> QED BY <2>2, <3>1, <3>2 DEF Writes
  <2> QED BY <2>1, <2>2
<1>4. ASSUME s = <<>> PROVE Comes(all, from, from)
  <2>1. Writes(all) = {}
    <3> SUFFICES ASSUME NEW j \in Writes(all) PROVE FALSE
      OBVIOUS
    <3>1. j \in DOMAIN all
      BY DEF Writes
    <3> QED BY <1>2, <1>3, <1>4, <3>1
  <2> QED BY <2>1 DEF Comes
<1>5. ASSUME s # <<>> PROVE Comes(all, from, s[Len(s)].value)
  <2>1. Len(s) \in 1 .. Len(s) + Len(t) /\ all[Len(s)] = s[Len(s)]
    BY <1>1, <1>2, <1>5
  <2>2. Len(s) \in Writes(all) /\ all[Len(s)].value = s[Len(s)].value
    BY <1>2, <1>3, <2>1
  <2>3. \A j \in Writes(all) : j <= Len(s)
    BY <1>3 DEF Writes
  <2> QED BY <2>2, <2>3, Zenon DEF Comes
<1> QED BY <1>4, <1>5 DEF all

-----------------------------------------------------------------------------
(* Proofs about the Web: its processor module makes up a block at a time.    *)

Web == INSTANCE Web WITH Budgets <- WebPlans

\* It goes by the one Stream_sync.
LEMMA WebStream ==
    ASSUME NEW s, NEW f
    PROVE  Web!SyncNext(s, f) = Stream!SyncNext(s, f) /\ Web!SyncPlan(s, f) = Stream!SyncPlan(s, f)
BY Zenon DEF Stream!SyncNext, Stream!SyncPlan, Stream!SyncAfter, Stream!SyncSees, Stream!PlanOf, Stream!HoldsOn,
             Stream!Discontinuous, Stream!ModeOf, Web!SyncNext, Web!SyncPlan, Web!SyncAfter, Web!SyncSees,
             Web!PlanOf, Web!HoldsOn, Web!Discontinuous, Web!ModeOf

\* Its longest latency is the longest one.
LEMMA WebLongest == Web!MaxLatency = Top
BY Zenon DEF Top, Stream!MaxLatency, Web!MaxLatency

\* The Web's processor module.
Assembled(m) ==
    /\ {"params", "kernel", "bypass", "sync", "names", "latency", "accepted", "hostReset", "notes"} \subseteq DOMAIN m
    /\ Fielded(m.sync, m.kernel, m.bypass) /\ {"value", "voices"} \subseteq DOMAIN m.kernel
    /\ ~m.sync.holdOffline /\ ~m.sync.holding
WebInv == Assembled(processor) /\ Web!NoStaleRun

LEMMA WebInvariance == Web!Init /\ [][Web!Next]_(Web!webVars) => []WebInv
<1> DEFINE Same(a, b) == /\ Assembled(b) /\ b.kernel.past = a.kernel.past /\ b.sync = a.sync
                         /\ b.bypass.now = a.bypass.now /\ b.bypass.fade = a.bypass.fade
<1>1. Web!Init => WebInv
  <2> DEFINE s == Web!SyncConfigured(Web!NewSync(FALSE))
             b == Web!BypassConfigured(Web!NewBypass, Web!MaxLatency, Web!Latency(0))
             k == Web!Configure(0)
  <2>1. SyncFields \subseteq DOMAIN s /\ ~s.holdOffline /\ ~s.holding
    BY DEF SyncFields, Web!NewSync, Web!SyncConfigured
  <2>2. {"now", "fade"} \subseteq DOMAIN b
    BY DEF Web!NewBypass, Web!BypassConfigured, Web!SetLatency, Web!Snap
  <2>3. {"past", "value", "voices"} \subseteq DOMAIN k /\ k.past = "none"
    BY DEF Web!Configure
  <2> HIDE DEF s, b, k
  <2>4. ASSUME Web!Init
        PROVE  /\ {"params", "kernel", "bypass", "sync", "names", "latency", "accepted", "hostReset", "notes"}
                     \subseteq DOMAIN processor
               /\ processor.sync = s /\ processor.bypass = b /\ processor.kernel = k
    BY <2>4 DEF Web!Init, Web!Module, s, b, k
  <2> QED BY <2>1, <2>2, <2>3, <2>4 DEF WebInv, Assembled, Fielded, Web!NoStaleRun
<1>2. WebInv /\ [Web!Next]_(Web!webVars) => WebInv'
  <2> SUFFICES ASSUME WebInv, [Web!Next]_(Web!webVars) PROVE WebInv'
    OBVIOUS
  <2>1. ASSUME UNCHANGED processor PROVE WebInv'
    BY <2>1 DEF WebInv, Web!NoStaleRun
  <2>2. ASSUME NEW meter \in BOOLEAN, Web!Render(meter) PROVE WebInv'
    <3> DEFINE entries == inbound \o SubSeq(landing, 1, Web!Fitting)
               m0 == Web!Landed(processor)
               m1 == Web!Received(m0, entries)
               f == Web!FactsOf(m1)
               m2 == Web!Synced(m1)
               m3 == Web!Named(m2)
               m4 == Web!Proposes(m3)
    <3>1. Same(processor, m0)
      BY DEF WebInv, Assembled, Fielded, Web!Landed, Web!Adopt, Web!SetLatency
    <3> HIDE DEF m0, entries
    <3>2. Same(processor, m1)
      BY <3>1 DEF Assembled, Fielded, Web!Received, Web!SetBypassed
    <3> HIDE DEF m1
    <3>3. LET to == Web!SyncNext(m1.sync, f) plan == Web!SyncPlan(m1.sync, f) IN
          /\ SyncFields \subseteq DOMAIN to /\ ~to.holdOffline /\ ~to.holding
          /\ plan \in {"none", "resume", "stream"}
          /\ plan = "stream" \/ (to.wasSkipped <=> Web!CanSkip(m1.bypass))
          /\ plan = "none" /\ m1.sync.wasSkipped => Web!CanSkip(m1.bypass)
      <4> DEFINE to == Web!SyncNext(m1.sync, f)
                 plan == Web!SyncPlan(m1.sync, f)
      <4>1. SyncFields \subseteq DOMAIN m1.sync /\ ~m1.sync.holdOffline /\ ~m1.sync.holding
        BY <3>2 DEF Assembled, Fielded
      <4>2. to = Stream!SyncNext(m1.sync, f) /\ plan = Stream!SyncPlan(m1.sync, f)
        BY WebStream, Zenon
      <4>3. f.skipping = Web!CanSkip(m1.bypass)
        BY DEF Web!FactsOf
      <4> HIDE DEF f, to, plan
      <4>4. /\ SyncFields \subseteq DOMAIN to /\ ~to.holdOffline /\ ~to.holding
            /\ plan \in {"none", "resume", "stream"}
            /\ plan = "stream" \/ (to.wasSkipped <=> Web!CanSkip(m1.bypass))
            /\ plan = "none" /\ m1.sync.wasSkipped => Web!CanSkip(m1.bypass)
        BY <4>1, <4>2, <4>3, StreamGoesOn
      <4> QED BY <4>4 DEF to, plan
    <3>4. /\ Assembled(m2)
          /\ m2.kernel.past = "stale" => Web!CanSkip(m2.bypass) /\ m2.sync.wasSkipped
          /\ Web!CanSkip(m2.bypass) => m2.sync.wasSkipped \/ m2.kernel.past = "none"
      <4> DEFINE to == Web!SyncNext(m1.sync, f)
                 plan == Web!SyncPlan(m1.sync, f)
      <4>0. /\ m1.kernel.past = "stale" => Web!CanSkip(m1.bypass) \/ m1.sync.wasSkipped
        BY <3>2 DEF WebInv, Web!NoStaleRun, Web!CanSkip
      <4> HIDE DEF f, to, plan
      <4>1. CASE plan = "none"
        <5>1. m2 = [m1 EXCEPT !.sync = to, !.hostReset = FALSE]
          BY <3>2, <4>1 DEF Web!Synced, f, to, plan, Assembled
        <5> QED BY <5>1, <3>2, <3>3, <4>0, <4>1 DEF Assembled, Fielded, to, plan
      <4>2. CASE plan = "resume"
        <5>1. m2 = [m1 EXCEPT !.sync = to, !.hostReset = FALSE, !.kernel = Web!Restart(@, m1.params)]
          BY <3>2, <4>2 DEF Web!Synced, f, to, plan, Assembled
        <5> QED BY <5>1, <3>2, <3>3, <4>0, <4>2 DEF Assembled, Fielded, to, plan, Web!Restart
      <4>3. CASE plan = "stream"
        <5>1. m2 = [[m1 EXCEPT !.sync = to, !.hostReset = FALSE, !.kernel = Web!Restart(@, m1.params)]
                       EXCEPT !.names = {}, !.bypass = Web!Snap(@)]
          BY <3>2, <4>3 DEF Web!Synced, f, to, plan, Assembled
        <5>2. /\ {"params", "kernel", "bypass", "sync", "names", "latency", "accepted", "hostReset", "notes"} \subseteq DOMAIN m2
              /\ m2.sync = to /\ m2.kernel = Web!Restart(m1.kernel, m1.params) /\ m2.bypass = Web!Snap(m1.bypass)
          BY <5>1, <3>2 DEF Assembled
        <5>3. /\ {"past", "value", "voices"} \subseteq DOMAIN m2.kernel /\ m2.kernel.past = "none"
              /\ {"now", "fade"} \subseteq DOMAIN m2.bypass
          BY <5>2, <3>2 DEF Assembled, Fielded, Web!Restart, Web!Snap
        <5>4. SyncFields \subseteq DOMAIN to /\ ~to.holdOffline /\ ~to.holding
          BY <3>3 DEF to
        <5> HIDE DEF m2
        <5> QED BY <5>2, <5>3, <5>4 DEF Assembled, Fielded
      <4> QED BY <3>3, <4>1, <4>2, <4>3 DEF to, plan
    <3> HIDE DEF m2
    <3>5. Same(m2, m3)
      BY <3>4 DEF Assembled, Fielded, Web!Named
    <3> HIDE DEF m3
    <3>6. Same(m2, m4)
      BY <3>5 DEF Assembled, Fielded, Web!Proposes
    <3> HIDE DEF m4
    <3>7. processor' = Web!Played(m4)
      BY <2>2, Zenon DEF Web!Render, entries, m0, m1, m2, m3, m4
    <3>8. Assembled(processor') /\ processor'.sync = m4.sync
      BY <3>6, <3>7 DEF Assembled, Fielded, Web!Played, Web!Miss, Web!Hear, Web!BypassProcessed
    <3>9. processor'.kernel.past = "stale" => m4.sync.wasSkipped
      BY <3>4, <3>6, <3>7 DEF Assembled, Fielded, Web!Played, Web!Miss, Web!Hear, Web!CanSkip
    <3> QED BY <3>8, <3>9 DEF WebInv, Web!NoStaleRun
  <2>3. ASSUME NEW v \in Values, Web!SetParam(v) PROVE WebInv'
    BY <2>3, <2>1 DEF Web!SetParam, Web!Sent
  <2>4. ASSUME NEW on \in BOOLEAN, Web!SetBypass(on) PROVE WebInv'
    BY <2>4, <2>1 DEF Web!SetBypass, Web!Sent
  <2>5. ASSUME NEW note, Web!Midi(note) PROVE WebInv'
    BY <2>5, <2>1 DEF Web!Midi, Web!Sent
  <2>6. CASE Web!HostReset \/ Web!Tick \/ Web!PumpDown \/ Web!PumpUp \/ Web!PostDown \/ Web!Land \/ Web!PostUp \/ Web!LandUp
    BY <2>6, <2>1 DEF Web!HostReset, Web!Sent, Web!Tick, Web!PumpDown, Web!PumpUp, Web!PostDown, Web!Land, Web!PostUp,
                      Web!LandUp, Web!carried
  <2>7. CASE UNCHANGED Web!webVars
    BY <2>7, <2>1 DEF Web!webVars
  <2> QED BY <2>2, <2>3, <2>4, <2>5, <2>6, <2>7 DEF Web!Next
<1> QED BY <1>1, <1>2, PTL

\* What the processor module sounds has a name.
WebNamed(m) ==
    /\ {"kernel", "names"} \subseteq DOMAIN m /\ {"value", "voices"} \subseteq DOMAIN m.kernel
    /\ m.kernel.voices \subseteq m.names
WebSounds == WebNamed(processor)

\* A block's notes leave it so: what was struck and let go again is named in between.
LEMMA WebNames == ASSUME NEW m, WebNamed(m) PROVE WebNamed(Web!Named(m))
<1> DEFINE on == Web!Ending(m, "on")
           off == Web!Ending(m, "off")
           n == Web!Named(m)
<1>1. on \subseteq Web!Struck(m)
  BY DEF Web!Ending, Web!Struck
<1>2. n = [m EXCEPT !.notes = <<>>, !.kernel.value = m.params, !.names = (@ \cup on) \ off,
                    !.kernel.voices = (@ \cup on) \ (off \cap (m.names \cup Web!Struck(m)))]
  BY Zenon DEF Web!Named
<1> HIDE DEF on, off, n
<1>3. /\ {"kernel", "names"} \subseteq DOMAIN n /\ {"value", "voices"} \subseteq DOMAIN n.kernel
      /\ n.names = (m.names \cup on) \ off
      /\ n.kernel.voices = (m.kernel.voices \cup on) \ (off \cap (m.names \cup Web!Struck(m)))
  BY <1>2 DEF WebNamed
<1>4. n.kernel.voices \subseteq n.names
  BY <1>1, <1>3 DEF WebNamed
<1> QED BY <1>3, <1>4 DEF WebNamed, n

\* Every step keeps it so.
LEMMA WebSoundsOn == Web!Init /\ [][Web!Next]_(Web!webVars) => []WebSounds
<1>1. Web!Init => WebSounds
  BY DEF Web!Init, WebSounds, WebNamed, Web!Module, Web!Configure
<1>2. WebSounds /\ [Web!Next]_(Web!webVars) => WebSounds'
  <2> SUFFICES ASSUME WebSounds, [Web!Next]_(Web!webVars) PROVE WebSounds'
    OBVIOUS
  <2>1. ASSUME UNCHANGED processor PROVE WebSounds'
    BY <2>1 DEF WebSounds
  <2>2. ASSUME NEW meter \in BOOLEAN, Web!Render(meter) PROVE WebSounds'
    <3> DEFINE entries == inbound \o SubSeq(landing, 1, Web!Fitting)
               m0 == Web!Landed(processor)
               m1 == Web!Received(m0, entries)
               m2 == Web!Synced(m1)
               m3 == Web!Named(m2)
               m4 == Web!Proposes(m3)
    <3>1. WebNamed(m0)
      BY DEF WebSounds, WebNamed, Web!Landed, Web!Adopt
    <3> HIDE DEF m0, entries
    <3>2. WebNamed(m1)
      BY <3>1 DEF WebNamed, Web!Received
    <3> HIDE DEF m1
    <3>3. WebNamed(m2)
      BY <3>2 DEF WebNamed, Web!Synced, Web!Restart
    <3> HIDE DEF m2
    <3>4. WebNamed(m3)
      BY <3>3, WebNames
    <3> HIDE DEF m3
    <3>5. WebNamed(m4)
      BY <3>4 DEF WebNamed, Web!Proposes
    <3> HIDE DEF m4
    <3>6. processor' = Web!Played(m4)
      BY <2>2, Zenon DEF Web!Render, entries, m0, m1, m2, m3, m4
    <3>7. WebNamed(Web!Played(m4))
      BY <3>5 DEF WebNamed, Web!Played, Web!Miss, Web!Hear
    <3> QED BY <3>6, <3>7 DEF WebSounds
  <2>3. ASSUME NEW v \in Values, Web!SetParam(v) PROVE WebSounds'
    BY <2>3, <2>1 DEF Web!SetParam, Web!Sent
  <2>4. ASSUME NEW on \in BOOLEAN, Web!SetBypass(on) PROVE WebSounds'
    BY <2>4, <2>1 DEF Web!SetBypass, Web!Sent
  <2>5. ASSUME NEW note, Web!Midi(note) PROVE WebSounds'
    BY <2>5, <2>1 DEF Web!Midi, Web!Sent
  <2>6. CASE Web!HostReset \/ Web!Tick \/ Web!PumpDown \/ Web!PumpUp \/ Web!PostDown \/ Web!Land \/ Web!PostUp \/ Web!LandUp
    BY <2>6, <2>1 DEF Web!HostReset, Web!Sent, Web!Tick, Web!PumpDown, Web!PumpUp, Web!PostDown, Web!Land, Web!PostUp,
                      Web!LandUp, Web!carried
  <2>7. CASE UNCHANGED Web!webVars
    BY <2>7, <2>1 DEF Web!webVars
  <2> QED BY <2>2, <2>3, <2>4, <2>5, <2>6, <2>7 DEF Web!Next
<1> QED BY <1>1, <1>2, PTL

\* An entry is the last of its kind that a list says; a list says none of that kind.
Newest(s, e) == \E i \in DOMAIN s : s[i] = e /\ \A j \in DOMAIN s : j > i => s[j].kind # e.kind
Silent(s, e) == \A i \in DOMAIN s : s[i].kind # e.kind

\* On a wire, from the list that is put in to the one that comes out, with posts between them: an entry is the
\* last of its kind; none is of that kind.
Underway(e, in, between, out) ==
    \/ Newest(in, e)
    \/ /\ Silent(in, e)
       /\ \/ \E p \in DOMAIN between : Newest(between[p], e) /\ \A q \in DOMAIN between : q > p => Silent(between[q], e)
          \/ (\A q \in DOMAIN between : Silent(between[q], e)) /\ Newest(out, e)
Unsaid(e, in, between, out) ==
    Silent(in, e) /\ (\A q \in DOMAIN between : Silent(between[q], e)) /\ Silent(out, e)

\* Of everything on its way up to the page and what it shows, what says the latency last says this one.
LatencyEntry(v) == [kind |-> "latency", samples |-> v]
SaysLast(v) ==
    \/ Underway(LatencyEntry(v), outbound, upPosts, toMain)
    \/ Unsaid(LatencyEntry(v), outbound, upPosts, toMain) /\ shown = v

\* The Web's processor module goes by one latency.
OneLatency(m) ==
    /\ {"params", "kernel", "bypass", "sync", "names", "latency", "accepted", "hostReset", "notes"} \subseteq DOMAIN m
    /\ {"value", "latency", "voices"} \subseteq DOMAIN m.kernel /\ {"latency", "max"} \subseteq DOMAIN m.bypass
    /\ m.kernel.latency = m.latency /\ m.bypass.latency = m.latency /\ m.bypass.max = Top

\* Until the wire drops it, what says that latency is on its way to the page, with nothing older behind it.
WebLatency ==
    /\ OneLatency(processor) /\ Optional(processor.accepted)
    /\ Listed(outbound) /\ Len(outbound) <= RingCap /\ Listed(toMain)
    /\ Listed(upPosts) /\ \A p \in DOMAIN upPosts : Listed(upPosts[p])
    /\ ~linked => upPosts = <<>>
    /\ ~lostUp => SaysLast(processor.latency)

\* What two lists say last, one after the other.
LEMMA NewestMoves ==
    ASSUME NEW e, NEW s, NEW t, Listed(s), Listed(t)
    PROVE  /\ Newest(s \o t, e) <=> Newest(t, e) \/ (Silent(t, e) /\ Newest(s, e))
           /\ Silent(s \o t, e) <=> Silent(t, e) /\ Silent(s, e)
<1> DEFINE all == s \o t
           S == {s[i] : i \in DOMAIN s} \cup {t[i] : i \in DOMAIN t}
<1>1. s \in Seq(S) /\ t \in Seq(S)
  BY DEF Listed
<1> HIDE DEF S
<1>2. /\ Len(s) \in Nat /\ DOMAIN s = 1 .. Len(s) /\ Len(t) \in Nat /\ DOMAIN t = 1 .. Len(t)
      /\ DOMAIN all = 1 .. Len(s) + Len(t)
      /\ \A i \in 1 .. Len(s) + Len(t) : all[i] = IF i <= Len(s) THEN s[i] ELSE t[i - Len(s)]
  BY <1>1, ConcatProperties
<1> HIDE DEF all
<1>3. ASSUME NEW j \in DOMAIN all
      PROVE  /\ j \in Int
             /\ j <= Len(s) => j \in DOMAIN s /\ all[j] = s[j]
             /\ j > Len(s) => j - Len(s) \in DOMAIN t /\ all[j] = t[j - Len(s)]
  BY <1>2
<1>4. ASSUME NEW i \in DOMAIN s PROVE i \in DOMAIN all /\ all[i] = s[i] /\ i <= Len(s) /\ i \in Int
  BY <1>2
<1>5. ASSUME NEW i \in DOMAIN t
      PROVE  i + Len(s) \in DOMAIN all /\ all[i + Len(s)] = t[i] /\ i + Len(s) > Len(s) /\ i \in Int
  <2>1. i + Len(s) \in DOMAIN all /\ i + Len(s) > Len(s) /\ i + Len(s) - Len(s) = i /\ i \in Int
    BY <1>2
  <2> QED BY <1>3, <2>1
<1>6. ASSUME Newest(t, e) PROVE Newest(all, e)
  <2>1. PICK i \in DOMAIN t : t[i] = e /\ \A j \in DOMAIN t : j > i => t[j].kind # e.kind
    BY <1>6 DEF Newest
  <2>2. ASSUME NEW j \in DOMAIN all, j > i + Len(s) PROVE all[j].kind # e.kind
    <3>1. j > Len(s) /\ j - Len(s) > i
      BY <1>2, <1>3, <1>5, <2>2
    <3> QED BY <1>3, <2>1, <3>1
  <2> QED BY <1>5, <2>1, <2>2 DEF Newest
<1>7. ASSUME Silent(t, e), Newest(s, e) PROVE Newest(all, e)
  <2>1. PICK i \in DOMAIN s : s[i] = e /\ \A j \in DOMAIN s : j > i => s[j].kind # e.kind
    BY <1>7 DEF Newest
  <2>2. ASSUME NEW j \in DOMAIN all, j > i PROVE all[j].kind # e.kind
    <3>1. CASE j <= Len(s)
      BY <1>3, <2>1, <2>2, <3>1
    <3>2. CASE j > Len(s)
      BY <1>3, <1>7, <3>2 DEF Silent
    <3> QED BY <1>2, <1>3, <3>1, <3>2
  <2> QED BY <1>4, <2>1, <2>2 DEF Newest
<1>8. ASSUME Silent(t, e), Silent(s, e) PROVE Silent(all, e)
  <2> SUFFICES ASSUME NEW j \in DOMAIN all PROVE all[j].kind # e.kind
    BY DEF Silent
  <2>1. CASE j <= Len(s)
    BY <1>3, <1>8, <2>1 DEF Silent
  <2>2. CASE j > Len(s)
    BY <1>3, <1>8, <2>2 DEF Silent
  <2> QED BY <1>2, <1>3, <2>1, <2>2
<1>9. ASSUME Silent(all, e) PROVE Silent(t, e) /\ Silent(s, e)
  BY <1>4, <1>5, <1>9 DEF Silent
<1>10. ASSUME Newest(all, e) PROVE Newest(t, e) \/ (Silent(t, e) /\ Newest(s, e))
  <2>1. PICK i \in DOMAIN all : all[i] = e /\ \A j \in DOMAIN all : j > i => all[j].kind # e.kind
    BY <1>10 DEF Newest
  <2>2. CASE i <= Len(s)
    <3>1. i \in DOMAIN s /\ s[i] = e
      BY <1>3, <2>1, <2>2
    <3>2. ASSUME NEW j \in DOMAIN s, j > i PROVE s[j].kind # e.kind
      BY <1>4, <2>1, <3>2
    <3>3. ASSUME NEW j \in DOMAIN t PROVE t[j].kind # e.kind
      <4>1. j + Len(s) > i
        BY <1>2, <1>3, <1>5, <2>2
      <4> QED BY <1>5, <2>1, <4>1
    <3> QED BY <3>1, <3>2, <3>3 DEF Newest, Silent
  <2>3. CASE i > Len(s)
    <3>1. i - Len(s) \in DOMAIN t /\ t[i - Len(s)] = e
      BY <1>3, <2>1, <2>3
    <3>2. ASSUME NEW j \in DOMAIN t, j > i - Len(s) PROVE t[j].kind # e.kind
      <4>1. j + Len(s) > i
        BY <1>2, <1>3, <1>5, <3>2
      <4> QED BY <1>5, <2>1, <4>1
    <3> QED BY <3>1, <3>2 DEF Newest
  <2> QED BY <1>2, <1>3, <2>2, <2>3
<1> QED BY <1>6, <1>7, <1>8, <1>9, <1>10 DEF all

\* A list is its head and the rest.
LEMMA HeadFirst ==
    ASSUME NEW s, Listed(s), s # <<>>
    PROVE  /\ Listed(<<Head(s)>>) /\ Listed(Tail(s)) /\ s = <<Head(s)>> \o Tail(s)
           /\ Len(s) \in Nat /\ Len(Tail(s)) = Len(s) - 1
<1> DEFINE S == {s[i] : i \in DOMAIN s}
<1>1. s \in Seq(S)
  BY DEF Listed
<1> HIDE DEF S
<1>2. /\ Head(s) \in S /\ Tail(s) \in Seq(S) /\ Len(s) \in Nat /\ Len(Tail(s)) = Len(s) - 1
      /\ s = <<Head(s)>> \o Tail(s)
  BY <1>1, HeadTailProperties
<1>3. <<Head(s)>> \in Seq(S)
  BY <1>2
<1> QED BY <1>2, <1>3, SequencesList

\* What came last of its kind is what a reader of the list finds.
LEMMA LatestTold ==
    ASSUME NEW s, Listed(s), NEW e
    PROVE  LET told_ == Web!Of(e.kind, s) IN
           /\ Newest(s, e) => told_ # {} /\ s[Web!Latest(told_)] = e
           /\ Silent(s, e) => told_ = {}
<1> DEFINE told_ == Web!Of(e.kind, s)
<1>1. DOMAIN s \subseteq Int
  BY DEF Listed
<1>2. \A i : i \in told_ <=> i \in DOMAIN s /\ s[i].kind = e.kind
  BY DEF Web!Of
<1> HIDE DEF told_
<1>3. ASSUME Newest(s, e) PROVE told_ # {} /\ s[Web!Latest(told_)] = e
  <2>1. PICK i \in DOMAIN s : s[i] = e /\ \A j \in DOMAIN s : j > i => s[j].kind # e.kind
    BY <1>3 DEF Newest
  <2>2. i \in told_ /\ \A j \in told_ : j <= i
    BY <1>1, <1>2, <2>1
  <2> DEFINE last == Web!Latest(told_)
  <2>3. last \in told_ /\ \A j \in told_ : j <= last
    BY <2>2, Zenon DEF Web!Latest
  <2> HIDE DEF last
  <2>4. i <= last /\ last <= i /\ i \in Int /\ last \in Int
    BY <1>1, <1>2, <2>2, <2>3
  <2>5. last = i
    BY <2>4
  <2> QED BY <2>1, <2>2, <2>5 DEF last
<1>4. ASSUME Silent(s, e) PROVE told_ = {}
  BY <1>2, <1>4 DEF Silent
<1> QED BY <1>3, <1>4 DEF told_

\* What a push leaves: the list, and of what is pushed the head that fits.
LEMMA PushKeeps ==
    ASSUME NEW s, NEW e, Listed(s), Listed(e), Len(s) <= RingCap
    PROVE  LET r == Web!Push(s, e) IN
           /\ Listed(r) /\ Len(r) \in Nat /\ DOMAIN r = 1 .. Len(r) /\ Len(r) <= RingCap
           /\ Len(s) <= Len(r) /\ Len(r) <= Len(s) + Len(e)
           /\ \A i \in DOMAIN r : r[i] = IF i <= Len(s) THEN s[i] ELSE e[i - Len(s)]
           /\ e # <<>> /\ Len(s) < RingCap => Len(s) < Len(r)
<1> DEFINE S == {s[i] : i \in DOMAIN s} \cup {e[i] : i \in DOMAIN e}
           all == s \o e
           r == Web!Push(s, e)
<1>1. s \in Seq(S) /\ e \in Seq(S)
  BY DEF Listed
<1> HIDE DEF S
<1>2. /\ all \in Seq(S) /\ Len(s) \in Nat /\ Len(e) \in Nat /\ Len(all) = Len(s) + Len(e)
      /\ \A i \in 1 .. Len(s) + Len(e) : all[i] = IF i <= Len(s) THEN s[i] ELSE e[i - Len(s)]
  BY <1>1, ConcatProperties
<1>3. e # <<>> => Len(e) > 0
  BY <1>1
<1>4. r = IF Len(all) <= RingCap THEN all ELSE SubSeq(all, 1, RingCap)
  BY DEF Web!Push
<1> HIDE DEF all, r
<1>5. ASSUME NEW q \in Seq(S) PROVE Listed(q) /\ DOMAIN q = 1 .. Len(q) /\ Len(q) \in Nat
  <2>1. q = [i \in 1 .. Len(q) |-> q[i]] /\ DOMAIN q = 1 .. Len(q) /\ Len(q) \in Nat
    OBVIOUS
  <2>2. \A i \in 1 .. Len(q) : q[i] \in {q[j] : j \in DOMAIN q}
    BY <2>1
  <2> QED BY <2>1, <2>2 DEF Listed
<1>6. CASE Len(all) <= RingCap
  <2>1. r = all
    BY <1>4, <1>6
  <2>2. Listed(r) /\ DOMAIN r = 1 .. Len(r) /\ Len(r) \in Nat
    BY <1>2, <1>5, <2>1
  <2>3. e # <<>> /\ Len(s) < RingCap => Len(s) < Len(r)
    BY <1>2, <1>3, <2>1
  <2>4. /\ Len(r) <= RingCap /\ Len(s) <= Len(r) /\ Len(r) <= Len(s) + Len(e)
        /\ DOMAIN r = 1 .. Len(s) + Len(e)
    BY <1>2, <1>6, <2>1, <2>2
  <2>5. \A i \in DOMAIN r : r[i] = IF i <= Len(s) THEN s[i] ELSE e[i - Len(s)]
    BY <1>2, <2>1, <2>4
  <2> QED BY <2>2, <2>3, <2>4, <2>5 DEF r
<1>7. CASE ~(Len(all) <= RingCap)
  <2>0. RingCap \in Nat /\ RingCap < Len(all)
    BY <1>2, <1>7, RingsTake
  <2>1. r = SubSeq(all, 1, RingCap)
    BY <1>4, <1>7, Zenon
  <2>2. r \in Seq(S) /\ Len(r) = RingCap /\ \A i \in 1 .. RingCap : r[i] = all[i]
    <3>1. \A i \in 1 .. RingCap : i \in 1 .. Len(all)
      BY <1>2, <2>0
    <3>2. \A i \in 1 .. RingCap : all[i] \in S
      BY <1>2, <3>1
    <3>3. /\ SubSeq(all, 1, RingCap) \in Seq(S)
          /\ Len(SubSeq(all, 1, RingCap)) = IF 1 <= RingCap THEN RingCap - 1 + 1 ELSE 0
          /\ \A i \in 1 .. RingCap - 1 + 1 : SubSeq(all, 1, RingCap)[i] = all[1 + i - 1]
      BY <2>0, <3>2, SubSeqProperties
    <3>4. r \in Seq(S) /\ Len(r) = (IF 1 <= RingCap THEN RingCap - 1 + 1 ELSE 0)
          /\ \A i \in 1 .. RingCap - 1 + 1 : r[i] = all[1 + i - 1]
      BY <2>1, <3>3, Zenon
    <3>5. \A i \in 1 .. RingCap : i \in 1 .. RingCap - 1 + 1 /\ 1 + i - 1 = i
      BY <2>0
    <3>6. \A i \in 1 .. RingCap : r[i] = all[i]
      BY <3>4, <3>5
    <3> QED BY <2>0, <3>4, <3>6, RingsTake
  <2>3. Listed(r) /\ DOMAIN r = 1 .. RingCap
    BY <1>5, <2>2
  <2>4. \A i \in DOMAIN r : r[i] = IF i <= Len(s) THEN s[i] ELSE e[i - Len(s)]
    BY <1>2, <2>0, <2>2, <2>3
  <2>5. Len(s) <= RingCap /\ RingCap <= Len(s) + Len(e)
    BY <1>2, <2>0
  <2> QED BY <2>0, <2>2, <2>3, <2>4, <2>5 DEF r
<1> QED BY <1>6, <1>7

\* What is pushed says an entry last, if that is its head and fits, or leaves what the list says.
LEMMA NewestPushed ==
    ASSUME NEW s, NEW t, Listed(s), Listed(t), Len(s) <= RingCap, NEW e
    PROVE  /\ Silent(t, e) /\ Newest(s, e) => Newest(Web!Push(s, t), e)
           /\ Silent(t, e) /\ Silent(s, e) => Silent(Web!Push(s, t), e)
           /\ Len(s) < RingCap /\ t # <<>> /\ t[1] = e /\ (\A j \in DOMAIN t : j > 1 => t[j].kind # e.kind)
              => Newest(Web!Push(s, t), e)
<1> DEFINE r == Web!Push(s, t)
<1>1. /\ Len(r) \in Nat /\ DOMAIN r = 1 .. Len(r) /\ Len(s) <= Len(r) /\ Len(r) <= Len(s) + Len(t)
      /\ \A i \in DOMAIN r : r[i] = IF i <= Len(s) THEN s[i] ELSE t[i - Len(s)]
      /\ t # <<>> /\ Len(s) < RingCap => Len(s) < Len(r)
  BY PushKeeps
<1> HIDE DEF r
<1>2. Len(s) \in Nat /\ DOMAIN s = 1 .. Len(s) /\ Len(t) \in Nat /\ DOMAIN t = 1 .. Len(t)
  BY DEF Listed
<1>3. ASSUME NEW j \in DOMAIN r
      PROVE  /\ j \in Int
             /\ j <= Len(s) => j \in DOMAIN s /\ r[j] = s[j]
             /\ j > Len(s) => j - Len(s) \in DOMAIN t /\ r[j] = t[j - Len(s)]
  BY <1>1, <1>2
<1>4. ASSUME Silent(t, e), Newest(s, e) PROVE Newest(r, e)
  <2>1. PICK i \in DOMAIN s : s[i] = e /\ \A j \in DOMAIN s : j > i => s[j].kind # e.kind
    BY <1>4 DEF Newest
  <2>2. i \in DOMAIN r /\ i <= Len(s) /\ r[i] = s[i]
    BY <1>1, <1>2
  <2>3. ASSUME NEW j \in DOMAIN r, j > i PROVE r[j].kind # e.kind
    <3>1. CASE j <= Len(s)
      BY <1>3, <2>1, <2>3, <3>1
    <3>2. CASE j > Len(s)
      BY <1>3, <1>4, <3>2 DEF Silent
    <3> QED BY <1>2, <1>3, <3>1, <3>2
  <2> QED BY <2>1, <2>2, <2>3 DEF Newest
<1>5. ASSUME Silent(t, e), Silent(s, e) PROVE Silent(r, e)
  <2> SUFFICES ASSUME NEW j \in DOMAIN r PROVE r[j].kind # e.kind
    BY DEF Silent
  <2>1. CASE j <= Len(s)
    BY <1>3, <1>5, <2>1 DEF Silent
  <2>2. CASE j > Len(s)
    BY <1>3, <1>5, <2>2 DEF Silent
  <2> QED BY <1>2, <1>3, <2>1, <2>2
<1>6. ASSUME Len(s) < RingCap, t # <<>>, t[1] = e, \A j \in DOMAIN t : j > 1 => t[j].kind # e.kind
      PROVE  Newest(r, e)
  <2> DEFINE i == Len(s) + 1
  <2>1. i \in DOMAIN r /\ i > Len(s) /\ i - Len(s) = 1
    BY <1>1, <1>2, <1>6
  <2>2. r[i] = t[1]
    BY <1>3, <2>1
  <2>3. ASSUME NEW j \in DOMAIN r, j > i PROVE r[j].kind # e.kind
    <3>1. j > Len(s) /\ j - Len(s) > 1
      BY <1>2, <1>3, <2>3
    <3> QED BY <1>3, <1>6, <3>1
  <2> HIDE DEF i
  <2> QED BY <1>6, <2>1, <2>2, <2>3 DEF Newest
<1> QED BY <1>4, <1>5, <1>6 DEF r

\* One step of the processor's render keeps its latency the dry signal's and its own.
LEMMA RenderedLatency ==
    ASSUME NEW m, NEW entries, OneLatency(m), Optional(m.accepted)
    PROVE  LET r == Web!Played(Web!Proposes(Web!Named(Web!Synced(Web!Received(Web!Landed(m), entries))))) IN
           /\ OneLatency(r) /\ Optional(r.accepted)
           /\ r.latency = IF m.accepted = None THEN m.latency ELSE m.accepted
<1> DEFINE Same(a, b) == OneLatency(b) /\ b.latency = a.latency
           m0 == Web!Landed(m)
           m1 == Web!Received(m0, entries)
           m2 == Web!Synced(m1)
           m3 == Web!Named(m2)
           m4 == Web!Proposes(m3)
           r == Web!Played(m4)
<1>1. OneLatency(m0) /\ m0.latency = IF m.accepted = None THEN m.latency ELSE m.accepted
  <2>1. CASE m.accepted = None
    BY <2>1 DEF Web!Landed
  <2>2. CASE m.accepted # None
    <3>1. m.accepted <= m.bypass.max
      BY <2>2 DEF OneLatency, Optional
    <3>2. /\ {"params", "kernel", "bypass", "sync", "names", "latency", "accepted", "hostReset", "notes"} \subseteq DOMAIN m0
          /\ m0.kernel = Web!Adopt(m.kernel, m.accepted) /\ m0.bypass = Web!SetLatency(m.bypass, m.accepted)
          /\ m0.latency = m.accepted
      BY <2>2 DEF OneLatency, Web!Landed
    <3> HIDE DEF m0
    <3> QED BY <2>2, <3>1, <3>2 DEF OneLatency, Web!Adopt, Web!SetLatency
  <2> QED BY <2>1, <2>2
<1> HIDE DEF m0
<1>2. Same(m0, m1)
  BY <1>1 DEF OneLatency, Web!Received, Web!SetBypassed
<1> HIDE DEF m1
<1>3. Same(m0, m2)
  <2> DEFINE plan == Web!SyncPlan(m1.sync, Web!FactsOf(m1))
             n == [m1 EXCEPT !.sync = Web!SyncNext(@, Web!FactsOf(m1)), !.hostReset = FALSE,
                             !.kernel = IF plan = "none" THEN @ ELSE Web!Restart(@, m1.params)]
  <2>1. m2 = IF plan # "stream" THEN n ELSE [n EXCEPT !.names = {}, !.bypass = Web!Snap(@)]
    BY Zenon DEF Web!Synced, m2, n, plan
  <2> HIDE DEF plan, m2
  <2>2. Same(m0, n)
    BY <1>2 DEF OneLatency, Web!Restart
  <2> HIDE DEF n
  <2> QED BY <2>1, <2>2 DEF OneLatency, Web!Snap
<1> HIDE DEF m2
<1>4. Same(m0, m3)
  BY <1>3 DEF OneLatency, Web!Named
<1> HIDE DEF m3
<1>5. Same(m0, m4) /\ Optional(m4.accepted)
  <2> DEFINE wants == IF Web!CanSkip(m3.bypass) THEN None ELSE Web!Proposal(m3.kernel)
             takes == wants # None /\ Web!Admits(m3.bypass, wants) /\ wants # m3.latency
  <2>1. m4 = [m3 EXCEPT !.accepted = IF takes THEN wants ELSE None]
    BY Zenon DEF Web!Proposes, m4, wants, takes
  <2>2. takes => wants <= m3.bypass.max
    BY DEF Web!Admits
  <2> HIDE DEF wants, takes, m4
  <2> QED BY <1>4, <2>1, <2>2 DEF OneLatency, Optional
<1> HIDE DEF m4
<1>6. Same(m0, r) /\ r.accepted = m4.accepted
  BY <1>5 DEF OneLatency, Web!Played, Web!Miss, Web!Hear, Web!BypassProcessed
<1> HIDE DEF r
<1>7. OneLatency(r) /\ Optional(r.accepted) /\ r.latency = IF m.accepted = None THEN m.latency ELSE m.accepted
  BY <1>1, <1>5, <1>6
<1> QED BY <1>7 DEF r, m4, m3, m2, m1, m0

\* What a wire says last is not lost where its lists move on: an entry at a time, as a post, or a post that lands.
LEMMA WireMoves ==
    ASSUME NEW e, NEW in, NEW between, NEW out, Listed(in), Listed(out), Listed(between),
           \A p \in DOMAIN between : Listed(between[p])
    PROVE  /\ in # <<>> /\ between = <<>> =>
              /\ Underway(e, in, between, out) => Underway(e, Tail(in), between, out \o <<Head(in)>>)
              /\ Unsaid(e, in, between, out) => Unsaid(e, Tail(in), between, out \o <<Head(in)>>)
           /\ Underway(e, in, between, out) => Underway(e, <<>>, Append(between, in), out)
           /\ Unsaid(e, in, between, out) => Unsaid(e, <<>>, Append(between, in), out)
           /\ between # <<>> =>
              /\ Underway(e, in, between, out) => Underway(e, in, Tail(between), out \o Head(between))
              /\ Unsaid(e, in, between, out) => Unsaid(e, in, Tail(between), out \o Head(between))
<1> DEFINE S == {between[i] : i \in DOMAIN between} \cup {in}
           Between(posts_) == \E p \in DOMAIN posts_ : Newest(posts_[p], e) /\ \A q \in DOMAIN posts_ : q > p => Silent(posts_[q], e)
           Nothing(posts_) == \A q \in DOMAIN posts_ : Silent(posts_[q], e)
<1>0. between \in Seq(S) /\ in \in S
  BY DEF Listed
<1> HIDE DEF S
<1>1. Len(between) \in Nat /\ DOMAIN between = 1 .. Len(between)
  BY <1>0
<1>2. ASSUME in # <<>>, between = <<>>
      PROVE  /\ Underway(e, in, between, out) => Underway(e, Tail(in), between, out \o <<Head(in)>>)
             /\ Unsaid(e, in, between, out) => Unsaid(e, Tail(in), between, out \o <<Head(in)>>)
  <2> DEFINE h == <<Head(in)>>
             t == Tail(in)
  <2>1. Listed(h) /\ Listed(t) /\ in = h \o t
    BY <1>2, HeadFirst
  <2> HIDE DEF h, t
  <2>2. /\ Newest(in, e) <=> Newest(t, e) \/ (Silent(t, e) /\ Newest(h, e))
        /\ Silent(in, e) <=> Silent(t, e) /\ Silent(h, e)
    BY <2>1, NewestMoves
  <2>3. /\ Newest(out \o h, e) <=> Newest(h, e) \/ (Silent(h, e) /\ Newest(out, e))
        /\ Silent(out \o h, e) <=> Silent(h, e) /\ Silent(out, e)
    BY <2>1, NewestMoves
  <2>4. DOMAIN between = {}
    BY <1>2
  <2> QED BY <2>2, <2>3, <2>4 DEF Underway, Unsaid, h, t
<1>3. /\ Underway(e, in, between, out) => Underway(e, <<>>, Append(between, in), out)
      /\ Unsaid(e, in, between, out) => Unsaid(e, <<>>, Append(between, in), out)
  <2> DEFINE n == Len(between) + 1
             t == Append(between, in)
  <2>1. DOMAIN t = 1 .. n /\ t[n] = in /\ \A p \in DOMAIN between : p \in DOMAIN t /\ t[p] = between[p]
    BY <1>0, <1>1, AppendProperties
  <2> HIDE DEF t
  <2>2. ASSUME NEW q \in DOMAIN t PROVE (q \in DOMAIN between /\ t[q] = between[q]) \/ (q = n /\ t[q] = in)
    BY <1>1, <2>1
  <2>3. Silent(<<>>, e)
    BY DEF Silent
  <2>4. ASSUME Newest(in, e) PROVE Between(t)
    <3>1. n \in DOMAIN t /\ \A q \in DOMAIN t : ~(q > n)
      BY <1>1, <2>1
    <3> QED BY <2>1, <2>4, <3>1
  <2>5. ASSUME Silent(in, e), Between(between) PROVE Between(t)
    <3>1. PICK p \in DOMAIN between : Newest(between[p], e) /\ \A q \in DOMAIN between : q > p => Silent(between[q], e)
      BY <2>5
    <3>2. \A q \in DOMAIN t : q > p => Silent(t[q], e)
      BY <2>2, <2>5, <3>1
    <3> QED BY <2>1, <3>1, <3>2
  <2>6. ASSUME Silent(in, e), Nothing(between) PROVE Nothing(t)
    BY <2>2, <2>6
  <2> HIDE DEF n
  <2> QED BY <2>3, <2>4, <2>5, <2>6 DEF Underway, Unsaid, t
<1>4. ASSUME between # <<>>
      PROVE  /\ Underway(e, in, between, out) => Underway(e, in, Tail(between), out \o Head(between))
             /\ Unsaid(e, in, between, out) => Unsaid(e, in, Tail(between), out \o Head(between))
  <2> DEFINE h == Head(between)
             t == Tail(between)
  <2>1. /\ 1 \in DOMAIN between /\ h = between[1]
        /\ DOMAIN t = 1 .. Len(between) - 1 /\ \A q \in 1 .. Len(between) - 1 : t[q] = between[q + 1]
    BY <1>0, <1>1, <1>4, HeadTailProperties
  <2> HIDE DEF h, t
  <2>2. ASSUME NEW q \in DOMAIN t PROVE q + 1 \in DOMAIN between /\ q + 1 > 1 /\ t[q] = between[q + 1] /\ q \in Int
    BY <1>1, <2>1
  <2>3. /\ Newest(out \o h, e) <=> Newest(h, e) \/ (Silent(h, e) /\ Newest(out, e))
        /\ Silent(out \o h, e) <=> Silent(h, e) /\ Silent(out, e)
    <3>1. Listed(h)
      BY <2>1
    <3> QED BY <3>1, NewestMoves
  <2>4. ASSUME Nothing(between) PROVE Nothing(t) /\ Silent(h, e)
    BY <2>1, <2>2, <2>4
  <2>5. ASSUME Between(between) PROVE Between(t) \/ (Nothing(t) /\ Newest(h, e))
    <3>1. PICK p \in DOMAIN between : Newest(between[p], e) /\ \A q \in DOMAIN between : q > p => Silent(between[q], e)
      BY <2>5
    <3>2. CASE p = 1
      BY <2>1, <2>2, <3>1, <3>2
    <3>3. CASE p # 1
      <4>1. p - 1 \in DOMAIN t /\ t[p - 1] = between[p]
        BY <1>1, <2>1, <3>3
      <4>2. ASSUME NEW q \in DOMAIN t, q > p - 1 PROVE Silent(t[q], e)
        <5>1. q + 1 > p
          BY <1>1, <2>2, <4>2
        <5> QED BY <2>2, <3>1, <5>1
      <4> QED BY <3>1, <4>1, <4>2
    <3> QED BY <3>2, <3>3
  <2> QED BY <2>3, <2>4, <2>5 DEF Underway, Unsaid, h, t
<1> QED BY <1>2, <1>3, <1>4

\* Posts are lists, when one more goes out and when the oldest has landed.
LEMMA PostsListed ==
    ASSUME NEW between, Listed(between), \A p \in DOMAIN between : Listed(between[p])
    PROVE  /\ \A s : Listed(s) => /\ Listed(Append(between, s))
                                  /\ \A p \in DOMAIN Append(between, s) : Listed(Append(between, s)[p])
           /\ between # <<>> => /\ Listed(Head(between)) /\ Listed(Tail(between))
                                /\ \A p \in DOMAIN Tail(between) : Listed(Tail(between)[p])
<1>1. ASSUME NEW s, Listed(s)
      PROVE  Listed(Append(between, s)) /\ \A p \in DOMAIN Append(between, s) : Listed(Append(between, s)[p])
  <2> DEFINE S == {between[i] : i \in DOMAIN between} \cup {s}
             t == Append(between, s)
  <2>1. between \in Seq(S) /\ s \in S
    BY DEF Listed
  <2> HIDE DEF S
  <2>2. t \in Seq(S) /\ DOMAIN t = 1 .. Len(between) + 1 /\ DOMAIN between = 1 .. Len(between) /\ Len(between) \in Nat
        /\ t[Len(between) + 1] = s /\ \A p \in 1 .. Len(between) : t[p] = between[p]
    BY <2>1, AppendProperties
  <2> HIDE DEF t
  <2>3. ASSUME NEW p \in DOMAIN t PROVE Listed(t[p])
    <3>1. p \in DOMAIN between \/ p = Len(between) + 1
      BY <2>2
    <3> QED BY <1>1, <2>2, <3>1
  <2>4. Listed(t)
    BY <2>2, SequencesList
  <2> QED BY <2>3, <2>4 DEF t
<1>2. ASSUME between # <<>>
      PROVE  Listed(Head(between)) /\ Listed(Tail(between)) /\ \A p \in DOMAIN Tail(between) : Listed(Tail(between)[p])
  <2> DEFINE S == {between[i] : i \in DOMAIN between}
             t == Tail(between)
  <2>1. between \in Seq(S)
    BY DEF Listed
  <2> HIDE DEF S
  <2>2. /\ t \in Seq(S) /\ DOMAIN between = 1 .. Len(between) /\ Len(between) \in Nat /\ 1 \in DOMAIN between
        /\ Head(between) = between[1] /\ DOMAIN t = 1 .. Len(between) - 1
        /\ \A q \in 1 .. Len(between) - 1 : t[q] = between[q + 1]
    BY <1>2, <2>1, HeadTailProperties
  <2> HIDE DEF t
  <2>3. ASSUME NEW p \in DOMAIN t PROVE Listed(t[p])
    <3>1. p + 1 \in DOMAIN between /\ t[p] = between[p + 1]
      BY <2>2
    <3> QED BY <3>1
  <2>4. Listed(t)
    BY <2>2, SequencesList
  <2> QED BY <2>2, <2>3, <2>4 DEF t
<1> QED BY <1>1, <1>2

LEMMA WebLatencies == Web!Init /\ [][Web!Next]_(Web!webVars) => []WebLatency
<1>1. Web!Init => WebLatency
  <2> SUFFICES ASSUME Web!Init PROVE WebLatency
    OBVIOUS
  <2> DEFINE e == [kind |-> "latency", samples |-> Web!Latency(0)]
  <2>1. /\ processor = Web!Module(0) /\ outbound = <<e>> /\ upPosts = <<>> /\ toMain = <<>>
    BY DEF Web!Init
  <2>2. Web!Latency(0) = 0 /\ 0 <= Top
    BY Longest, WebLongest, LatenciesBounded DEF Web!Latency
  <2>3. OneLatency(processor) /\ processor.latency = 0 /\ processor.accepted = None
    <3> DEFINE b == Web!BypassConfigured(Web!NewBypass, Web!MaxLatency, Web!Latency(0))
    <3>1. {"latency", "max"} \subseteq DOMAIN b /\ b.latency = 0 /\ b.max = Top
      BY <2>2, Longest, WebLongest DEF Web!BypassConfigured, Web!SetLatency, Web!Snap, Web!NewBypass
    <3> HIDE DEF b
    <3> QED BY <2>1, <2>2, <3>1 DEF Web!Module, OneLatency, Web!Configure, b
  <2> HIDE DEF e
  <2>4. /\ DOMAIN outbound = {1} /\ outbound[1] = e /\ Len(outbound) = 1 /\ DOMAIN upPosts = {}
    BY <2>1
  <2>5. e = LatencyEntry(0)
    BY <2>2 DEF e, LatencyEntry
  <2>6. Newest(outbound, LatencyEntry(0))
    BY <2>4, <2>5 DEF Newest
  <2> QED BY <2>1, <2>3, <2>4, <2>6, Lists, RingsTake DEF WebLatency, SaysLast, Underway, Optional
<1>2. WebLatency /\ [Web!Next]_(Web!webVars) => WebLatency'
  <2> SUFFICES ASSUME WebLatency, [Web!Next]_(Web!webVars) PROVE WebLatency'
    OBVIOUS
  <2> DEFINE v == processor.latency
             s == LatencyEntry(v)
  <2>0. s.kind = "latency" /\ s.samples = v
    BY DEF LatencyEntry
  <2>1. ASSUME UNCHANGED <<processor, outbound, upPosts, toMain, linked, lostUp, shown>> PROVE WebLatency'
    BY <2>1 DEF WebLatency, SaysLast, Underway, Unsaid
  <2>2. ASSUME NEW meter \in BOOLEAN, Web!Render(meter) PROVE WebLatency'
    <3> DEFINE more == IF meter THEN <<[kind |-> "meter"]>> ELSE <<>>
               e == Web!Told \o more
               say == [kind |-> "latency", samples |-> processor.accepted]
    <3>1. /\ processor' = Web!Played(Web!Proposes(Web!Named(Web!Synced(Web!Received(Web!Landed(processor),
                                      inbound \o SubSeq(landing, 1, Web!Fitting))))))
          /\ outbound' = Web!Push(outbound, e) /\ lostUp' = (lostUp \/ (Web!Told # <<>> /\ ~Web!Room(outbound)))
          /\ UNCHANGED <<linked, shown, upPosts, toMain>>
      BY <2>2, Zenon DEF Web!Render
    <3>2. /\ OneLatency(processor') /\ Optional(processor'.accepted)
          /\ processor'.latency = IF processor.accepted = None THEN v ELSE processor.accepted
      BY <3>1, RenderedLatency DEF WebLatency
    <3>3. /\ Listed(more) /\ Silent(more, s) /\ Listed(Web!Told)
      <4>1. Listed(more) /\ Listed(Web!Told)
        BY Lists DEF Web!Told
      <4>2. \A i \in DOMAIN more : more[i].kind = "meter"
        OBVIOUS
      <4> HIDE DEF s
      <4> QED BY <2>0, <4>1, <4>2 DEF Silent
    <3>4. Listed(e)
      BY <3>3, Lists, Zenon
    <3> HIDE DEF more
    <3>5. Listed(outbound') /\ Len(outbound') <= RingCap
      BY <3>1, <3>4, PushKeeps DEF WebLatency
    <3>6. ASSUME ~lostUp' PROVE SaysLast(processor.latency)'
      <4>0. SaysLast(v)
        BY <3>1, <3>6 DEF WebLatency
      <4>1. CASE processor.accepted = None
        <5>1. Web!Told = <<>> /\ processor'.latency = v
          BY <3>2, <4>1 DEF Web!Told
        <5>2. Silent(e, s)
          <6>1. Silent(<<>>, s) /\ Listed(<<>>)
            BY Lists DEF Silent
          <6> HIDE DEF s
          <6>2. Silent(<<>> \o more, s)
            BY <3>3, <6>1, NewestMoves
          <6> QED BY <5>1, <6>2
        <5> HIDE DEF e
        <5>3. (Newest(outbound, s) => Newest(outbound', s)) /\ (Silent(outbound, s) => Silent(outbound', s))
          BY <3>1, <3>4, <5>2, NewestPushed DEF WebLatency
        <5>4. processor'.latency = v /\ UNCHANGED <<shown, upPosts, toMain>>
          BY <3>1, <5>1
        <5> HIDE DEF v
        <5> QED BY <4>0, <5>3, <5>4 DEF SaysLast, Underway, Unsaid, s
      <4>2. CASE processor.accepted # None
        <5>1. Web!Told = <<say>> /\ processor'.latency = processor.accepted
          BY <3>2, <4>2 DEF Web!Told
        <5>2. Len(outbound) < RingCap
          <6>1. Web!Told # <<>>
            BY <5>1
          <6> QED BY <3>1, <3>6, <6>1 DEF Web!Room
        <5>3. e # <<>> /\ e[1] = say /\ \A j \in DOMAIN e : j > 1 => e[j].kind # "latency"
          <6> DEFINE S == {say} \cup {more[i] : i \in DOMAIN more}
          <6>1. <<say>> \in Seq(S) /\ more \in Seq(S) /\ Len(<<say>>) = 1 /\ <<say>>[1] = say
            BY <3>3 DEF Listed
          <6> HIDE DEF S, say
          <6>2. /\ e \in Seq(S) /\ Len(e) = 1 + Len(more) /\ Len(more) \in Nat
                /\ \A i \in 1 .. 1 + Len(more) : e[i] = IF i <= 1 THEN <<say>>[i] ELSE more[i - 1]
            BY <5>1, <6>1, ConcatProperties
          <6> HIDE DEF e
          <6>3. DOMAIN e = 1 .. 1 + Len(more) /\ DOMAIN more = 1 .. Len(more) /\ e # <<>> /\ e[1] = <<say>>[1]
            BY <6>1, <6>2
          <6>4. ASSUME NEW j \in DOMAIN e, j > 1 PROVE e[j].kind # "latency"
            <7>1. j - 1 \in DOMAIN more /\ e[j] = more[j - 1]
              BY <6>2, <6>3, <6>4
            <7> QED BY <2>0, <3>3, <7>1 DEF Silent
          <6> QED BY <6>1, <6>3, <6>4
        <5>4. say = LatencyEntry(processor.accepted) /\ say.kind = "latency"
          BY DEF LatencyEntry
        <5> HIDE DEF e, say
        <5>5. Newest(Web!Push(outbound, e), say)
          BY <3>4, <5>2, <5>3, <5>4, NewestPushed DEF WebLatency
        <5>6. Newest(outbound', LatencyEntry(processor'.latency))
          BY <3>1, <5>1, <5>4, <5>5 DEF e
        <5> QED BY <5>6 DEF SaysLast, Underway
      <4> QED BY <4>1, <4>2
    <3> QED BY <3>1, <3>2, <3>5, <3>6 DEF WebLatency
  <2>3. ASSUME NEW w \in Values, Web!SetParam(w) PROVE WebLatency'
    BY <2>3, <2>1 DEF Web!SetParam, Web!Sent, Web!upward
  <2>4. ASSUME NEW on \in BOOLEAN, Web!SetBypass(on) PROVE WebLatency'
    BY <2>4, <2>1 DEF Web!SetBypass, Web!Sent, Web!upward
  <2>5. ASSUME NEW note, Web!Midi(note) PROVE WebLatency'
    BY <2>5, <2>1 DEF Web!Midi, Web!Sent, Web!upward
  <2>6. CASE Web!HostReset \/ Web!PumpDown \/ Web!PostDown \/ Web!Land
    BY <2>6, <2>1 DEF Web!HostReset, Web!Sent, Web!PumpDown, Web!PostDown, Web!Land, Web!carried, Web!upward
  <2>7. CASE Web!Tick
    <3> DEFINE told_ == Web!Of("latency", toMain)
    <3>1. /\ toMain' = <<>> /\ shown' = (IF told_ = {} THEN shown ELSE toMain[Web!Latest(told_)].samples)
          /\ UNCHANGED <<processor, outbound, upPosts, linked, lostUp>>
      BY <2>7 DEF Web!Tick
    <3>2. Silent(toMain', s) /\ Listed(toMain')
      BY <3>1, Lists DEF Silent
    <3>3. /\ Newest(toMain, s) => told_ # {} /\ toMain[Web!Latest(told_)] = s
          /\ Silent(toMain, s) => told_ = {}
      BY <2>0, LatestTold DEF WebLatency
    <3> HIDE DEF told_
    <3>4. (Newest(toMain, s) => shown' = v) /\ (Silent(toMain, s) => shown' = shown)
      BY <2>0, <3>1, <3>3
    <3>5. ~lostUp' => SaysLast(v)'
      <4> SUFFICES ASSUME ~lostUp' PROVE SaysLast(v)'
        OBVIOUS
      <4>1. SaysLast(v) /\ v' = v
        BY <3>1 DEF WebLatency
      <4> HIDE DEF v
      <4> QED BY <3>1, <3>2, <3>4, <4>1 DEF SaysLast, Underway, Unsaid, s
    <3> QED BY <3>1, <3>2, <3>5 DEF WebLatency
  <2>8. CASE Web!PumpUp
    <3>1. /\ ~linked /\ outbound # <<>> /\ toMain' = Append(toMain, Head(outbound)) /\ outbound' = Tail(outbound)
          /\ UNCHANGED <<processor, upPosts, linked, lostUp, shown>> /\ upPosts = <<>>
      BY <2>8 DEF Web!PumpUp, Web!carried, WebLatency
    <3>2. Listed(toMain') /\ Listed(outbound') /\ Len(outbound') <= RingCap
      BY <3>1, Lists, HeadFirst, RingsTake DEF WebLatency
    <3>3. toMain' = toMain \o <<Head(outbound)>>
      <4> DEFINE S == {toMain[i] : i \in DOMAIN toMain} \cup {Head(outbound)}
      <4>1. toMain \in Seq(S) /\ Head(outbound) \in S
        BY DEF WebLatency, Listed
      <4> HIDE DEF S
      <4> QED BY <3>1, <4>1, AppendIsConcat
    <3>4. /\ Underway(s, outbound, upPosts, toMain) => Underway(s, Tail(outbound), upPosts, toMain \o <<Head(outbound)>>)
          /\ Unsaid(s, outbound, upPosts, toMain) => Unsaid(s, Tail(outbound), upPosts, toMain \o <<Head(outbound)>>)
      BY <3>1, WireMoves DEF WebLatency
    <3>5. ASSUME ~lostUp' PROVE SaysLast(v)'
      <4>1. SaysLast(v) /\ v' = v
        BY <3>1, <3>5 DEF WebLatency
      <4> HIDE DEF v
      <4> QED BY <3>1, <3>3, <3>4, <4>1 DEF SaysLast, s
    <3> QED BY <3>1, <3>2, <3>5 DEF WebLatency
  <2>9. CASE Web!PostUp
    <3>1. /\ linked /\ outbound # <<>> /\ upPosts' = Append(upPosts, outbound) /\ outbound' = <<>>
          /\ UNCHANGED <<processor, toMain, linked, lostUp, shown>>
      BY <2>9 DEF Web!PostUp, Web!carried
    <3>2. /\ Listed(outbound') /\ Len(outbound') = 0
          /\ Listed(upPosts') /\ \A p \in DOMAIN upPosts' : Listed(upPosts'[p])
      BY <3>1, Lists, PostsListed DEF WebLatency
    <3>3. /\ Underway(s, outbound, upPosts, toMain) => Underway(s, <<>>, Append(upPosts, outbound), toMain)
          /\ Unsaid(s, outbound, upPosts, toMain) => Unsaid(s, <<>>, Append(upPosts, outbound), toMain)
      BY WireMoves DEF WebLatency
    <3>4. ASSUME ~lostUp' PROVE SaysLast(v)'
      <4>1. SaysLast(v) /\ v' = v
        BY <3>1, <3>4 DEF WebLatency
      <4> HIDE DEF v
      <4> QED BY <3>1, <3>3, <4>1 DEF SaysLast, s
    <3> QED BY <3>1, <3>2, <3>4, RingsTake DEF WebLatency
  <2>10. CASE Web!LandUp
    <3> DEFINE h == Head(upPosts)
               fits == Len(toMain) + Len(h) <= RingCap + LandingCap
    <3>1. /\ upPosts # <<>> /\ upPosts' = Tail(upPosts) /\ lostUp' = (lostUp \/ ~fits)
          /\ toMain' = (IF fits THEN toMain \o h ELSE toMain)
          /\ UNCHANGED <<processor, outbound, linked, shown>>
      BY <2>10 DEF Web!LandUp, Web!carried
    <3>2. /\ Listed(h) /\ Listed(upPosts') /\ (\A p \in DOMAIN upPosts' : Listed(upPosts'[p]))
          /\ ~linked' => upPosts' = <<>>
      BY <3>1, PostsListed DEF WebLatency
    <3>3. Listed(toMain')
      BY <3>1, <3>2, Lists DEF WebLatency
    <3>4. /\ Underway(s, outbound, upPosts, toMain) => Underway(s, outbound, Tail(upPosts), toMain \o h)
          /\ Unsaid(s, outbound, upPosts, toMain) => Unsaid(s, outbound, Tail(upPosts), toMain \o h)
      BY <3>1, WireMoves DEF WebLatency
    <3>5. ASSUME ~lostUp' PROVE SaysLast(v)'
      <4>1. SaysLast(v) /\ v' = v /\ toMain' = toMain \o h
        BY <3>1, <3>5 DEF WebLatency
      <4> HIDE DEF v, h
      <4> QED BY <3>1, <3>4, <4>1 DEF SaysLast, s
    <3> QED BY <3>1, <3>2, <3>3, <3>5 DEF WebLatency
  <2>11. CASE UNCHANGED Web!webVars
    BY <2>11, <2>1 DEF Web!webVars, Web!upward
  <2> QED BY <2>2, <2>3, <2>4, <2>5, <2>6, <2>7, <2>8, <2>9, <2>10, <2>11 DEF Web!Next
<1> QED BY <1>1, <1>2, PTL

LEMMA WebSaysOne == WebLatency => Web!LatencyAgrees
<1> SUFFICES ASSUME WebLatency PROVE Web!LatencyAgrees
  OBVIOUS
<1>1. processor.kernel.latency = processor.latency /\ processor.bypass.latency = processor.latency
  BY DEF WebLatency, OneLatency
<1>2. ASSUME outbound \o toMain = <<>>, upPosts = <<>>, ~lostUp PROVE shown = processor.latency
  <2> DEFINE S == {outbound[i] : i \in DOMAIN outbound} \cup {toMain[i] : i \in DOMAIN toMain}
  <2>1. outbound \in Seq(S) /\ toMain \in Seq(S)
    BY DEF WebLatency, Listed
  <2> HIDE DEF S
  <2>2. Len(outbound) + Len(toMain) = 0 /\ Len(outbound) \in Nat /\ Len(toMain) \in Nat
    BY <1>2, <2>1, ConcatProperties
  <2>3. DOMAIN outbound = {} /\ DOMAIN toMain = {} /\ DOMAIN upPosts = {}
    BY <1>2, <2>1, <2>2
  <2>4. SaysLast(processor.latency)
    BY <1>2 DEF WebLatency
  <2> QED BY <2>3, <2>4 DEF SaysLast, Underway, Newest
<1> QED BY <1>1, <1>2 DEF Web!LatencyAgrees

\* What the page's controller holds is what its processor goes by, or is said last on the way down to it.
ValueEntry(v) == [kind |-> "param", value |-> v]
BypassEntry(on) == [kind |-> "bypass", on |-> on]
TellsDown ==
    LET e == ValueEntry(host.value)
        b == BypassEntry(host.bypassed)
    IN /\ \/ Underway(e, down, posts, inbound \o landing)
          \/ Unsaid(e, down, posts, inbound \o landing) /\ processor.params = host.value
       /\ \/ Underway(b, down, posts, inbound \o landing)
          \/ Unsaid(b, down, posts, inbound \o landing) /\ processor.bypass.wanted = host.bypassed

\* The processor module renders with the parameter it holds.
OneValue(m) ==
    /\ {"params", "kernel", "bypass", "sync", "names", "latency", "accepted", "hostReset", "notes"} \subseteq DOMAIN m
    /\ {"value", "voices", "latency", "past"} \subseteq DOMAIN m.kernel /\ {"wanted", "now", "fade"} \subseteq DOMAIN m.bypass
    /\ m.kernel.value = m.params

\* Until the wire drops it, what the page set is on its way to the processor, with nothing older behind it.
WebValues ==
    /\ OneValue(processor) /\ {"value", "bypassed"} \subseteq DOMAIN host
    /\ Listed(down) /\ Len(down) <= RingCap /\ Listed(inbound) /\ Len(inbound) <= RingCap /\ Listed(landing)
    /\ Listed(posts) /\ \A p \in DOMAIN posts : Listed(posts[p])
    /\ ~linked => posts = <<>> /\ landing = <<>>
    /\ ~lostDown => TellsDown

\* A block takes what it received last of the parameter and of the bypass, and goes on with what it held otherwise.
LEMMA RenderedValue ==
    ASSUME NEW m, NEW entries, OneValue(m), Listed(entries), NEW v, NEW on
    PROVE  LET r == Web!Played(Web!Proposes(Web!Named(Web!Synced(Web!Received(Web!Landed(m), entries))))) IN
           /\ OneValue(r)
           /\ Newest(entries, ValueEntry(v)) => r.params = v
           /\ Silent(entries, ValueEntry(v)) => r.params = m.params
           /\ Newest(entries, BypassEntry(on)) => r.bypass.wanted = on
           /\ Silent(entries, BypassEntry(on)) => r.bypass.wanted = m.bypass.wanted
<1> DEFINE Same(a, b) == OneValue(b) /\ b.params = a.params /\ b.bypass.wanted = a.bypass.wanted
           m0 == Web!Landed(m)
           m1 == Web!Received(m0, entries)
           m2 == Web!Synced(m1)
           m3 == Web!Named(m2)
           m4 == Web!Proposes(m3)
           r == Web!Played(m4)
           Fields(x) == /\ {"params", "kernel", "bypass", "sync", "names", "latency", "accepted", "hostReset", "notes"} \subseteq DOMAIN x
                        /\ {"value", "voices", "latency", "past"} \subseteq DOMAIN x.kernel
                        /\ {"wanted", "now", "fade"} \subseteq DOMAIN x.bypass
<1>1. Same(m, m0)
  BY DEF OneValue, Web!Landed, Web!Adopt, Web!SetLatency
<1> HIDE DEF m0
<1>2. /\ Fields(m1)
      /\ Newest(entries, ValueEntry(v)) => m1.params = v
      /\ Silent(entries, ValueEntry(v)) => m1.params = m.params
      /\ Newest(entries, BypassEntry(on)) => m1.bypass.wanted = on
      /\ Silent(entries, BypassEntry(on)) => m1.bypass.wanted = m.bypass.wanted
  <2> DEFINE e == ValueEntry(v)
             b == BypassEntry(on)
             sets == Web!Of("param", entries)
             flags == Web!Of("bypass", entries)
             value == entries[Web!Latest(sets)].value
             flag == entries[Web!Latest(flags)].on
             p == IF sets = {} THEN m0.params ELSE value
             q == IF flags = {} THEN m0.bypass ELSE Web!SetBypassed(m0.bypass, flag)
  <2>1. e.kind = "param" /\ e.value = v /\ b.kind = "bypass" /\ b.on = on
    BY DEF ValueEntry, BypassEntry
  <2> HIDE DEF e, b
  <2>2. /\ Newest(entries, e) => sets # {} /\ value = v
        /\ Silent(entries, e) => sets = {}
    BY <2>1, LatestTold
  <2>3. /\ Newest(entries, b) => flags # {} /\ flag = on
        /\ Silent(entries, b) => flags = {}
    BY <2>1, LatestTold
  <2>4. Fields(m0)
    BY <1>1 DEF OneValue
  <2>5. \E x, y : m1 = [m0 EXCEPT !.params = p, !.bypass = q, !.hostReset = x, !.notes = y]
    BY Zenon DEF Web!Received, m1, p, q, sets, flags, value, flag
  <2> HIDE DEF m1, sets, flags, value, flag
  <2>6. /\ "wanted" \in DOMAIN q /\ {"now", "fade"} \subseteq DOMAIN q
        /\ q.wanted = IF flags = {} THEN m0.bypass.wanted ELSE flag
    BY <2>4 DEF Web!SetBypassed
  <2> HIDE DEF p, q
  <2>7. Fields(m1) /\ m1.params = p /\ m1.bypass = q
    BY <2>4, <2>5, <2>6
  <2>8. /\ m1.params = IF sets = {} THEN m.params ELSE value
        /\ m1.bypass.wanted = IF flags = {} THEN m.bypass.wanted ELSE flag
    BY <1>1, <2>6, <2>7 DEF p
  <2> QED BY <2>2, <2>3, <2>7, <2>8 DEF e, b
<1> HIDE DEF m1
<1>3. Fields(m2) /\ m2.params = m1.params /\ m2.bypass.wanted = m1.bypass.wanted
  <2> DEFINE plan == Web!SyncPlan(m1.sync, Web!FactsOf(m1))
             n == [m1 EXCEPT !.sync = Web!SyncNext(@, Web!FactsOf(m1)), !.hostReset = FALSE,
                             !.kernel = IF plan = "none" THEN @ ELSE Web!Restart(@, m1.params)]
  <2>1. m2 = IF plan # "stream" THEN n ELSE [n EXCEPT !.names = {}, !.bypass = Web!Snap(@)]
    BY Zenon DEF Web!Synced, m2, n, plan
  <2> HIDE DEF plan, m2
  <2>2. Fields(n) /\ n.params = m1.params /\ n.bypass = m1.bypass
    BY <1>2 DEF Web!Restart
  <2> HIDE DEF n
  <2> QED BY <2>1, <2>2 DEF Web!Snap
<1> HIDE DEF m2
<1>4. OneValue(m3) /\ m3.params = m2.params /\ m3.bypass.wanted = m2.bypass.wanted
  BY <1>3 DEF OneValue, Web!Named
<1> HIDE DEF m3
<1>5. Same(m3, m4)
  <2>1. \E x : m4 = [m3 EXCEPT !.accepted = x]
    BY Zenon DEF Web!Proposes, m4
  <2> HIDE DEF m4
  <2> QED BY <1>4, <2>1 DEF OneValue
<1> HIDE DEF m4
<1>6. Same(m4, r)
  BY <1>5 DEF OneValue, Web!Played, Web!Miss, Web!Hear, Web!BypassProcessed
<1> HIDE DEF r
<1>7. OneValue(r) /\ r.params = m1.params /\ r.bypass.wanted = m1.bypass.wanted
  BY <1>3, <1>4, <1>5, <1>6
<1> QED BY <1>2, <1>7 DEF r, m4, m3, m2, m1, m0

\* What a push of one entry leaves said last: the entry, or what was said of another kind.
LEMMA OnePushed ==
    ASSUME NEW s, Listed(s), Len(s) <= RingCap, NEW e, NEW between, NEW out
    PROVE  LET t == Web!Push(s, <<e>>) IN
           /\ Listed(t) /\ Len(t) <= RingCap
           /\ Web!Room(s) => Underway(e, t, between, out)
           /\ \A b : b.kind # e.kind =>
                 /\ Underway(b, s, between, out) => Underway(b, t, between, out)
                 /\ Unsaid(b, s, between, out) => Unsaid(b, t, between, out)
<1> DEFINE t == Web!Push(s, <<e>>)
<1>1. /\ Listed(<<e>>) /\ DOMAIN <<e>> = {1} /\ <<e>>[1] = e /\ <<e>> # <<>>
  BY Lists
<1>2. Listed(t) /\ Len(t) <= RingCap
  BY <1>1, PushKeeps
<1>3. Web!Room(s) => Newest(t, e)
  <2>1. ASSUME Web!Room(s) PROVE Newest(t, e)
    <3>1. Len(s) < RingCap /\ \A j \in DOMAIN <<e>> : j > 1 => <<e>>[j].kind # e.kind
      BY <1>1, <2>1 DEF Web!Room
    <3> QED BY <1>1, <3>1, NewestPushed
  <2> QED BY <2>1
<1>4. ASSUME NEW b, b.kind # e.kind
      PROVE  (Newest(s, b) => Newest(t, b)) /\ (Silent(s, b) => Silent(t, b))
  <2>1. Silent(<<e>>, b)
    BY <1>1, <1>4 DEF Silent
  <2> QED BY <1>1, <2>1, NewestPushed
<1> HIDE DEF t
<1>5. Web!Room(s) => Underway(e, t, between, out)
  BY <1>3 DEF Underway
<1>6. ASSUME NEW b, b.kind # e.kind
      PROVE  /\ Underway(b, s, between, out) => Underway(b, t, between, out)
             /\ Unsaid(b, s, between, out) => Unsaid(b, t, between, out)
  BY <1>4, <1>6 DEF Underway, Unsaid
<1> QED BY <1>2, <1>5, <1>6 DEF t

\* A block reads the ring and the head of what landed, and leaves the rest.
LEMMA ReadsHead ==
    ASSUME Listed(inbound), Listed(landing), Len(inbound) <= RingCap
    PROVE  LET read == inbound \o SubSeq(landing, 1, Web!Fitting)
               rest == SubSeq(landing, Web!Fitting + 1, Len(landing))
           IN Listed(read) /\ Listed(rest) /\ inbound \o landing = read \o rest
<1> DEFINE S == {inbound[i] : i \in DOMAIN inbound} \cup {landing[i] : i \in DOMAIN landing}
           f == Web!Fitting
           head == SubSeq(landing, 1, f)
           rest == SubSeq(landing, f + 1, Len(landing))
<1>1. inbound \in Seq(S) /\ landing \in Seq(S) /\ Len(inbound) \in Nat /\ Len(landing) \in Nat
  BY DEF Listed
<1> HIDE DEF S
<1>2. f \in 0 .. Len(landing)
  BY <1>1, RingsTake DEF Web!Fitting
<1> HIDE DEF f
<1>3. /\ head \in Seq(S) /\ Len(head) = f /\ \A i \in 1 .. f : head[i] = landing[i]
  BY <1>1, <1>2, SubSeqProperties
<1>4. /\ rest \in Seq(S) /\ Len(rest) = Len(landing) - f
      /\ \A i \in 1 .. Len(landing) - f : rest[i] = landing[f + i]
  BY <1>1, <1>2, SubSeqProperties
<1> HIDE DEF head, rest
<1>5. landing = head \o rest
  <2>1. /\ head \o rest \in Seq(S) /\ Len(head \o rest) = Len(landing)
        /\ \A i \in 1 .. Len(landing) : (head \o rest)[i] = IF i <= f THEN head[i] ELSE rest[i - f]
    BY <1>1, <1>2, <1>3, <1>4, ConcatProperties
  <2>2. ASSUME NEW i \in 1 .. Len(landing) PROVE (head \o rest)[i] = landing[i]
    <3>1. CASE i <= f
      BY <1>2, <1>3, <2>1, <3>1
    <3>2. CASE ~(i <= f)
      <4>1. i - f \in 1 .. Len(landing) - f /\ f + (i - f) = i
        BY <1>1, <1>2, <3>2
      <4> QED BY <1>4, <2>1, <3>2, <4>1
    <3> QED BY <3>1, <3>2
  <2> QED BY <1>1, <2>1, <2>2, SeqEqual
<1>6. inbound \o (head \o rest) = (inbound \o head) \o rest
  <2>1. inbound \in Seq(S) /\ head \in Seq(S) /\ rest \in Seq(S)
    BY <1>1, <1>3, <1>4
  <2> QED BY <2>1, ConcatAssociative
<1>7. Listed(inbound \o head) /\ Listed(rest)
  BY <1>1, <1>3, <1>4, SequencesList, Lists
<1> QED BY <1>5, <1>6, <1>7 DEF head, rest, f

LEMMA WebValuesMeet == Web!Init /\ [][Web!Next]_(Web!webVars) => []WebValues
<1>1. Web!Init => WebValues
  <2> SUFFICES ASSUME Web!Init PROVE WebValues
    OBVIOUS
  <2>1. /\ processor = Web!Module(0) /\ down = <<>> /\ posts = <<>> /\ landing = <<>> /\ inbound = <<>>
        /\ host = Web!Facing /\ lostDown = FALSE
    BY DEF Web!Init
  <2>2. OneValue(processor) /\ processor.params = 0 /\ processor.bypass.wanted = FALSE
    <3> DEFINE b == Web!BypassConfigured(Web!NewBypass, Web!MaxLatency, Web!Latency(0))
    <3>1. {"wanted", "now", "fade"} \subseteq DOMAIN b /\ b.wanted = FALSE
      BY DEF Web!BypassConfigured, Web!SetLatency, Web!Snap, Web!NewBypass
    <3> HIDE DEF b
    <3> QED BY <2>1, <3>1 DEF Web!Module, OneValue, Web!Configure, b
  <2>3. /\ {"value", "bypassed"} \subseteq DOMAIN host /\ host.value = 0 /\ host.bypassed = FALSE
    BY <2>1 DEF Web!Facing
  <2>4. DOMAIN down = {} /\ DOMAIN posts = {} /\ inbound \o landing = <<>> /\ Len(down) = 0 /\ Len(inbound) = 0
    BY <2>1
  <2>5. \A e : Unsaid(e, down, posts, inbound \o landing)
    BY <2>4 DEF Unsaid, Silent
  <2>6. TellsDown
    BY <2>2, <2>3, <2>5 DEF TellsDown
  <2> QED BY <2>1, <2>2, <2>3, <2>4, <2>6, Lists, RingsTake DEF WebValues
<1>2. WebValues /\ [Web!Next]_(Web!webVars) => WebValues'
  <2> SUFFICES ASSUME WebValues, [Web!Next]_(Web!webVars) PROVE WebValues'
    OBVIOUS
  <2> DEFINE old == inbound \o landing
             e == ValueEntry(host.value)
             b == BypassEntry(host.bypassed)
  <2>1. ASSUME UNCHANGED <<processor, host, down, posts, landing, inbound, linked, lostDown>> PROVE WebValues'
    BY <2>1 DEF WebValues, TellsDown
  <2>2. ASSUME NEW meter \in BOOLEAN, Web!Render(meter) PROVE WebValues'
    <3> DEFINE read == inbound \o SubSeq(landing, 1, Web!Fitting)
               rest == SubSeq(landing, Web!Fitting + 1, Len(landing))
    <3>1. /\ processor' = Web!Played(Web!Proposes(Web!Named(Web!Synced(Web!Received(Web!Landed(processor), read)))))
          /\ landing' = rest /\ inbound' = <<>>
          /\ UNCHANGED <<linked, host, down, posts, lostDown>>
      BY <2>2, Zenon DEF Web!Render
    <3>2. Listed(read) /\ Listed(rest) /\ old = read \o rest
      BY ReadsHead DEF WebValues
    <3>3. /\ OneValue(processor')
          /\ Newest(read, e) => processor'.params = host.value
          /\ Silent(read, e) => processor'.params = processor.params
          /\ Newest(read, b) => processor'.bypass.wanted = host.bypassed
          /\ Silent(read, b) => processor'.bypass.wanted = processor.bypass.wanted
      BY <3>1, <3>2, RenderedValue DEF WebValues
    <3>4. \A x : /\ Newest(old, x) <=> Newest(rest, x) \/ (Silent(rest, x) /\ Newest(read, x))
                 /\ Silent(old, x) <=> Silent(rest, x) /\ Silent(read, x)
      BY <3>2, NewestMoves
    <3>5. (inbound \o landing)' = rest
      <4> DEFINE S == {rest[i] : i \in DOMAIN rest}
      <4>1. rest \in Seq(S)
        BY <3>2 DEF Listed
      <4> HIDE DEF rest, S
      <4> QED BY <3>1, <4>1
    <3>6. linked = FALSE => landing' = <<>>
      <4> SUFFICES ASSUME linked = FALSE PROVE rest = <<>>
        BY <3>1
      <4>1. landing = <<>>
        BY DEF WebValues
      <4>2. Len(landing) = 0 /\ Len(inbound) \in Nat
        BY <4>1 DEF WebValues, Listed
      <4>3. Web!Fitting = 0
        BY <4>2, RingsTake DEF Web!Fitting, WebValues
      <4>4. rest = SubSeq(<<>>, 1, 0)
        BY <4>1, <4>2, <4>3
      <4>5. SubSeq(<<>>, 1, 0) = <<>>
        BY SubSeqEmpty
      <4> HIDE DEF rest
      <4> QED BY <4>4, <4>5
    <3> HIDE DEF read, rest, old
    <3>7. ASSUME ~lostDown PROVE TellsDown'
      <4>1. /\ Underway(e, down, posts, old) \/ (Unsaid(e, down, posts, old) /\ processor.params = host.value)
            /\ Underway(b, down, posts, old) \/ (Unsaid(b, down, posts, old) /\ processor.bypass.wanted = host.bypassed)
        BY <3>7 DEF WebValues, TellsDown, old
      <4> HIDE DEF e, b
      <4>2. Underway(e, down, posts, rest) \/ (Unsaid(e, down, posts, rest) /\ processor'.params = host.value)
        BY <3>3, <3>4, <4>1 DEF Underway, Unsaid
      <4>3. Underway(b, down, posts, rest) \/ (Unsaid(b, down, posts, rest) /\ processor'.bypass.wanted = host.bypassed)
        BY <3>3, <3>4, <4>1 DEF Underway, Unsaid
      <4> QED BY <3>1, <3>5, <4>2, <4>3 DEF TellsDown, e, b
    <3> QED BY <3>1, <3>2, <3>3, <3>6, <3>7, Lists, RingsTake DEF WebValues
  <2>3. ASSUME NEW entry, Web!Sent(entry), host' \in {host} \/ entry.kind \in {"param", "bypass"},
               {"value", "bypassed"} \subseteq DOMAIN host',
               entry.kind = "param" => entry = ValueEntry(host'.value),
               entry.kind # "param" => host'.value = host.value,
               entry.kind = "bypass" => entry = BypassEntry(host'.bypassed),
               entry.kind # "bypass" => host'.bypassed = host.bypassed
        PROVE  WebValues'
    <3>1. /\ down' = Web!Push(down, <<entry>>) /\ lostDown' = (lostDown \/ ~Web!Room(down))
          /\ UNCHANGED <<linked, posts, landing, inbound, processor>>
      BY <2>3 DEF Web!Sent
    <3>2. /\ Listed(down') /\ Len(down') <= RingCap
          /\ Web!Room(down) => Underway(entry, down', posts, old)
          /\ \A x : x.kind # entry.kind => /\ Underway(x, down, posts, old) => Underway(x, down', posts, old)
                                           /\ Unsaid(x, down, posts, old) => Unsaid(x, down', posts, old)
      BY <3>1, OnePushed DEF WebValues
    <3>3. e.kind = "param" /\ b.kind = "bypass"
      BY DEF ValueEntry, BypassEntry
    <3>4. ASSUME ~lostDown' PROVE TellsDown'
      <4>1. /\ Web!Room(down)
            /\ Underway(e, down, posts, old) \/ (Unsaid(e, down, posts, old) /\ processor.params = host.value)
            /\ Underway(b, down, posts, old) \/ (Unsaid(b, down, posts, old) /\ processor.bypass.wanted = host.bypassed)
        BY <3>1, <3>4 DEF WebValues, TellsDown
      <4> HIDE DEF old
      <4>2. LET x == ValueEntry(host'.value) IN
            Underway(x, down', posts, old) \/ (Unsaid(x, down', posts, old) /\ processor.params = host'.value)
        <5>1. CASE entry.kind = "param"
          BY <2>3, <3>2, <4>1, <5>1
        <5>2. CASE entry.kind # "param"
          <6>1. host'.value = host.value
            BY <2>3, <5>2
          <6> HIDE DEF e
          <6>2. Underway(e, down', posts, old) \/ (Unsaid(e, down', posts, old) /\ processor.params = host.value)
            BY <3>2, <3>3, <4>1, <5>2
          <6> QED BY <6>1, <6>2 DEF e
        <5> QED BY <5>1, <5>2
      <4>3. LET x == BypassEntry(host'.bypassed) IN
            Underway(x, down', posts, old) \/ (Unsaid(x, down', posts, old) /\ processor.bypass.wanted = host'.bypassed)
        <5>1. CASE entry.kind = "bypass"
          BY <2>3, <3>2, <4>1, <5>1
        <5>2. CASE entry.kind # "bypass"
          <6>1. host'.bypassed = host.bypassed
            BY <2>3, <5>2
          <6> HIDE DEF b
          <6>2. Underway(b, down', posts, old) \/ (Unsaid(b, down', posts, old) /\ processor.bypass.wanted = host.bypassed)
            BY <3>2, <3>3, <4>1, <5>2
          <6> QED BY <6>1, <6>2 DEF b
        <5> QED BY <5>1, <5>2
      <4>4. (inbound \o landing)' = old
        BY <3>1 DEF old
      <4> QED BY <3>1, <4>2, <4>3, <4>4 DEF TellsDown
    <3> HIDE DEF old, e, b
    <3> QED BY <2>3, <3>1, <3>2, <3>4 DEF WebValues
  <2>4. ASSUME NEW v \in Values, Web!SetParam(v) PROVE WebValues'
    <3>1. /\ Web!Sent(ValueEntry(v)) /\ host' = [host EXCEPT !.value = v]
      BY <2>4 DEF Web!SetParam, ValueEntry
    <3>2. ValueEntry(v).kind = "param" /\ host'.value = v /\ host'.bypassed = host.bypassed /\ DOMAIN host' = DOMAIN host
      BY <3>1 DEF ValueEntry, WebValues
    <3> QED BY <2>3, <3>1, <3>2 DEF WebValues
  <2>5. ASSUME NEW on \in BOOLEAN, Web!SetBypass(on) PROVE WebValues'
    <3>1. /\ Web!Sent(BypassEntry(on)) /\ host' = [host EXCEPT !.bypassed = on]
      BY <2>5 DEF Web!SetBypass, BypassEntry
    <3>2. BypassEntry(on).kind = "bypass" /\ host'.bypassed = on /\ host'.value = host.value /\ DOMAIN host' = DOMAIN host
      BY <3>1 DEF BypassEntry, WebValues
    <3> QED BY <2>3, <3>1, <3>2 DEF WebValues
  <2>6. ASSUME NEW note, Web!Midi(note) PROVE WebValues'
    <3> DEFINE m == [kind |-> "midi", note |-> note]
    <3>1. Web!Sent(m) /\ host' = host /\ m.kind = "midi"
      BY <2>6 DEF Web!Midi
    <3> HIDE DEF m
    <3> QED BY <2>3, <3>1 DEF WebValues
  <2>7. CASE Web!HostReset
    <3> DEFINE m == [kind |-> "reset"]
    <3>1. Web!Sent(m) /\ host' = host /\ m.kind = "reset"
      BY <2>7 DEF Web!HostReset
    <3> HIDE DEF m
    <3> QED BY <2>3, <3>1 DEF WebValues
  <2>8. CASE Web!Tick \/ Web!PumpUp \/ Web!PostUp \/ Web!LandUp
    BY <2>8, <2>1 DEF Web!Tick, Web!PumpUp, Web!PostUp, Web!LandUp, Web!carried, Web!downward
  <2>9. CASE Web!PumpDown
    <3> DEFINE h == <<Head(down)>>
    <3>1. /\ down # <<>> /\ inbound' = Append(inbound, Head(down)) /\ down' = Tail(down) /\ ~linked /\ Web!Room(inbound)
          /\ UNCHANGED <<processor, host, posts, landing, linked, lostDown>> /\ posts = <<>> /\ landing = <<>>
      BY <2>9 DEF Web!PumpDown, Web!carried, WebValues
    <3>2. Listed(inbound') /\ Listed(down') /\ Len(down') <= RingCap
      BY <3>1, Lists, HeadFirst, RingsTake DEF WebValues
    <3>3. old = inbound /\ (inbound \o landing)' = inbound \o h /\ Len(inbound') <= RingCap
      <4> DEFINE S == {inbound[i] : i \in DOMAIN inbound} \cup {Head(down)}
      <4>1. inbound \in Seq(S) /\ Head(down) \in S
        BY DEF WebValues, Listed
      <4> HIDE DEF S
      <4>2. inbound' \in Seq(S) /\ inbound' = inbound \o h /\ Len(inbound') = Len(inbound) + 1 /\ Len(inbound) \in Nat
        BY <3>1, <4>1, AppendIsConcat
      <4>3. (inbound \o landing)' = inbound' /\ old = inbound
        BY <3>1, <4>1, <4>2
      <4> QED BY <3>1, <4>2, <4>3, RingsTake DEF Web!Room
    <3>4. \A x : /\ Underway(x, down, posts, inbound) => Underway(x, Tail(down), posts, inbound \o h)
                 /\ Unsaid(x, down, posts, inbound) => Unsaid(x, Tail(down), posts, inbound \o h)
      BY <3>1, WireMoves DEF WebValues
    <3> HIDE DEF h
    <3>5. ASSUME ~lostDown PROVE TellsDown'
      <4>1. TellsDown
        BY <3>5 DEF WebValues
      <4> HIDE DEF old
      <4> QED BY <3>1, <3>3, <3>4, <4>1 DEF TellsDown, old
    <3> HIDE DEF old
    <3> QED BY <3>1, <3>2, <3>3, <3>5 DEF WebValues
  <2>10. CASE Web!PostDown
    <3>1. /\ linked /\ posts' = Append(posts, down) /\ down' = <<>>
          /\ UNCHANGED <<processor, host, inbound, landing, linked, lostDown>>
      BY <2>10 DEF Web!PostDown, Web!carried
    <3>2. /\ Listed(down') /\ Len(down') = 0 /\ Listed(posts') /\ \A p \in DOMAIN posts' : Listed(posts'[p])
      BY <3>1, Lists, PostsListed DEF WebValues
    <3>3. Listed(old)
      BY Lists DEF WebValues
    <3>4. \A x : /\ Underway(x, down, posts, old) => Underway(x, <<>>, Append(posts, down), old)
                 /\ Unsaid(x, down, posts, old) => Unsaid(x, <<>>, Append(posts, down), old)
      BY <3>3, WireMoves DEF WebValues
    <3>5. ASSUME ~lostDown PROVE TellsDown'
      BY <3>1, <3>4, <3>5 DEF WebValues, TellsDown
    <3> HIDE DEF old
    <3> QED BY <3>1, <3>2, <3>5, RingsTake DEF WebValues
  <2>11. CASE Web!Land
    <3> DEFINE h == Head(posts)
               fits == Len(landing) + Len(h) <= LandingCap
    <3>1. /\ posts # <<>> /\ posts' = Tail(posts) /\ lostDown' = (lostDown \/ ~fits)
          /\ landing' = (IF fits THEN landing \o h ELSE landing)
          /\ UNCHANGED <<processor, host, down, inbound, linked>>
      BY <2>11 DEF Web!Land, Web!carried
    <3>2. /\ Listed(h) /\ Listed(posts') /\ (\A p \in DOMAIN posts' : Listed(posts'[p])) /\ Listed(old)
          /\ linked' = linked /\ (~linked => FALSE)
      BY <3>1, Lists, PostsListed DEF WebValues
    <3>3. Listed(landing')
      BY <3>1, <3>2, Lists DEF WebValues
    <3>4. \A x : /\ Underway(x, down, posts, old) => Underway(x, down, Tail(posts), old \o h)
                 /\ Unsaid(x, down, posts, old) => Unsaid(x, down, Tail(posts), old \o h)
      BY <3>1, <3>2, WireMoves DEF WebValues
    <3>5. fits => (inbound \o landing)' = old \o h
      <4> DEFINE S == ({inbound[i] : i \in DOMAIN inbound} \cup {landing[i] : i \in DOMAIN landing}) \cup {h[i] : i \in DOMAIN h}
      <4>1. inbound \in Seq(S) /\ landing \in Seq(S) /\ h \in Seq(S)
        BY <3>2 DEF WebValues, Listed
      <4> HIDE DEF S, h
      <4>2. inbound \o (landing \o h) = old \o h
        BY <4>1, ConcatAssociative
      <4> QED BY <3>1, <4>2
    <3> HIDE DEF h, fits
    <3>6. ASSUME ~lostDown' PROVE TellsDown'
      <4>1. fits /\ TellsDown
        BY <3>1, <3>6 DEF WebValues
      <4> HIDE DEF old
      <4> QED BY <3>1, <3>4, <3>5, <4>1 DEF TellsDown, old
    <3> HIDE DEF old
    <3> QED BY <3>1, <3>2, <3>3, <3>6 DEF WebValues
  <2>12. CASE UNCHANGED Web!webVars
    BY <2>12, <2>1 DEF Web!webVars, Web!downward
  <2> QED BY <2>2, <2>4, <2>5, <2>6, <2>7, <2>8, <2>9, <2>10, <2>11, <2>12 DEF Web!Next
<1> QED BY <1>1, <1>2, PTL

\* With nothing on the way down and nothing lost, the processor holds what the page's controller holds.
LEMMA WebTakesIt == WebValues => Web!ValuesAgree
<1> SUFFICES ASSUME WebValues, down \o landing \o inbound = <<>>, posts = <<>>, ~lostDown
             PROVE  /\ processor.params = host.value /\ processor.kernel.value = host.value
                    /\ processor.bypass.wanted = host.bypassed
  BY DEF Web!ValuesAgree
<1> DEFINE S == ({down[i] : i \in DOMAIN down} \cup {landing[i] : i \in DOMAIN landing}) \cup {inbound[i] : i \in DOMAIN inbound}
           old == inbound \o landing
<1>1. down \in Seq(S) /\ landing \in Seq(S) /\ inbound \in Seq(S)
  BY DEF WebValues, Listed
<1> HIDE DEF S
<1>2. /\ Len(down) + Len(landing) + Len(inbound) = 0
      /\ Len(down) \in Nat /\ Len(landing) \in Nat /\ Len(inbound) \in Nat
  BY <1>1, ConcatProperties
<1>3. DOMAIN down = {} /\ DOMAIN old = {} /\ DOMAIN posts = {}
  BY <1>1, <1>2
<1> HIDE DEF old
<1>4. \A e : ~Underway(e, down, posts, old)
  BY <1>3 DEF Underway, Newest
<1>5. TellsDown
  BY DEF WebValues
<1> QED BY <1>4, <1>5 DEF TellsDown, WebValues, OneValue, old

-----------------------------------------------------------------------------
(* Proofs about AAX, whose algorithm has a memory of its own.                *)

Aax == INSTANCE Aax WITH Budgets <- AaxPlans, Chunks <- Sessions

\* Its longest latency is the longest one.
LEMMA AaxLongest == Aax!MaxLatency = Top
BY Zenon DEF Top, Stream!MaxLatency, Aax!MaxLatency

\* The algorithm's private data remembers the skip itself, and a reset leaves nothing of it.
AaxInv ==
    /\ {"made", "kernel", "bypass", "names", "seen", "coefSeq", "latSeq", "reported", "offline", "skipped"} \subseteq DOMAIN alg
    /\ "past" \in DOMAIN alg.kernel /\ {"now", "fade"} \subseteq DOMAIN alg.bypass
    /\ Aax!NoStaleRun

LEMMA AaxInvariance == Aax!Init /\ [][Aax!Next]_(Aax!aaxVars) => []AaxInv
<1> DEFINE Made(a) ==
             /\ {"made", "kernel", "bypass", "names", "seen", "coefSeq", "latSeq", "reported", "offline", "skipped"} \subseteq DOMAIN a
             /\ "past" \in DOMAIN a.kernel /\ {"now", "fade"} \subseteq DOMAIN a.bypass
           Same(a, b) == /\ Made(b) /\ b.kernel.past = a.kernel.past /\ b.made = a.made
                         /\ b.skipped = a.skipped /\ b.bypass.now = a.bypass.now /\ b.bypass.fade = a.bypass.fade
<1>1. Aax!Init => AaxInv
  BY DEF Aax!Init, AaxInv, Aax!NoAlg, Aax!NoStaleRun, Aax!NewKernel, Aax!NewBypass
<1>2. AaxInv /\ [Aax!Next]_(Aax!aaxVars) => AaxInv'
  <2> SUFFICES ASSUME AaxInv, [Aax!Next]_(Aax!aaxVars) PROVE AaxInv'
    OBVIOUS
  <2>1. ASSUME UNCHANGED alg PROVE AaxInv'
    BY <2>1 DEF AaxInv, Aax!NoStaleRun, Aax!CanSkip
  <2>2. ASSUME NEW wiped \in BOOLEAN, Aax!InitInstance(wiped) PROVE AaxInv'
    <3> DEFINE c == Aax!Constructed(wiped)
               a == Aax!Adopted(c, Aax!Snapshot)
               l == Aax!Latency(a.seen)
    <3>1. Made(c)
      BY DEF AaxInv, Aax!Constructed, Aax!NoAlg, Aax!NewKernel, Aax!NewBypass
    <3> HIDE DEF c
    <3>2. Made(a)
      BY <3>1 DEF Aax!Adopted, Aax!SetBypassed
    <3> HIDE DEF a
    <3>3. PICK r : alg' = [a EXCEPT !.kernel = Aax!Configure(a.seen),
                                    !.bypass = Aax!BypassConfigured(@, Aax!MaxLatency, l), !.reported = r]
      BY <2>2, Zenon DEF Aax!InitInstance, a, c
    <3> HIDE DEF l
    <3> QED BY <3>2, <3>3 DEF AaxInv, Aax!NoStaleRun, Aax!Configure, Aax!BypassConfigured, Aax!SetLatency, Aax!Snap
  <2>3. ASSUME NEW note, Aax!Render(note) PROVE AaxInv'
    <3> DEFINE a1 == Aax!Accepts(alg)
               a2 == Aax!Applies(a1)
               a3 == Aax!Resumes(a2)
               a == Aax!Plays(a3, note)
    <3>1. Same(alg, a1)
      BY DEF AaxInv, Aax!Accepts, Aax!Adopt, Aax!SetLatency
    <3> HIDE DEF a1
    <3>2. Same(alg, a2)
      BY <3>1 DEF Aax!Applies, Aax!Set, Aax!SetBypassed
    <3> HIDE DEF a2
    <3>3. /\ Made(a3) /\ a3.made = alg.made /\ a3.skipped = Aax!CanSkip(a3.bypass)
          /\ a3.kernel.past = "stale" => Aax!CanSkip(a3.bypass) \/ ~alg.made
      BY <3>2 DEF AaxInv, Aax!Resumes, Aax!Restart, Aax!NoStaleRun, Aax!CanSkip
    <3> HIDE DEF a3
    <3>4. Same(a3, a)
      BY <3>3 DEF Aax!Plays, Aax!NoteOn, Aax!NoteOff
    <3> HIDE DEF a
    <3>5. alg.made
      BY <2>3 DEF Aax!Render
    <3>6. PICK r : alg' = [Aax!Heard(a) EXCEPT !.reported = r]
      BY <2>3, Zenon DEF Aax!Render, a1, a2, a3, a
    <3>7. /\ Made(alg') /\ alg'.skipped = Aax!CanSkip(a.bypass)
          /\ ~alg'.skipped => alg'.kernel.past # "stale"
      <4>1. Made(Aax!Heard(a)) /\ Aax!Heard(a).skipped = a.skipped
        BY <3>4 DEF Aax!Heard, Aax!Miss, Aax!Hear, Aax!BypassProcessed
      <4>2. ~Aax!CanSkip(a.bypass) => Aax!Heard(a).kernel.past # "stale"
        BY <3>3, <3>4, <3>5 DEF Aax!Heard, Aax!Hear, Aax!CanSkip
      <4>3. a.skipped = Aax!CanSkip(a.bypass)
        BY <3>3, <3>4 DEF Aax!CanSkip
      <4> QED BY <3>6, <4>1, <4>2, <4>3
    <3> QED BY <3>7 DEF AaxInv, Aax!NoStaleRun
  <2>4. ASSUME NEW v \in Values, Aax!UpdateParameter(v) PROVE AaxInv'
    BY <2>4, <2>1 DEF Aax!UpdateParameter, Aax!algorithm
  <2>5. ASSUME NEW on \in BOOLEAN, Aax!UpdateBypass(on) PROVE AaxInv'
    BY <2>5, <2>1 DEF Aax!UpdateBypass, Aax!algorithm
  <2>6. ASSUME NEW chunk, Aax!SetChunk(chunk) \/ Aax!SetChunkElsewhere(chunk) PROVE AaxInv'
    BY <2>6, <2>1 DEF Aax!SetChunk, Aax!SetChunkElsewhere, Aax!algorithm
  <2>7. CASE Aax!GenerateCoefficients \/ Aax!TimerWakeup \/ Aax!Deliver \/ Aax!GetChunkSize
    BY <2>7, <2>1 DEF Aax!GenerateCoefficients, Aax!TimerWakeup, Aax!Deliver, Aax!GetChunkSize, Aax!algorithm, Aax!savers
  <2>8. CASE Aax!DrainReturns \/ Aax!SignalLatencyChanged \/ Aax!DelayCompensationState \/ Aax!OfflineMode
    BY <2>8, <2>1 DEF Aax!DrainReturns, Aax!SignalLatencyChanged, Aax!DelayCompensationState, Aax!OfflineMode, Aax!Runtime
  <2>9. CASE Aax!Working
    BY <2>9, <2>1 DEF Aax!Working, Aax!UpdateStep, Aax!BuildChunk, Aax!GetChunk, Aax!AwaitAnswer, Aax!algorithm, Aax!savers
  <2>10. CASE UNCHANGED Aax!aaxVars
    BY <2>10, <2>1 DEF Aax!aaxVars
  <2> QED BY <2>2, <2>3, <2>4, <2>5, <2>6, <2>7, <2>8, <2>9, <2>10 DEF Aax!Next
<1> QED BY <1>1, <1>2, PTL

\* What the algorithm sounds has a name, through every packet, reset and block.
AaxNamed(a) == {"kernel", "names"} \subseteq DOMAIN a /\ "voices" \in DOMAIN a.kernel /\ a.kernel.voices \subseteq a.names
AaxSounds == AaxNamed(alg)

\* Every step keeps it so.
LEMMA AaxSoundsOn == Aax!Init /\ [][Aax!Next]_(Aax!aaxVars) => []AaxSounds
<1>1. Aax!Init => AaxSounds
  BY DEF Aax!Init, AaxSounds, AaxNamed, Aax!NoAlg, Aax!NewKernel
<1>2. AaxSounds /\ [Aax!Next]_(Aax!aaxVars) => AaxSounds'
  <2> SUFFICES ASSUME AaxSounds, [Aax!Next]_(Aax!aaxVars) PROVE AaxSounds'
    OBVIOUS
  <2>1. ASSUME UNCHANGED alg PROVE AaxSounds'
    BY <2>1 DEF AaxSounds
  <2>2. ASSUME NEW wiped \in BOOLEAN, Aax!InitInstance(wiped) PROVE AaxSounds'
    <3> DEFINE c == Aax!Constructed(wiped)
               a == Aax!Adopted(c, Aax!Snapshot)
               l == Aax!Latency(a.seen)
    <3>1. AaxNamed(c)
      BY DEF AaxSounds, AaxNamed, Aax!Constructed, Aax!NoAlg, Aax!NewKernel
    <3> HIDE DEF c
    <3>2. AaxNamed(a)
      BY <3>1 DEF AaxNamed, Aax!Adopted
    <3> HIDE DEF a
    <3>3. PICK r : alg' = [a EXCEPT !.kernel = Aax!Configure(a.seen),
                                    !.bypass = Aax!BypassConfigured(@, Aax!MaxLatency, l), !.reported = r]
      BY <2>2, Zenon DEF Aax!InitInstance, a, c
    <3> HIDE DEF l
    <3> QED BY <3>2, <3>3 DEF AaxSounds, AaxNamed, Aax!Configure
  <2>3. ASSUME NEW note, Aax!Render(note) PROVE AaxSounds'
    <3> DEFINE a1 == Aax!Accepts(alg)
               a2 == Aax!Applies(a1)
               a3 == Aax!Resumes(a2)
               a == Aax!Plays(a3, note)
    <3>1. AaxNamed(a1)
      BY DEF AaxSounds, AaxNamed, Aax!Accepts, Aax!Adopt
    <3> HIDE DEF a1
    <3>2. AaxNamed(a2)
      BY <3>1 DEF AaxNamed, Aax!Applies, Aax!Set
    <3> HIDE DEF a2
    <3>3. AaxNamed(a3)
      BY <3>2 DEF AaxNamed, Aax!Resumes, Aax!Restart
    <3> HIDE DEF a3
    <3>4. AaxNamed(a)
      BY <3>3 DEF AaxNamed, Aax!Plays, Aax!NoteOn, Aax!NoteOff
    <3> HIDE DEF a
    <3>5. PICK r : alg' = [Aax!Heard(a) EXCEPT !.reported = r]
      BY <2>3, Zenon DEF Aax!Render, a1, a2, a3, a
    <3>6. AaxNamed(Aax!Heard(a))
      BY <3>4 DEF AaxNamed, Aax!Heard, Aax!Miss, Aax!Hear
    <3> QED BY <3>5, <3>6 DEF AaxSounds, AaxNamed
  <2>4. ASSUME NEW v \in Values, Aax!UpdateParameter(v) PROVE AaxSounds'
    BY <2>4, <2>1 DEF Aax!UpdateParameter, Aax!algorithm
  <2>5. ASSUME NEW on \in BOOLEAN, Aax!UpdateBypass(on) PROVE AaxSounds'
    BY <2>5, <2>1 DEF Aax!UpdateBypass, Aax!algorithm
  <2>6. ASSUME NEW chunk, Aax!SetChunk(chunk) \/ Aax!SetChunkElsewhere(chunk) PROVE AaxSounds'
    BY <2>6, <2>1 DEF Aax!SetChunk, Aax!SetChunkElsewhere, Aax!algorithm
  <2>7. CASE Aax!GenerateCoefficients \/ Aax!TimerWakeup \/ Aax!Deliver \/ Aax!GetChunkSize
    BY <2>7, <2>1 DEF Aax!GenerateCoefficients, Aax!TimerWakeup, Aax!Deliver, Aax!GetChunkSize, Aax!algorithm, Aax!savers
  <2>8. CASE Aax!DrainReturns \/ Aax!SignalLatencyChanged \/ Aax!DelayCompensationState \/ Aax!OfflineMode
    BY <2>8, <2>1 DEF Aax!DrainReturns, Aax!SignalLatencyChanged, Aax!DelayCompensationState, Aax!OfflineMode, Aax!Runtime
  <2>9. CASE Aax!Working
    BY <2>9, <2>1 DEF Aax!Working, Aax!UpdateStep, Aax!BuildChunk, Aax!GetChunk, Aax!AwaitAnswer, Aax!algorithm, Aax!savers
  <2>10. CASE UNCHANGED Aax!aaxVars
    BY <2>10, <2>1 DEF Aax!aaxVars
  <2> QED BY <2>2, <2>3, <2>4, <2>5, <2>6, <2>7, <2>8, <2>9, <2>10 DEF Aax!Next
<1> QED BY <1>1, <1>2, PTL

\* What main has left to do, of an update or of a load.
Loading == <<"value", "revision", "bypassed", "revision", "revision">>
Updating == {<<>>, <<"revision">>, <<"value", "revision">>, <<"bypassed", "revision">>, <<"revision", "revision">>,
             <<"bypassed", "revision", "revision">>, <<"revision", "bypassed", "revision", "revision">>, Loading}
Kept(r) == r = [value |-> r.value, bypassed |-> r.bypassed]

\* A chunk's key is never ahead of the revision: while main is free, one that has not fallen behind it was made of
\* the mirror as it is, and while main moves a field, of what the mirror was at the last count, or is by now.
Between(image) == Kept(image) /\ \A f \in {"value", "bypassed"} : image[f] \in {counted[f], mirror[f]}

AaxCached ==
    /\ revision \in Nat /\ Kept(mirror) /\ Kept(counted)
    /\ main.todo \in Updating /\ {"todo", "chunk"} = DOMAIN main /\ (main.todo = <<>> <=> Aax!MainIsFree)
    /\ main.todo = <<>> \/ Head(main.todo) # "revision" => counted = mirror
    /\ cached # None => /\ cached.key \in Nat /\ cached.key <= revision
                        /\ cached.key = revision => Between(cached.image)
    /\ saver # None /\ "key" \in DOMAIN saver =>
          /\ "value" \in DOMAIN saver /\ saver.key \in Nat /\ saver.key <= revision
          /\ saver.key = revision => saver.value \in {counted.value, mirror.value}

\* How far main has come with a load.
Loaded(chunk) ==
    /\ main.todo # <<>> => main.chunk = chunk
    /\ main.todo # Loading => mirror.value = chunk.value
    /\ main.todo \in {<<>>, <<"revision">>, <<"revision", "revision">>} => mirror.bypassed = chunk.bypassed
    /\ main.todo \in {<<>>, <<"revision">>, <<"revision", "revision">>, <<"bypassed", "revision", "revision">>,
                      <<"revision", "bypassed", "revision", "revision">>, Loading}

\* The load asked for last waits, or is under way, or is what the mirror holds, until something else moves it.
AaxChosen ==
    /\ pendingLoad # None => chosen = pendingLoad
    /\ chosen # None => Kept(chosen) /\ (pendingLoad = None => Loaded(chosen))

\* A save has seen each state the mirror had since it began, and answers with what it saw.
AaxSaved ==
    /\ saver # None => {"said", "after"} \subseteq DOMAIN saver /\ \A s \in saver.said : Kept(s)
    /\ saver # None /\ "key" \in DOMAIN saver =>
          /\ "image" \notin DOMAIN saver /\ mirror \in saver.said /\ \E s \in saver.said : s.value = saver.value
          /\ saver.after # None => saver.after \in saver.said
    /\ Aax!SaveAfterLoad

AaxLoads == AaxCached /\ AaxChosen /\ AaxSaved

\* The steps of a list of updates.
LEMMA UpdatesStep ==
    /\ Aax!Update \o <<"bypassed", "revision", "revision">> = Loading
    /\ Aax!Update = <<"value", "revision">>
    /\ Loading # <<>> /\ Head(Loading) = "value" /\ Tail(Loading) = <<"revision", "bypassed", "revision", "revision">>
    /\ Tail(<<"revision", "bypassed", "revision", "revision">>) = <<"bypassed", "revision", "revision">>
    /\ Tail(<<"bypassed", "revision", "revision">>) = <<"revision", "revision">>
    /\ Tail(<<"revision", "revision">>) = <<"revision">>
    /\ Tail(<<"revision">>) = <<>>
    /\ \A todo \in Updating : todo # <<>> =>
          /\ Head(todo) \in {"value", "bypassed", "revision"} /\ Tail(todo) \in Updating
          /\ Head(todo) # "revision" => Tail(todo) # <<>> /\ Head(Tail(todo)) = "revision"
<1>1. Aax!Update \o <<"bypassed", "revision", "revision">> = Loading
  <2> DEFINE S == {"value", "revision", "bypassed"}
             s == <<"value", "revision">>
             t == <<"bypassed", "revision", "revision">>
  <2>1. s \in Seq(S) /\ t \in Seq(S) /\ Loading \in Seq(S) /\ Len(s) = 2 /\ Len(t) = 3 /\ Len(Loading) = 5
    BY DEF Loading
  <2>2. s[1] = Loading[1] /\ s[2] = Loading[2] /\ t[1] = Loading[3] /\ t[2] = Loading[4] /\ t[3] = Loading[5]
    BY DEF Loading
  <2>3. Aax!Update = s
    BY DEF Aax!Update
  <2> HIDE DEF S, s, t
  <2>4. /\ s \o t \in Seq(S) /\ Len(s \o t) = Len(s) + Len(t)
        /\ \A i \in 1 .. Len(s) + Len(t) : (s \o t)[i] = IF i <= Len(s) THEN s[i] ELSE t[i - Len(s)]
    BY <2>1, ConcatProperties
  <2>5. Len(s) + Len(t) = 5
    BY <2>1
  <2>6. Len(s \o t) = 5 /\ \A i \in 1 .. 5 : (s \o t)[i] = IF i <= 2 THEN s[i] ELSE t[i - 2]
    BY <2>1, <2>4, <2>5
  <2>7. \A i \in 1 .. 5 : (s \o t)[i] = Loading[i]
    BY <2>2, <2>6
  <2>8. s \o t = Loading
    BY <2>1, <2>4, <2>6, <2>7
  <2> QED BY <2>3, <2>8 DEF t
<1>2. /\ Aax!Update = <<"value", "revision">>
      /\ Loading # <<>>
      /\ \A todo \in Updating : todo # <<>> => Head(todo) \in {"value", "bypassed", "revision"}
  BY DEF Aax!Update, Updating, Loading
<1>3. /\ Tail(<<"revision">>) = <<>> /\ Tail(<<"revision", "revision">>) = <<"revision">>
      /\ Tail(<<"value", "revision">>) = <<"revision">> /\ Tail(<<"bypassed", "revision">>) = <<"revision">>
      /\ Tail(<<"bypassed", "revision", "revision">>) = <<"revision", "revision">>
      /\ Tail(<<"revision", "bypassed", "revision", "revision">>) = <<"bypassed", "revision", "revision">>
  OBVIOUS
<1>4. Head(Loading) = "value" /\ Tail(Loading) = <<"revision", "bypassed", "revision", "revision">>
  BY DEF Loading
<1>5. \A todo \in Updating : todo # <<>> =>
          Tail(todo) \in Updating /\ (Head(todo) # "revision" => Tail(todo) # <<>> /\ Head(Tail(todo)) = "revision")
  <2>1. /\ Loading # <<>> /\ <<"revision">> # <<>> /\ <<"revision", "revision">> # <<>>
        /\ <<"bypassed", "revision", "revision">> # <<>> /\ <<"revision", "bypassed", "revision", "revision">> # <<>>
        /\ Head(<<"revision">>) = "revision" /\ Head(<<"revision", "revision">>) = "revision"
        /\ Head(<<"revision", "bypassed", "revision", "revision">>) = "revision"
    BY DEF Loading
  <2> QED BY <1>3, <1>4, <2>1, Zenon DEF Updating
<1> QED BY <1>1, <1>2, <1>3, <1>4, <1>5

\* A parameter's update and the bypass's, a field and the revision after it.
LEMMA AaxCachedKept ==
    ASSUME AaxCached, [Aax!Next]_(Aax!aaxVars) PROVE AaxCached'
<1>1. ASSUME UNCHANGED <<revision, mirror, counted, main, cached, saver>> PROVE AaxCached'
  BY <1>1 DEF AaxCached, Between, Aax!MainIsFree
<1>2. ASSUME Aax!MainIsFree, UNCHANGED <<revision, mirror, counted, cached, saver>>,
             main'.todo \in Updating \ {<<>>}, {"todo", "chunk"} = DOMAIN main'
      PROVE  AaxCached'
  BY <1>2 DEF AaxCached, Between, Aax!MainIsFree, Aax!Idle
<1>3. ASSUME NEW v \in Values, Aax!UpdateParameter(v) PROVE AaxCached'
  BY <1>2, <1>3, UpdatesStep DEF Aax!UpdateParameter, Aax!model, Updating
<1>4. ASSUME NEW on \in BOOLEAN, Aax!UpdateBypass(on) PROVE AaxCached'
  BY <1>2, <1>4 DEF Aax!UpdateBypass, Aax!model, Updating
<1>5. ASSUME NEW on \in BOOLEAN, Aax!InitInstance(on) PROVE AaxCached'
  BY <1>1, <1>5 DEF Aax!InitInstance, Aax!host, Aax!model, Aax!chunks
<1>6. ASSUME NEW chunk \in Sessions, Aax!SetChunk(chunk) PROVE AaxCached'
  BY <1>2, <1>6, UpdatesStep DEF Aax!SetChunk, Aax!model, Updating
<1>7. ASSUME NEW chunk \in Sessions, Aax!SetChunkElsewhere(chunk) PROVE AaxCached'
  BY <1>1, <1>7 DEF Aax!SetChunkElsewhere, Aax!model
<1>8. CASE Aax!GenerateCoefficients \/ Aax!Deliver
  BY <1>1, <1>8 DEF Aax!GenerateCoefficients, Aax!Deliver, Aax!model, Aax!chunks
<1>9. CASE Aax!TimerWakeup
  <2>1. CASE pendingLoad = None
    BY <1>1, <1>9, <2>1 DEF Aax!TimerWakeup
  <2>2. CASE pendingLoad # None
    BY <1>2, <1>9, <2>2, UpdatesStep DEF Aax!TimerWakeup, Updating
  <2> QED BY <2>1, <2>2
<1>10. CASE Aax!GetChunkSize
  <2>1. UNCHANGED <<revision, mirror, counted, main, cached>>
    BY <1>10 DEF Aax!GetChunkSize, Aax!savers, Aax!model
  <2>2. \/ "key" \notin DOMAIN saver'
        \/ "value" \in DOMAIN saver' /\ saver'.key = revision /\ saver'.value = mirror.value
    BY <1>10 DEF Aax!GetChunkSize
  <2> QED BY <2>1, <2>2 DEF AaxCached, Between, Aax!MainIsFree
<1>11. CASE Aax!BuildChunk
  <2>1. UNCHANGED <<revision, mirror, counted, main>> /\ "key" \notin DOMAIN saver'
    BY <1>11 DEF Aax!BuildChunk, Aax!savers, Aax!model
  <2>2. cached'.key = saver.key /\ cached'.image = [value |-> saver.value, bypassed |-> mirror.bypassed]
    BY <1>11 DEF Aax!BuildChunk
  <2>3. saver # None /\ "key" \in DOMAIN saver
    BY <1>11 DEF Aax!BuildChunk
  <2> QED BY <2>1, <2>2, <2>3 DEF AaxCached, Between, Kept, Aax!MainIsFree
<1>12. CASE Aax!GetChunk
  BY <1>12 DEF Aax!GetChunk, Aax!savers, Aax!model, AaxCached, Between, Aax!MainIsFree
<1>13. CASE Aax!DrainReturns \/ Aax!SignalLatencyChanged \/ Aax!DelayCompensationState \/ Aax!OfflineMode \/ Aax!AwaitAnswer
  BY <1>1, <1>13 DEF Aax!DrainReturns, Aax!SignalLatencyChanged, Aax!DelayCompensationState, Aax!OfflineMode,
                     Aax!AwaitAnswer, Aax!Runtime, Aax!host, Aax!model, Aax!chunks
<1>14. ASSUME NEW note, Aax!Render(note) PROVE AaxCached'
  BY <1>1, <1>14 DEF Aax!Render, Aax!host, Aax!model, Aax!chunks
<1>15. CASE Aax!UpdateStep
  <2>1. /\ main.todo # <<>> /\ UNCHANGED cached
        /\ main' = Aax!Moved([main EXCEPT !.todo = Tail(@)])
    BY <1>15 DEF Aax!UpdateStep
  <2>2. /\ Head(main.todo) \in {"value", "bypassed", "revision"} /\ Tail(main.todo) \in Updating
        /\ Head(main.todo) # "revision" => Tail(main.todo) # <<>> /\ Head(Tail(main.todo)) = "revision"
    BY <2>1, UpdatesStep DEF AaxCached
  <2>3. main'.todo = Tail(main.todo) /\ {"todo", "chunk"} = DOMAIN main' /\ (main'.todo = <<>> <=> main' = Aax!Idle)
    BY <2>1, <2>2 DEF AaxCached, Aax!Moved, Aax!Idle
  <2>4. CASE Head(main.todo) = "revision"
    <3>1. revision' = revision + 1 /\ counted' = mirror /\ UNCHANGED <<mirror, saver>>
      BY <1>15, <2>4 DEF Aax!UpdateStep
    <3> QED BY <2>1, <2>2, <2>3, <3>1 DEF AaxCached, Aax!MainIsFree
  <2>5. CASE Head(main.todo) # "revision"
    <3>1. /\ UNCHANGED <<revision, counted>> /\ saver' = Aax!Watched
          /\ mirror' = [mirror EXCEPT ![Head(main.todo)] = main.chunk[Head(main.todo)]]
      BY <1>15, <2>5 DEF Aax!UpdateStep
    <3>2. Kept(mirror')
      BY <2>2, <2>5, <3>1 DEF AaxCached, Kept
    <3>3. counted = mirror
      BY <2>1, <2>5 DEF AaxCached
    <3>4. \A image : Between(image) => Between(image)'
      BY <3>1, <3>3 DEF Between, Kept
    <3>5. CASE ~(saver # None /\ "key" \in DOMAIN saver)
      <4>1. saver' = saver
        BY <3>1, <3>5 DEF Aax!Watched
      <4> QED BY <2>1, <2>2, <2>3, <2>5, <3>1, <3>2, <3>4, <3>5, <4>1 DEF AaxCached, Aax!MainIsFree
    <3>6. CASE saver # None /\ "key" \in DOMAIN saver
      <4>1. saver' = [saver EXCEPT !.said = @ \cup {mirror'}] /\ "value" \in DOMAIN saver
        BY <3>1, <3>6 DEF Aax!Watched, AaxCached
      <4>2. saver'.key = saver.key /\ saver'.value = saver.value /\ DOMAIN saver' = DOMAIN saver
        BY <3>6, <4>1
      <4>3. saver.key \in Nat /\ saver.key <= revision /\ (saver.key = revision => saver.value = counted.value)
        BY <3>3, <3>6 DEF AaxCached
      <4> QED BY <2>1, <2>2, <2>3, <2>5, <3>1, <3>2, <3>4, <3>6, <4>1, <4>2, <4>3 DEF AaxCached, Aax!MainIsFree
    <3> QED BY <3>5, <3>6
  <2> QED BY <2>4, <2>5
<1>16. CASE UNCHANGED Aax!aaxVars
  BY <1>1, <1>16 DEF Aax!aaxVars, Aax!model, Aax!chunks
<1> QED BY <1>3, <1>4, <1>5, <1>6, <1>7, <1>8, <1>9, <1>10, <1>11, <1>12, <1>13, <1>14, <1>15, <1>16
        DEF Aax!Next, Aax!Working

LEMMA AaxChosenKept ==
    ASSUME AaxCached, AaxChosen, [Aax!Next]_(Aax!aaxVars) PROVE AaxChosen'
<1>1. ASSUME UNCHANGED <<mirror, main, pendingLoad, chosen>> PROVE AaxChosen'
  BY <1>1 DEF AaxChosen, Loaded
<1>2. ASSUME UNCHANGED pendingLoad, chosen' = IF pendingLoad = None THEN None ELSE chosen PROVE AaxChosen'
  BY <1>2 DEF AaxChosen
<1>3. ASSUME NEW v \in Values, Aax!UpdateParameter(v) PROVE AaxChosen'
  BY <1>2, <1>3 DEF Aax!UpdateParameter
<1>4. ASSUME NEW on \in BOOLEAN, Aax!UpdateBypass(on) PROVE AaxChosen'
  BY <1>2, <1>4 DEF Aax!UpdateBypass
<1>5. ASSUME NEW on \in BOOLEAN, Aax!InitInstance(on) PROVE AaxChosen'
  BY <1>1, <1>5 DEF Aax!InitInstance, Aax!host, Aax!model, Aax!chunks
<1>6. ASSUME NEW chunk, main'.todo = Loading, main'.chunk = chunk PROVE Loaded(chunk)'
  BY <1>6 DEF Loaded, Loading
<1>7. ASSUME NEW chunk \in Sessions, Aax!SetChunk(chunk) PROVE AaxChosen'
  <2>1. pendingLoad' = None /\ chosen' = chunk /\ main' = [todo |-> Loading, chunk |-> chunk]
    BY <1>7, UpdatesStep DEF Aax!SetChunk
  <2>2. Kept(chunk)
    BY SessionsRecorded DEF Kept
  <2> QED BY <1>6, <2>1, <2>2 DEF AaxChosen, Loaded
<1>8. ASSUME NEW chunk \in Sessions, Aax!SetChunkElsewhere(chunk) PROVE AaxChosen'
  <2>1. Kept(chunk)
    BY SessionsRecorded DEF Kept
  <2> QED BY <1>8, <2>1 DEF Aax!SetChunkElsewhere, AaxChosen
<1>9. CASE Aax!GenerateCoefficients \/ Aax!Deliver
  BY <1>1, <1>9 DEF Aax!GenerateCoefficients, Aax!Deliver, Aax!model, Aax!chunks
<1>10. CASE Aax!TimerWakeup
  <2>1. CASE pendingLoad = None
    BY <1>1, <1>10, <2>1 DEF Aax!TimerWakeup
  <2>2. CASE pendingLoad # None
    <3>1. pendingLoad' = None /\ main' = [todo |-> Loading, chunk |-> pendingLoad] /\ UNCHANGED <<mirror, chosen>>
      BY <1>10, <2>2, UpdatesStep DEF Aax!TimerWakeup
    <3>2. chosen = pendingLoad
      BY <2>2 DEF AaxChosen
    <3> QED BY <1>6, <3>1, <3>2 DEF AaxChosen, Loaded
  <2> QED BY <2>1, <2>2
<1>11. CASE Aax!GetChunkSize \/ Aax!BuildChunk \/ Aax!GetChunk
  BY <1>1, <1>11 DEF Aax!GetChunkSize, Aax!BuildChunk, Aax!GetChunk, Aax!savers, Aax!model
<1>12. CASE Aax!DrainReturns \/ Aax!SignalLatencyChanged \/ Aax!DelayCompensationState \/ Aax!OfflineMode \/ Aax!AwaitAnswer
  BY <1>1, <1>12 DEF Aax!DrainReturns, Aax!SignalLatencyChanged, Aax!DelayCompensationState, Aax!OfflineMode,
                     Aax!AwaitAnswer, Aax!Runtime, Aax!host, Aax!model, Aax!chunks
<1>13. ASSUME NEW note, Aax!Render(note) PROVE AaxChosen'
  BY <1>1, <1>13 DEF Aax!Render, Aax!host, Aax!model, Aax!chunks
<1>14. CASE Aax!UpdateStep
  <2>1. /\ main.todo # <<>> /\ UNCHANGED <<pendingLoad, chosen>>
        /\ main' = Aax!Moved([main EXCEPT !.todo = Tail(@)])
    BY <1>14 DEF Aax!UpdateStep
  <2>2. main.todo \in Updating /\ DOMAIN main = {"todo", "chunk"}
    BY <2>1 DEF AaxCached
  <2>3. main'.todo = Tail(main.todo) /\ (main'.todo # <<>> => main'.chunk = main.chunk)
    BY <2>1, <2>2 DEF Aax!Moved, Aax!Idle
  <2>4. ASSUME chosen # None, pendingLoad = None PROVE Loaded(chosen)'
    <3>1. Loaded(chosen)
      BY <2>4 DEF AaxChosen
    <3>2. IF Head(main.todo) = "revision" THEN UNCHANGED mirror
          ELSE mirror' = [mirror EXCEPT ![Head(main.todo)] = main.chunk[Head(main.todo)]]
      BY <1>14 DEF Aax!UpdateStep
    <3>3. Kept(mirror) /\ main.chunk = chosen
      BY <2>1, <3>1 DEF AaxCached, Loaded
    <3>4. CASE main.todo = Loading
      <4>1. Head(main.todo) = "value" /\ main'.todo = <<"revision", "bypassed", "revision", "revision">>
        BY <2>3, <3>4, UpdatesStep
      <4>2. mirror'.value = chosen.value
        BY <3>2, <3>3, <4>1 DEF Kept
      <4>3. main'.chunk = chosen
        <5>1. <<"revision", "bypassed", "revision", "revision">> # <<>>
          OBVIOUS
        <5> QED BY <2>3, <3>3, <4>1, <5>1
      <4>5. /\ <<"revision", "bypassed", "revision", "revision">> # <<"revision">>
            /\ <<"revision", "bypassed", "revision", "revision">> # <<"revision", "revision">>
            /\ <<"revision", "bypassed", "revision", "revision">> # <<>>
        OBVIOUS
      <4>6. chosen' = chosen
        BY <2>1
      <4> QED BY <3>1, <4>1, <4>2, <4>3, <4>5, <4>6, Zenon DEF Loaded
    <3>5. CASE main.todo = <<"revision", "bypassed", "revision", "revision">>
      <4>1. Head(main.todo) = "revision" /\ main'.todo = <<"bypassed", "revision", "revision">>
        BY <2>3, <3>5, UpdatesStep, HeadTailProperties
      <4>2. main.todo # Loading /\ UNCHANGED mirror
        BY <3>2, <3>5, <4>1 DEF Loading
      <4>3. /\ <<"bypassed", "revision", "revision">> # <<"revision">>
            /\ <<"bypassed", "revision", "revision">> # <<"revision", "revision">>
            /\ <<"bypassed", "revision", "revision">> # <<>>
        OBVIOUS
      <4>4. chosen' = chosen /\ main'.chunk = chosen
        BY <2>1, <2>3, <3>3, <4>1, <4>3
      <4> QED BY <3>1, <4>1, <4>2, <4>3, <4>4, Zenon DEF Loaded
    <3>6. CASE main.todo = <<"bypassed", "revision", "revision">>
      <4>1. Head(main.todo) = "bypassed" /\ main'.todo = <<"revision", "revision">>
        BY <2>3, <3>6, UpdatesStep, HeadTailProperties
      <4>2. mirror'.bypassed = chosen.bypassed /\ mirror'.value = mirror.value
        BY <3>2, <3>3, <4>1 DEF Kept
      <4>3. mirror.value = chosen.value
        <5>1. main.todo # Loading
          BY <3>6 DEF Loading
        <5> QED BY <3>1, <5>1 DEF Loaded
      <4>4. main'.chunk = chosen
        <5>1. <<"revision", "revision">> # <<>>
          OBVIOUS
        <5> QED BY <2>3, <3>3, <4>1, <5>1
      <4>5. chosen' = chosen
        BY <2>1
      <4> QED BY <3>1, <4>1, <4>2, <4>3, <4>4, <4>5, Zenon DEF Loaded
    <3>7. CASE main.todo = <<"revision", "revision">>
      BY <2>1, <2>2, <2>3, <3>1, <3>2, <3>3, <3>7, UpdatesStep DEF Loaded, Kept, Loading
    <3>8. CASE main.todo = <<"revision">>
      BY <2>1, <2>2, <2>3, <3>1, <3>2, <3>3, <3>8, UpdatesStep DEF Loaded, Kept, Loading
    <3> QED BY <2>1, <3>1, <3>4, <3>5, <3>6, <3>7, <3>8 DEF Loaded
  <2> QED BY <2>1, <2>4 DEF AaxChosen
<1>15. CASE UNCHANGED Aax!aaxVars
  BY <1>1, <1>15 DEF Aax!aaxVars, Aax!model, Aax!chunks
<1> QED BY <1>3, <1>4, <1>5, <1>7, <1>8, <1>9, <1>10, <1>11, <1>12, <1>13, <1>14, <1>15 DEF Aax!Next, Aax!Working

\* While main is free and nothing waits, the mirror is what was loaded.
LEMMA AaxHoldsChosen ==
    ASSUME AaxCached, AaxChosen, Aax!MainIsFree, chosen # None, pendingLoad = None PROVE mirror = chosen
<1>1. main.todo = <<>> /\ Loaded(chosen) /\ Kept(chosen) /\ Kept(mirror)
  BY DEF AaxCached, AaxChosen
<1>2. mirror.value = chosen.value /\ mirror.bypassed = chosen.bypassed
  BY <1>1, UpdatesStep DEF Loaded
<1> QED BY <1>1, <1>2 DEF Kept

LEMMA AaxSavedKept ==
    ASSUME AaxCached, AaxChosen, AaxSaved, [Aax!Next]_(Aax!aaxVars) PROVE AaxSaved'
<1>1. ASSUME UNCHANGED <<mirror, saver>> PROVE AaxSaved'
  BY <1>1 DEF AaxSaved, Aax!SaveAfterLoad
<1>2. CASE \E v \in Values : Aax!UpdateParameter(v)
  BY <1>1, <1>2 DEF Aax!UpdateParameter, Aax!model
<1>3. CASE \E on \in BOOLEAN : Aax!UpdateBypass(on) \/ Aax!InitInstance(on)
  BY <1>1, <1>3 DEF Aax!UpdateBypass, Aax!InitInstance, Aax!host, Aax!model, Aax!chunks
<1>4. CASE \E chunk \in Sessions : Aax!SetChunk(chunk) \/ Aax!SetChunkElsewhere(chunk)
  BY <1>1, <1>4 DEF Aax!SetChunk, Aax!SetChunkElsewhere, Aax!model
<1>5. CASE Aax!GenerateCoefficients \/ Aax!Deliver \/ Aax!TimerWakeup
  BY <1>1, <1>5 DEF Aax!GenerateCoefficients, Aax!Deliver, Aax!TimerWakeup, Aax!model, Aax!chunks
<1>6. CASE Aax!GetChunkSize
  <2> DEFINE after == IF Aax!MainIsFree THEN chosen ELSE None
  <2>1. UNCHANGED mirror /\ Kept(mirror) /\ Kept(counted)
    BY <1>6 DEF Aax!GetChunkSize, Aax!savers, Aax!model, AaxCached
  <2>2. CASE pendingLoad # None
    <3>1. saver' = [image |-> pendingLoad, said |-> {pendingLoad}, after |-> chosen]
      BY <1>6, <2>2 DEF Aax!GetChunkSize
    <3>2. pendingLoad = chosen /\ Kept(chosen)
      BY <2>2 DEF AaxChosen
    <3> QED BY <3>1, <3>2 DEF AaxSaved, Aax!SaveAfterLoad
  <2>3. after # None /\ pendingLoad = None => mirror = after
    BY AaxHoldsChosen
  <2>4. CASE pendingLoad = None /\ cached # None /\ cached.key = revision
    <3>1. saver' = [image |-> cached.image, said |-> {counted, mirror}, after |-> after]
      BY <1>6, <2>4 DEF Aax!GetChunkSize
    <3>2. Between(cached.image)
      BY <2>4 DEF AaxCached
    <3>3. counted = mirror => cached.image = mirror
      BY <2>1, <3>2 DEF Between, Kept
    <3> QED BY <2>1, <2>3, <2>4, <3>1, <3>2, <3>3 DEF AaxSaved, Aax!SaveAfterLoad, Between
  <2>5. CASE pendingLoad = None /\ ~(cached # None /\ cached.key = revision)
    <3>1. saver' = [key |-> revision, value |-> mirror.value, said |-> {mirror}, after |-> after]
      BY <1>6, <2>5, Zenon DEF Aax!GetChunkSize
    <3> HIDE DEF after
    <3> QED BY <2>1, <2>3, <2>5, <3>1 DEF AaxSaved, Aax!SaveAfterLoad
  <2> QED BY <2>2, <2>4, <2>5
<1>7. CASE Aax!BuildChunk
  <2> DEFINE image == [value |-> saver.value, bypassed |-> mirror.bypassed]
  <2>1. UNCHANGED mirror /\ saver # None /\ "key" \in DOMAIN saver
    BY <1>7 DEF Aax!BuildChunk, Aax!savers, Aax!model
  <2>2. saver' = [image |-> image, said |-> saver.said, after |-> saver.after]
    BY <1>7 DEF Aax!BuildChunk
  <2>3. /\ mirror \in saver.said /\ \E s \in saver.said : s.value = saver.value
        /\ saver.after # None => saver.after \in saver.said
        /\ \A s \in saver.said : Kept(s)
    BY <2>1 DEF AaxSaved
  <2>4. \A f \in {"value", "bypassed"} : \E s \in saver.said : image[f] = s[f]
    BY <2>3
  <2>5. ASSUME NEW s \in saver.said, saver.said = {s}, saver.after # None PROVE image = saver.after
    <3>1. mirror = s /\ saver.after = s /\ s.value = saver.value /\ Kept(s)
      BY <2>3, <2>5
    <3> QED BY <3>1 DEF Kept
  <2> HIDE DEF image
  <2> QED BY <2>2, <2>3, <2>4, <2>5 DEF AaxSaved, Aax!SaveAfterLoad
<1>8. CASE Aax!GetChunk
  BY <1>8 DEF Aax!GetChunk, AaxSaved, Aax!SaveAfterLoad
<1>9. CASE Aax!DrainReturns \/ Aax!SignalLatencyChanged \/ Aax!DelayCompensationState \/ Aax!OfflineMode \/ Aax!AwaitAnswer
  BY <1>1, <1>9 DEF Aax!DrainReturns, Aax!SignalLatencyChanged, Aax!DelayCompensationState, Aax!OfflineMode,
                    Aax!AwaitAnswer, Aax!Runtime, Aax!host, Aax!model, Aax!chunks
<1>10. ASSUME NEW note, Aax!Render(note) PROVE AaxSaved'
  BY <1>1, <1>10 DEF Aax!Render, Aax!host, Aax!model, Aax!chunks
<1>11. CASE Aax!UpdateStep
  <2>1. CASE Head(main.todo) = "revision"
    BY <1>1, <1>11, <2>1 DEF Aax!UpdateStep
  <2>2. CASE Head(main.todo) # "revision"
    <3>1. saver' = Aax!Watched
      BY <1>11, <2>2 DEF Aax!UpdateStep
    <3>2. Kept(mirror')
      BY AaxCachedKept DEF AaxCached
    <3>3. CASE saver # None /\ "key" \in DOMAIN saver
      <4>1. /\ saver' = [saver EXCEPT !.said = @ \cup {mirror'}] /\ {"said", "after"} \subseteq DOMAIN saver
            /\ \A s \in saver.said : Kept(s)
        BY <3>1, <3>3 DEF Aax!Watched, AaxSaved
      <4>2. /\ DOMAIN saver' = DOMAIN saver /\ saver'.said = saver.said \cup {mirror'}
            /\ saver'.after = saver.after /\ ("value" \in DOMAIN saver => saver'.value = saver.value)
        BY <4>1
      <4> QED BY <3>2, <3>3, <4>1, <4>2 DEF AaxSaved, Aax!SaveAfterLoad
    <3>4. CASE ~(saver # None /\ "key" \in DOMAIN saver)
      BY <3>1, <3>4 DEF Aax!Watched, AaxSaved, Aax!SaveAfterLoad
    <3> QED BY <3>3, <3>4
  <2> QED BY <2>1, <2>2
<1>12. CASE UNCHANGED Aax!aaxVars
  BY <1>1, <1>12 DEF Aax!aaxVars, Aax!model, Aax!chunks
<1> QED BY <1>2, <1>3, <1>4, <1>5, <1>6, <1>7, <1>8, <1>9, <1>10, <1>11, <1>12 DEF Aax!Next, Aax!Working

LEMMA AaxLoadsInvariance == Aax!Init /\ [][Aax!Next]_(Aax!aaxVars) => []AaxLoads
<1>1. Aax!Init => AaxLoads
  BY DEF Aax!Init, AaxLoads, AaxCached, AaxChosen, AaxSaved, Kept, Aax!Idle, Aax!MainIsFree, Aax!SaveAfterLoad, Updating
<1>2. AaxLoads /\ [Aax!Next]_(Aax!aaxVars) => AaxLoads'
  BY AaxCachedKept, AaxChosenKept, AaxSavedKept DEF AaxLoads
<1> QED BY <1>1, <1>2, PTL

\* Values on their way to the parameters, and the parameters.
AaxValues ==
    /\ "value" \in DOMAIN params /\ params.value <= Top /\ {"todo", "chunk"} \subseteq DOMAIN main
    /\ (main.todo # <<>> => main.chunk.value <= Top) /\ (pendingLoad # None => pendingLoad.value <= Top)

\* What was posted of the host's answers is as it was, and only the last of them is like what is to be posted.
AaxPacket(r) ==
    /\ r.seq \in Nat /\ r.seq <= runtime.seq /\ r.accepted <= Top
    /\ r.seq = runtime.seq => r.accepted = runtime.accepted
AaxPackets ==
    /\ {"seq", "accepted", "offline", "pdc"} \subseteq DOMAIN runtime
    /\ AaxPacket(runtime) /\ AaxPacket(runtimePort) /\ (runtime.seq = 0 => runtime.accepted = 0)
    /\ Listed(posted) /\ \A i \in DOMAIN posted : "runtime" \in DOMAIN posted[i] => AaxPacket(posted[i].runtime)

\* Between a proposal and its answer the host's latency is not yet what was answered.
AaxAnswers ==
    /\ signal <= Top /\ Listed(ring) /\ \A i \in DOMAIN ring : ring[i] <= Top
    /\ direct \in {"idle", "flag"} /\ (direct = "flag" => ring # <<>>)
    /\ ~awaited /\ direct = "idle" => runtime.accepted = signal

\* An algorithm that has taken every answer, with no proposal on its way, runs with what was answered.
AaxQuiet == ring = <<>> /\ ~awaited /\ direct = "idle"
AaxRuns ==
    /\ {"latency", "value"} \subseteq DOMAIN alg.kernel /\ {"latency", "max"} \subseteq DOMAIN alg.bypass
    /\ alg.latSeq \in Nat /\ alg.latSeq <= runtime.seq /\ (~alg.made => alg = Aax!NoAlg)
    /\ alg.made => alg.bypass.max = Top /\ alg.kernel.latency = alg.bypass.latency
    /\ AaxQuiet => /\ alg.made /\ alg.latSeq = runtime.seq => alg.kernel.latency = runtime.accepted
                   /\ runtime.seq = 0 => alg.reported = runtime.accepted

AaxLatency == AaxValues /\ AaxPackets /\ AaxAnswers /\ AaxRuns

LEMMA AaxValuesKept == AaxValues /\ [Aax!Next]_(Aax!aaxVars) => AaxValues'
<1> SUFFICES ASSUME AaxValues, [Aax!Next]_(Aax!aaxVars) PROVE AaxValues'
  OBVIOUS
<1> USE Longest, AaxLongest
<1>1. ASSUME UNCHANGED <<params, main, pendingLoad>> PROVE AaxValues'
  BY <1>1 DEF AaxValues
<1>2. ASSUME NEW v \in Values, Aax!UpdateParameter(v) PROVE AaxValues'
  BY <1>2 DEF AaxValues, Aax!UpdateParameter, Aax!model
<1>3. ASSUME NEW on \in BOOLEAN, Aax!UpdateBypass(on) PROVE AaxValues'
  BY <1>3 DEF AaxValues, Aax!UpdateBypass, Aax!model
<1>4. CASE Aax!UpdateStep
  <2> DEFINE m == [main EXCEPT !.todo = Tail(@)]
             field == Head(main.todo)
  <2>1. /\ main.todo # <<>> /\ main' = Aax!Moved(m) /\ UNCHANGED pendingLoad
        /\ params' = params \/ params' = [params EXCEPT ![field] = main.chunk[field]]
    BY <1>4 DEF Aax!UpdateStep
  <2>2. /\ {"todo", "chunk"} \subseteq DOMAIN m /\ m.chunk = main.chunk
    BY DEF AaxValues
  <2>3. "value" \in DOMAIN params' /\ params'.value <= Top
    <3> HIDE DEF m, field
    <3>1. CASE field = "value"
      BY <2>1, <3>1 DEF AaxValues
    <3>2. CASE field # "value"
      BY <2>1, <3>2 DEF AaxValues
    <3> QED BY <3>1, <3>2
  <2> HIDE DEF m, field
  <2>4. {"todo", "chunk"} \subseteq DOMAIN main' /\ (main'.todo # <<>> => main'.chunk.value <= Top)
    BY <2>1, <2>2 DEF AaxValues, Aax!Moved, Aax!Idle
  <2> QED BY <2>1, <2>3, <2>4 DEF AaxValues
<1>5. CASE Aax!TimerWakeup
  <2>1. /\ pendingLoad' = None /\ UNCHANGED params
        /\ main' = IF pendingLoad = None THEN main
                   ELSE [todo |-> Aax!Update \o <<"bypassed", "revision", "revision">>, chunk |-> pendingLoad]
    BY <1>5 DEF Aax!TimerWakeup
  <2> QED BY <2>1 DEF AaxValues
<1>6. ASSUME NEW chunk \in Sessions, Aax!SetChunk(chunk) PROVE AaxValues'
  BY <1>6, Longest, SessionsRecorded DEF AaxValues, Aax!SetChunk, Aax!model
<1>7. ASSUME NEW chunk \in Sessions, Aax!SetChunkElsewhere(chunk) PROVE AaxValues'
  BY <1>7, Longest, SessionsRecorded DEF AaxValues, Aax!SetChunkElsewhere, Aax!model
<1>8. ASSUME NEW wiped \in BOOLEAN, Aax!InitInstance(wiped) PROVE AaxValues'
  BY <1>8, <1>1 DEF Aax!InitInstance, Aax!host, Aax!model, Aax!chunks
<1>9. ASSUME NEW note, Aax!Render(note) PROVE AaxValues'
  BY <1>9, <1>1 DEF Aax!Render, Aax!host, Aax!model, Aax!chunks
<1>10. CASE Aax!GenerateCoefficients \/ Aax!Deliver \/ Aax!GetChunkSize \/ Aax!BuildChunk \/ Aax!GetChunk
  BY <1>10, <1>1 DEF Aax!GenerateCoefficients, Aax!Deliver, Aax!GetChunkSize, Aax!BuildChunk, Aax!GetChunk, Aax!savers,
                     Aax!model, Aax!chunks
<1>11. CASE Aax!DrainReturns \/ Aax!SignalLatencyChanged \/ Aax!DelayCompensationState \/ Aax!OfflineMode \/ Aax!AwaitAnswer
  BY <1>11, <1>1 DEF Aax!DrainReturns, Aax!SignalLatencyChanged, Aax!DelayCompensationState, Aax!OfflineMode,
                     Aax!AwaitAnswer, Aax!Runtime, Aax!host, Aax!model, Aax!chunks
<1>12. CASE UNCHANGED Aax!aaxVars
  BY <1>12, <1>1 DEF Aax!aaxVars, Aax!model, Aax!chunks
<1> QED BY <1>2, <1>3, <1>4, <1>5, <1>6, <1>7, <1>8, <1>9, <1>10, <1>11, <1>12 DEF Aax!Next, Aax!Working

LEMMA AaxPacketsKept == AaxPackets /\ AaxAnswers /\ [Aax!Next]_(Aax!aaxVars) => AaxPackets'
<1> SUFFICES ASSUME AaxPackets, AaxAnswers, [Aax!Next]_(Aax!aaxVars) PROVE AaxPackets'
  OBVIOUS
<1>1. ASSUME UNCHANGED <<runtime, runtimePort, posted>> PROVE AaxPackets'
  BY <1>1 DEF AaxPackets, AaxPacket
<1>2. ASSUME UNCHANGED <<runtime, runtimePort>>, Listed(posted'),
             \A i \in DOMAIN posted' : \/ \E j \in DOMAIN posted : posted'[i] = posted[j]
                                       \/ "runtime" \in DOMAIN posted'[i] => posted'[i].runtime = runtime
      PROVE  AaxPackets'
  <2>1. ASSUME NEW i \in DOMAIN posted', "runtime" \in DOMAIN posted'[i] PROVE AaxPacket(posted'[i].runtime)
    BY <1>2, <2>1 DEF AaxPackets
  <2>2. \A r : AaxPacket(r) => AaxPacket(r)'
    BY <1>2 DEF AaxPacket
  <2> QED BY <1>2, <2>1, <2>2 DEF AaxPackets, AaxPacket
<1> DEFINE send == <<[runtime |-> runtime]>>
<1>3. Listed(send) /\ (\A i \in DOMAIN send : send[i] = [runtime |-> runtime])
  BY Lists
<1>4. CASE Aax!GenerateCoefficients
  <2> DEFINE first == IF runtimeDirty THEN send ELSE <<>>
             new == <<[coefs |-> [seq |-> segment.seq + 1, settings |-> params]]>>
             last == IF dirty THEN new ELSE <<>>
             most == posted \o first
  <2>1. Listed(<<>>) /\ Listed(first) /\ Listed(new) /\ Listed(posted)
    BY <1>3, Lists DEF AaxPackets
  <2>2. \A i \in DOMAIN first : first[i] = [runtime |-> runtime]
    BY <1>3
  <2>3. \A i \in DOMAIN new : DOMAIN new[i] = {"coefs"}
    OBVIOUS
  <2>4. Listed(most)
    BY <2>1, Lists, Zenon
  <2>5. UNCHANGED <<runtime, runtimePort>> /\ posted' = IF dirty THEN most \o new ELSE most
    BY <1>4 DEF Aax!GenerateCoefficients
  <2>6. ASSUME NEW i \in DOMAIN most
        PROVE  (\E j \in DOMAIN posted : most[i] = posted[j]) \/ most[i] = [runtime |-> runtime]
    <3>1. (\E j \in DOMAIN posted : most[i] = posted[j]) \/ (\E j \in DOMAIN first : most[i] = first[j])
      BY <2>1, JoinedHolds
    <3> HIDE DEF most, first
    <3> QED BY <2>2, <3>1
  <2> HIDE DEF most, new
  <2>7. CASE dirty
    <3>1. Listed(posted')
      BY <2>1, <2>4, <2>5, <2>7, Lists
    <3>2. ASSUME NEW i \in DOMAIN posted'
          PROVE  \/ \E j \in DOMAIN posted : posted'[i] = posted[j]
                 \/ "runtime" \in DOMAIN posted'[i] => posted'[i].runtime = runtime
      <4>1. posted' = most \o new
        BY <2>5, <2>7
      <4>2. (\E j \in DOMAIN most : posted'[i] = most[j]) \/ (\E j \in DOMAIN new : posted'[i] = new[j])
        BY <2>1, <2>4, <4>1, JoinedHolds
      <4> QED BY <2>3, <2>6, <4>2
    <3> QED BY <1>2, <2>5, <3>1, <3>2
  <2>8. CASE ~dirty
    <3>1. posted' = most
      BY <2>5, <2>8
    <3>2. ASSUME NEW i \in DOMAIN posted'
          PROVE  \/ \E j \in DOMAIN posted : posted'[i] = posted[j]
                 \/ "runtime" \in DOMAIN posted'[i] => posted'[i].runtime = runtime
      BY <2>6, <3>1
    <3> QED BY <1>2, <2>4, <2>5, <3>1, <3>2
  <2> QED BY <2>7, <2>8
<1>5. CASE Aax!TimerWakeup
  <2>1. UNCHANGED <<runtime, runtimePort>> /\ posted' = IF runtimeDirty THEN Append(posted, [runtime |-> runtime]) ELSE posted
    BY <1>5 DEF Aax!TimerWakeup
  <2>2. CASE runtimeDirty
    <3>1. posted' = Append(posted, [runtime |-> runtime])
      BY <2>1, <2>2
    <3>2. Listed(posted')
      BY <3>1, Lists DEF AaxPackets
    <3>3. posted' = posted \o send
      <4> DEFINE S == {posted[i] : i \in DOMAIN posted} \cup {[runtime |-> runtime]}
      <4>1. posted \in Seq(S) /\ [runtime |-> runtime] \in S
        BY DEF AaxPackets, Listed
      <4> HIDE DEF S
      <4> QED BY <3>1, <4>1, AppendIsConcat
    <3>4. ASSUME NEW i \in DOMAIN posted'
          PROVE  \/ \E j \in DOMAIN posted : posted'[i] = posted[j]
                 \/ "runtime" \in DOMAIN posted'[i] => posted'[i].runtime = runtime
      <4>1. (\E j \in DOMAIN posted : posted'[i] = posted[j]) \/ (\E j \in DOMAIN send : posted'[i] = send[j])
        BY <1>3, <3>3, JoinedHolds DEF AaxPackets
      <4> HIDE DEF send
      <4> QED BY <1>3, <4>1
    <3> QED BY <1>2, <2>1, <3>2, <3>4
  <2>3. CASE ~runtimeDirty
    BY <2>1, <2>3, <1>1
  <2> QED BY <2>2, <2>3
<1>6. CASE Aax!Deliver
  <2> DEFINE h == Head(posted)
  <2>1. /\ posted # <<>> /\ posted' = Tail(posted) /\ UNCHANGED runtime
        /\ IF "runtime" \in DOMAIN h THEN runtimePort' = h.runtime ELSE UNCHANGED runtimePort
    BY <1>6 DEF Aax!Deliver, Aax!model
  <2>2. /\ Listed(posted') /\ 1 \in DOMAIN posted /\ h = posted[1]
        /\ \A i \in DOMAIN posted' : i + 1 \in DOMAIN posted /\ posted'[i] = posted[i + 1]
    <3> DEFINE S == {posted[i] : i \in DOMAIN posted}
    <3>1. posted \in Seq(S)
      BY DEF AaxPackets, Listed
    <3> HIDE DEF S
    <3>2. /\ Len(posted) \in Nat /\ DOMAIN posted = 1 .. Len(posted) /\ 1 \in DOMAIN posted /\ h = posted[1]
          /\ DOMAIN posted' = 1 .. Len(posted) - 1 /\ \A i \in 1 .. Len(posted) - 1 : posted'[i] = posted[i + 1]
      BY <2>1, <3>1, HeadTailProperties
    <3>3. Listed(posted')
      BY <2>1, Lists DEF AaxPackets
    <3>4. \A i \in 1 .. Len(posted) - 1 : i + 1 \in 1 .. Len(posted)
      BY <3>2
    <3> HIDE DEF h
    <3> QED BY <3>2, <3>3, <3>4
  <2>3. AaxPacket(runtimePort')
    <3>1. CASE "runtime" \in DOMAIN h
      BY <2>1, <2>2, <3>1 DEF AaxPackets
    <3>2. CASE "runtime" \notin DOMAIN h
      BY <2>1, <3>2 DEF AaxPackets
    <3> QED BY <3>1, <3>2
  <2> HIDE DEF h
  <2>4. ASSUME NEW i \in DOMAIN posted', "runtime" \in DOMAIN posted'[i] PROVE AaxPacket(posted'[i].runtime)
    BY <2>2, <2>4 DEF AaxPackets
  <2> QED BY <2>1, <2>2, <2>3, <2>4 DEF AaxPackets, AaxPacket
<1>7. CASE Aax!SignalLatencyChanged
  <2>1. CASE ~awaited
    BY <1>7, <2>1, <1>1 DEF Aax!SignalLatencyChanged, Aax!host, Aax!ports
  <2>2. CASE awaited
    <3>1. runtime' = [runtime EXCEPT !.accepted = signal, !.seq = @ + 1] /\ UNCHANGED <<runtimePort, posted>>
      BY <1>7, <2>2 DEF Aax!SignalLatencyChanged, Aax!Runtime, Aax!ports
    <3>2. /\ {"seq", "accepted", "offline", "pdc"} \subseteq DOMAIN runtime' /\ runtime'.accepted = signal
          /\ runtime'.seq = runtime.seq + 1 /\ runtime.seq \in Nat
      BY <3>1 DEF AaxPackets, AaxPacket
    <3>3. \A r : AaxPacket(r) => AaxPacket(r)'
      BY <3>2 DEF AaxPacket
    <3>4. AaxPacket(runtime)'
      BY <3>2 DEF AaxPacket, AaxAnswers
    <3>5. runtime'.seq # 0
      BY <3>2
    <3>6. AaxPacket(runtimePort)'
      BY <3>1, <3>3 DEF AaxPackets
    <3>7. \A i \in DOMAIN posted : "runtime" \in DOMAIN posted[i] => AaxPacket(posted[i].runtime)'
      <4> SUFFICES ASSUME NEW i \in DOMAIN posted, "runtime" \in DOMAIN posted[i] PROVE AaxPacket(posted[i].runtime)'
        BY <3>1
      <4>1. AaxPacket(posted[i].runtime)
        BY DEF AaxPackets
      <4> QED BY <3>1, <3>2, <4>1 DEF AaxPacket
    <3> QED BY <3>1, <3>2, <3>4, <3>5, <3>6, <3>7 DEF AaxPackets
  <2> QED BY <2>1, <2>2
<1>8. CASE Aax!DelayCompensationState \/ Aax!OfflineMode
  <2>1. /\ UNCHANGED <<runtimePort, posted>> /\ {"seq", "accepted", "offline", "pdc"} \subseteq DOMAIN runtime'
        /\ runtime'.seq = runtime.seq /\ runtime'.accepted = runtime.accepted
    BY <1>8 DEF AaxPackets, Aax!DelayCompensationState, Aax!OfflineMode, Aax!Runtime, Aax!ports
  <2> QED BY <2>1 DEF AaxPackets, AaxPacket
<1>9. ASSUME NEW wiped \in BOOLEAN, Aax!InitInstance(wiped) PROVE AaxPackets'
  BY <1>9, <1>1 DEF Aax!InitInstance, Aax!host, Aax!ports
<1>10. ASSUME NEW note, Aax!Render(note) PROVE AaxPackets'
  BY <1>10, <1>1 DEF Aax!Render, Aax!host, Aax!ports
<1>11. ASSUME NEW v \in Values, Aax!UpdateParameter(v) PROVE AaxPackets'
  BY <1>11, <1>1 DEF Aax!UpdateParameter, Aax!ports
<1>12. ASSUME NEW on \in BOOLEAN, Aax!UpdateBypass(on) PROVE AaxPackets'
  BY <1>12, <1>1 DEF Aax!UpdateBypass, Aax!ports
<1>13. ASSUME NEW chunk \in Sessions, Aax!SetChunk(chunk) \/ Aax!SetChunkElsewhere(chunk) PROVE AaxPackets'
  BY <1>13, <1>1 DEF Aax!SetChunk, Aax!SetChunkElsewhere, Aax!ports
<1>14. CASE Aax!GetChunkSize \/ Aax!BuildChunk \/ Aax!GetChunk \/ Aax!UpdateStep \/ Aax!DrainReturns \/ Aax!AwaitAnswer
  BY <1>14, <1>1 DEF Aax!GetChunkSize, Aax!BuildChunk, Aax!GetChunk, Aax!UpdateStep, Aax!DrainReturns, Aax!AwaitAnswer,
                     Aax!savers, Aax!host, Aax!ports
<1>15. CASE UNCHANGED Aax!aaxVars
  BY <1>15, <1>1 DEF Aax!aaxVars, Aax!ports
<1> QED BY <1>4, <1>5, <1>6, <1>7, <1>8, <1>9, <1>10, <1>11, <1>12, <1>13, <1>14, <1>15 DEF Aax!Next, Aax!Working

\* A block goes by the answer it finds, and changes the latency for nothing else.
AaxFields(a) ==
    /\ {"made", "kernel", "bypass", "names", "seen", "coefSeq", "latSeq", "reported", "offline", "skipped"} \subseteq DOMAIN a
    /\ {"latency", "value"} \subseteq DOMAIN a.kernel /\ {"latency", "max"} \subseteq DOMAIN a.bypass

LEMMA AaxRendersBy ==
    ASSUME AaxInv, AaxPackets, AaxRuns, alg.made, NEW note
    PROVE  LET a == Aax!Plays(Aax!Resumes(Aax!Applies(Aax!Accepts(alg))), note) IN
           /\ AaxFields(a) /\ a.made /\ a.reported = alg.reported /\ a.bypass.max = Top /\ a.bypass.latency = a.kernel.latency
           /\ IF Aax!Answered(alg) THEN a.latSeq = runtimePort.seq /\ a.kernel.latency = runtimePort.accepted
                                   ELSE a.latSeq = alg.latSeq /\ a.kernel.latency = alg.kernel.latency
<1> DEFINE Same(b, c) == /\ AaxFields(c) /\ c.made = b.made /\ c.reported = b.reported /\ c.latSeq = b.latSeq
                         /\ c.bypass.max = b.bypass.max /\ c.bypass.latency = b.bypass.latency
                         /\ c.kernel.latency = b.kernel.latency
           a1 == Aax!Accepts(alg)
           a2 == Aax!Applies(a1)
           a3 == Aax!Resumes(a2)
           a == Aax!Plays(a3, note)
<1>1. AaxFields(alg) /\ alg.bypass.max = Top /\ alg.bypass.latency = alg.kernel.latency
  BY DEF AaxInv, AaxRuns, AaxFields
<1>2. /\ AaxFields(a1) /\ a1.made /\ a1.reported = alg.reported /\ a1.bypass.max = Top
      /\ a1.bypass.latency = a1.kernel.latency
      /\ IF Aax!Answered(alg) THEN a1.latSeq = runtimePort.seq /\ a1.kernel.latency = runtimePort.accepted
                              ELSE a1.latSeq = alg.latSeq /\ a1.kernel.latency = alg.kernel.latency
  <2>1. CASE ~Aax!Answered(alg)
    <3>1. a1 = alg
      BY <2>1 DEF Aax!Accepts
    <3> QED BY <1>1, <2>1, <3>1
  <2>2. CASE Aax!Answered(alg)
    <3>1. runtimePort.accepted <= alg.bypass.max
      BY <1>1 DEF AaxPackets, AaxPacket
    <3>2. a1 = [alg EXCEPT !.latSeq = runtimePort.seq, !.kernel = Aax!Adopt(@, runtimePort.accepted),
                           !.bypass = Aax!SetLatency(@, runtimePort.accepted)]
      BY <2>2 DEF Aax!Accepts
    <3> HIDE DEF a1
    <3>3. /\ a1.latSeq = runtimePort.seq /\ a1.kernel = Aax!Adopt(alg.kernel, runtimePort.accepted)
          /\ a1.bypass = Aax!SetLatency(alg.bypass, runtimePort.accepted) /\ a1.made = alg.made
          /\ a1.reported = alg.reported /\ DOMAIN a1 = DOMAIN alg
      BY <1>1, <3>2 DEF AaxFields
    <3> QED BY <1>1, <2>2, <3>1, <3>3 DEF AaxFields, Aax!Adopt, Aax!SetLatency
  <2> QED BY <2>1, <2>2
<1> HIDE DEF a1
<1>3. Same(a1, a2)
  BY <1>2 DEF AaxFields, Aax!Applies, Aax!Set, Aax!SetBypassed
<1> HIDE DEF a2
<1>4. Same(a1, a3)
  BY <1>3 DEF AaxFields, Aax!Resumes, Aax!Restart
<1> HIDE DEF a3
<1>5. Same(a1, a)
  BY <1>4 DEF AaxFields, Aax!Plays, Aax!NoteOn, Aax!NoteOff
<1> HIDE DEF a
<1> QED BY <1>2, <1>5 DEF a, a3, a2, a1

LEMMA AaxPushes ==
    ASSUME NEW q, Listed(q), NEW l
    PROVE  LET p == Aax!Pushed(q, l) IN
           /\ Listed(p) /\ p # <<>> /\ \A i \in DOMAIN p : p[i] = l \/ \E j \in DOMAIN q : p[i] = q[j]
<1> DEFINE S == {q[i] : i \in DOMAIN q} \cup {l}
           p == Aax!Pushed(q, l)
<1>1. q \in Seq(S) /\ l \in S
  BY DEF Listed
<1> HIDE DEF S
<1>2. CASE Len(q) < RingSize
  <2>1. p = Append(q, l)
    BY <1>2 DEF Aax!Pushed
  <2>2. Listed(p)
    BY <2>1, Lists
  <2>3. /\ p \in Seq(S) /\ Len(p) = Len(q) + 1 /\ p # <<>> /\ Len(q) \in Nat /\ DOMAIN q = 1 .. Len(q)
        /\ (\A i \in 1 .. Len(q) : p[i] = q[i]) /\ p[Len(q) + 1] = l
    BY <1>1, <2>1, AppendProperties
  <2> HIDE DEF p
  <2>4. \A i \in DOMAIN p : i \in 1 .. Len(q) \/ i = Len(q) + 1
    BY <2>3
  <2> QED BY <2>2, <2>3, <2>4 DEF p
<1>3. CASE ~(Len(q) < RingSize)
  <2>1. p = q
    BY <1>3 DEF Aax!Pushed
  <2>2. Len(q) \in Nat /\ Len(q) # 0
    BY <1>1, <1>3, RingsTake
  <2>3. q # <<>>
    BY <2>2
  <2> HIDE DEF p
  <2> QED BY <2>1, <2>3 DEF p
<1> QED BY <1>2, <1>3

LEMMA AaxAnswersKept ==
    AaxInv /\ AaxLatency /\ [Aax!Next]_(Aax!aaxVars) => AaxAnswers'
<1> SUFFICES ASSUME AaxInv, AaxLatency, [Aax!Next]_(Aax!aaxVars) PROVE AaxAnswers'
  OBVIOUS
<1>1. ASSUME UNCHANGED <<signal, ring, direct, awaited>>, runtime'.accepted = runtime.accepted PROVE AaxAnswers'
  BY <1>1 DEF AaxLatency, AaxAnswers
<1>2. ASSUME NEW wiped \in BOOLEAN, Aax!InitInstance(wiped) PROVE AaxAnswers'
  <2> DEFINE r0 == IF wiped THEN <<>> ELSE ring
  <2>1. PICK a : /\ a = Aax!Adopted(Aax!Constructed(wiped), Aax!Snapshot)
                 /\ ring' = IF Aax!Latency(a.seen) # a.reported THEN Aax!Pushed(r0, Aax!Latency(a.seen)) ELSE r0
    BY <1>2, Zenon DEF Aax!InitInstance, r0
  <2>2. UNCHANGED <<runtime, signal, awaited, direct>> /\ direct = "idle"
    BY <1>2 DEF Aax!InitInstance
  <2>3. Aax!Latency(a.seen) <= Top
    <3>1. DOMAIN Aax!Constructed(wiped) = DOMAIN alg \/ DOMAIN Aax!Constructed(wiped) = DOMAIN Aax!NoAlg
      BY DEF Aax!Constructed
    <3>2. "seen" \in DOMAIN Aax!Constructed(wiped)
      BY <3>1 DEF AaxInv, Aax!NoAlg
    <3>3. a.seen = params.value
      BY <2>1, <3>2 DEF Aax!Adopted, Aax!Snapshot
    <3> QED BY <3>3 DEF AaxLatency, AaxValues, Aax!Latency
  <2>4. Listed(r0) /\ \A i \in DOMAIN r0 : r0[i] <= Top
    BY Lists DEF AaxLatency, AaxAnswers
  <2> HIDE DEF r0
  <2> DEFINE l == Aax!Latency(a.seen)
  <2> HIDE DEF l
  <2>5. Listed(ring') /\ \A i \in DOMAIN ring' : ring'[i] <= Top
    <3>1. CASE ring' = r0
      BY <2>4, <3>1
    <3>2. CASE ring' = Aax!Pushed(r0, l)
      <4>1. Listed(ring') /\ \A i \in DOMAIN ring' : ring'[i] = l \/ \E j \in DOMAIN r0 : ring'[i] = r0[j]
        BY <2>4, <3>2, AaxPushes
      <4>2. l <= Top
        BY <2>3 DEF l
      <4> QED BY <2>4, <4>1, <4>2
    <3> QED BY <2>1, <3>1, <3>2 DEF l
  <2> QED BY <2>2, <2>5 DEF AaxLatency, AaxAnswers
<1>3. ASSUME NEW note, Aax!Render(note) PROVE AaxAnswers'
  <2> DEFINE a == Aax!Plays(Aax!Resumes(Aax!Applies(Aax!Accepts(alg))), note)
             wants == Aax!Proposed(a) \notin {None, a.reported} /\ Aax!Admits(a.bypass, Aax!Proposed(a)) /\ runtimePort.pdc
             l == Aax!Proposed(a)
  <2>1. /\ ring' = (IF wants THEN Aax!Pushed(ring, l) ELSE ring) /\ UNCHANGED <<runtime, signal, awaited, direct>> /\ alg.made
    BY <1>3, Zenon DEF Aax!Render, a, wants, l
  <2>2. a.bypass.max = Top
    BY <2>1, AaxRendersBy DEF AaxLatency
  <2>3. wants => l <= Top
    BY <2>2 DEF Aax!Admits
  <2> HIDE DEF a, wants, l
  <2>4. CASE wants
    <3>1. Listed(ring') /\ ring' # <<>> /\ \A i \in DOMAIN ring' : ring'[i] = l \/ \E j \in DOMAIN ring : ring'[i] = ring[j]
      BY <2>1, <2>4, AaxPushes DEF AaxLatency, AaxAnswers
    <3>2. \A i \in DOMAIN ring' : ring'[i] <= Top
      BY <2>3, <2>4, <3>1 DEF AaxLatency, AaxAnswers
    <3> QED BY <2>1, <3>1, <3>2 DEF AaxLatency, AaxAnswers
  <2>5. CASE ~wants
    BY <2>1, <2>5, <1>1
  <2> QED BY <2>4, <2>5
<1>4. CASE Aax!DrainReturns
  <2>1. /\ ring # <<>> /\ signal' = Head(ring) /\ direct' = "flag" /\ UNCHANGED ring
    BY <1>4 DEF Aax!DrainReturns
  <2>2. 1 \in DOMAIN ring /\ Head(ring) = ring[1]
    <3> DEFINE S == {ring[i] : i \in DOMAIN ring}
    <3>1. ring \in Seq(S)
      BY DEF AaxLatency, AaxAnswers, Listed
    <3> HIDE DEF S
    <3> QED BY <2>1, <3>1
  <2> QED BY <2>1, <2>2 DEF AaxLatency, AaxAnswers
<1>5. CASE Aax!AwaitAnswer
  <2>1. direct = "flag" /\ direct' = "idle" /\ awaited' /\ ring' = Tail(ring) /\ UNCHANGED signal /\ ring # <<>>
    BY <1>5 DEF Aax!AwaitAnswer, AaxLatency, AaxAnswers
  <2>2. Listed(ring')
    BY <2>1, Lists DEF AaxLatency, AaxAnswers
  <2>3. \A i \in DOMAIN ring' : i + 1 \in DOMAIN ring /\ ring'[i] = ring[i + 1]
    <3> DEFINE S == {ring[i] : i \in DOMAIN ring}
    <3>1. ring \in Seq(S)
      BY DEF AaxLatency, AaxAnswers, Listed
    <3> HIDE DEF S
    <3>2. /\ Len(ring) \in Nat /\ DOMAIN ring = 1 .. Len(ring) /\ DOMAIN ring' = 1 .. Len(ring) - 1
          /\ \A i \in 1 .. Len(ring) - 1 : ring'[i] = ring[i + 1]
      BY <2>1, <3>1, HeadTailProperties
    <3>3. \A i \in 1 .. Len(ring) - 1 : i + 1 \in 1 .. Len(ring)
      BY <3>2
    <3> QED BY <3>2, <3>3
  <2> QED BY <2>1, <2>2, <2>3 DEF AaxLatency, AaxAnswers
<1>6. CASE Aax!SignalLatencyChanged
  <2>1. UNCHANGED <<ring, signal, direct>>
    BY <1>6 DEF Aax!SignalLatencyChanged
  <2>2. CASE ~awaited
    <3>1. ~awaited' /\ UNCHANGED runtime
      BY <1>6, <2>2 DEF Aax!SignalLatencyChanged
    <3> QED BY <2>1, <2>2, <3>1 DEF AaxLatency, AaxAnswers
  <2>3. CASE awaited
    <3>1. runtime' = [runtime EXCEPT !.accepted = signal, !.seq = @ + 1]
      BY <1>6, <2>3 DEF Aax!SignalLatencyChanged, Aax!Runtime
    <3>2. runtime'.accepted = signal
      BY <3>1 DEF AaxLatency, AaxPackets
    <3> QED BY <2>1, <3>2 DEF AaxLatency, AaxAnswers
  <2> QED BY <2>2, <2>3
<1>7. CASE Aax!DelayCompensationState \/ Aax!OfflineMode
  <2>1. runtime'.accepted = runtime.accepted /\ UNCHANGED <<signal, ring, direct, awaited>>
    BY <1>7 DEF AaxLatency, AaxPackets, Aax!DelayCompensationState, Aax!OfflineMode, Aax!Runtime, Aax!latencies
  <2> QED BY <2>1, <1>1
<1>8. ASSUME NEW v \in Values, Aax!UpdateParameter(v) PROVE AaxAnswers'
  BY <1>8, <1>1 DEF Aax!UpdateParameter, Aax!algorithm, Aax!latencies
<1>9. ASSUME NEW on \in BOOLEAN, Aax!UpdateBypass(on) PROVE AaxAnswers'
  BY <1>9, <1>1 DEF Aax!UpdateBypass, Aax!algorithm, Aax!latencies
<1>10. ASSUME NEW chunk \in Sessions, Aax!SetChunk(chunk) \/ Aax!SetChunkElsewhere(chunk) PROVE AaxAnswers'
  BY <1>10, <1>1 DEF Aax!SetChunk, Aax!SetChunkElsewhere, Aax!algorithm, Aax!latencies
<1>11. CASE \/ Aax!GenerateCoefficients \/ Aax!TimerWakeup \/ Aax!Deliver \/ Aax!GetChunkSize \/ Aax!BuildChunk
            \/ Aax!GetChunk \/ Aax!UpdateStep
  BY <1>11, <1>1 DEF Aax!GenerateCoefficients, Aax!TimerWakeup, Aax!Deliver, Aax!GetChunkSize, Aax!BuildChunk, Aax!GetChunk,
                     Aax!UpdateStep, Aax!savers, Aax!algorithm, Aax!latencies
<1>12. CASE UNCHANGED Aax!aaxVars
  BY <1>12, <1>1 DEF Aax!aaxVars, Aax!latencies
<1> QED BY <1>2, <1>3, <1>4, <1>5, <1>6, <1>7, <1>8, <1>9, <1>10, <1>11, <1>12 DEF Aax!Next, Aax!Working

LEMMA AaxRunsKept ==
    AaxInv /\ AaxLatency /\ [Aax!Next]_(Aax!aaxVars) => AaxRuns'
<1> SUFFICES ASSUME AaxInv, AaxLatency, [Aax!Next]_(Aax!aaxVars) PROVE AaxRuns'
  OBVIOUS
<1>1. ASSUME UNCHANGED <<alg, ring, direct, awaited>>, runtime'.accepted = runtime.accepted, runtime'.seq = runtime.seq
      PROVE  AaxRuns'
  BY <1>1 DEF AaxLatency, AaxRuns, AaxQuiet
<1>2. ASSUME NEW wiped \in BOOLEAN, Aax!InitInstance(wiped) PROVE AaxRuns'
  <2> DEFINE r0 == IF wiped THEN <<>> ELSE ring
             c == Aax!Constructed(wiped)
             a == Aax!Adopted(c, Aax!Snapshot)
             l == Aax!Latency(a.seen)
  <2>1. /\ UNCHANGED <<runtime, awaited, direct>> /\ direct = "idle"
        /\ ring' = (IF l # a.reported THEN Aax!Pushed(r0, l) ELSE r0)
        /\ alg' = [a EXCEPT !.kernel = Aax!Configure(a.seen), !.bypass = Aax!BypassConfigured(@, Aax!MaxLatency, l),
                            !.reported = IF ring' # r0 THEN l ELSE @]
    BY <1>2, Zenon DEF Aax!InitInstance, r0, a, c, l
  <2>2. /\ AaxFields(c) /\ c.made /\ (wiped => c.latSeq = 0 /\ c.reported = 0)
        /\ (~wiped => c.latSeq = alg.latSeq /\ c.reported = alg.reported)
    <3>1. CASE wiped
      BY <3>1 DEF Aax!Constructed, Aax!NoAlg, AaxFields, Aax!NewKernel, Aax!NewBypass
    <3>2. CASE ~wiped
      BY <3>2 DEF Aax!Constructed, AaxFields, AaxInv, AaxLatency, AaxRuns
    <3> QED BY <3>1, <3>2
  <2> HIDE DEF c
  <2>3. /\ AaxFields(a) /\ a.made /\ a.seen = params.value
        /\ IF runtime.seq # 0 THEN a.latSeq = runtime.seq /\ a.reported = runtime.accepted
                              ELSE a.latSeq = c.latSeq /\ a.reported = c.reported
    BY <2>2 DEF Aax!Adopted, Aax!Snapshot, AaxFields, Aax!SetBypassed
  <2> HIDE DEF a
  <2>4. l <= Top /\ Aax!MaxLatency = Top /\ l = a.seen
    BY <2>3, Longest, AaxLongest DEF AaxLatency, AaxValues, Aax!Latency
  <2>5. /\ {"latency", "value"} \subseteq DOMAIN Aax!Configure(a.seen) /\ Aax!Configure(a.seen).latency = l
    BY <2>4 DEF Aax!Configure, Aax!Latency
  <2> DEFINE b == Aax!BypassConfigured(a.bypass, Aax!MaxLatency, l)
             k == Aax!Configure(a.seen)
  <2>6. {"latency", "max"} \subseteq DOMAIN b /\ b.latency = l /\ b.max = Top
    BY <2>3, <2>4 DEF AaxFields, Aax!BypassConfigured, Aax!SetLatency, Aax!Snap
  <2> HIDE DEF b, k, l, r0
  <2>7. /\ alg'.kernel = k /\ alg'.bypass = b /\ alg'.made /\ alg'.latSeq = a.latSeq
        /\ alg'.reported = IF ring' # r0 THEN l ELSE a.reported
    BY <2>1, <2>3 DEF AaxFields, b, k
  <2>8. alg'.latSeq \in Nat /\ alg'.latSeq <= runtime.seq
    <3>1. runtime.seq \in Nat /\ alg.latSeq \in Nat /\ alg.latSeq <= runtime.seq
      BY DEF AaxLatency, AaxPackets, AaxPacket, AaxRuns
    <3>2. c.latSeq \in Nat /\ c.latSeq <= runtime.seq
      BY <2>2, <3>1
    <3>3. a.latSeq \in Nat /\ a.latSeq <= runtime.seq
      BY <2>3, <3>1, <3>2
    <3> QED BY <2>7, <3>3
  <2>9. ASSUME AaxQuiet' PROVE /\ alg'.latSeq = runtime.seq => alg'.kernel.latency = runtime.accepted
                               /\ runtime.seq = 0 => alg'.reported = runtime.accepted
    <3>1. Listed(r0)
      BY Lists DEF AaxLatency, AaxAnswers, r0
    <3>2. ring' = <<>> /\ ~awaited
      BY <2>1, <2>9 DEF AaxQuiet
    <3>3. l = a.reported /\ r0 = <<>>
      BY <2>1, <3>1, <3>2, AaxPushes
    <3>4. alg'.reported = a.reported /\ alg'.kernel.latency = a.reported
      BY <2>5, <2>7, <3>2, <3>3 DEF k
    <3>5. CASE runtime.seq # 0
      BY <2>3, <3>4, <3>5
    <3>6. CASE runtime.seq = 0
      <4>1. wiped => a.reported = 0 /\ runtime.accepted = 0
        BY <2>2, <2>3, <3>6 DEF AaxLatency, AaxPackets
      <4>2. ~wiped => a.reported = runtime.accepted
        BY <2>1, <2>2, <2>3, <3>2, <3>3, <3>6 DEF AaxLatency, AaxRuns, AaxQuiet, r0
      <4> QED BY <3>4, <4>1, <4>2
    <3> QED BY <3>5, <3>6
  <2> QED BY <2>1, <2>5, <2>6, <2>7, <2>8, <2>9 DEF AaxRuns, k
<1>3. ASSUME NEW note, Aax!Render(note) PROVE AaxRuns'
  <2> DEFINE a == Aax!Plays(Aax!Resumes(Aax!Applies(Aax!Accepts(alg))), note)
             wants == Aax!Proposed(a) \notin {None, a.reported} /\ Aax!Admits(a.bypass, Aax!Proposed(a)) /\ runtimePort.pdc
             l == Aax!Proposed(a)
             h == Aax!Heard(a)
  <2>1. /\ ring' = (IF wants THEN Aax!Pushed(ring, l) ELSE ring) /\ UNCHANGED <<runtime, awaited, direct>> /\ alg.made
        /\ alg' = [h EXCEPT !.reported = IF ring' # ring THEN l ELSE @]
    BY <1>3, Zenon DEF Aax!Render, a, wants, l, h
  <2>2. /\ AaxFields(a) /\ a.made /\ a.reported = alg.reported /\ a.bypass.max = Top /\ a.bypass.latency = a.kernel.latency
        /\ IF Aax!Answered(alg) THEN a.latSeq = runtimePort.seq /\ a.kernel.latency = runtimePort.accepted
                                ELSE a.latSeq = alg.latSeq /\ a.kernel.latency = alg.kernel.latency
    BY <2>1, AaxRendersBy DEF AaxLatency
  <2> HIDE DEF a, wants, l
  <2>3. /\ AaxFields(h) /\ h.made = a.made /\ h.reported = a.reported /\ h.latSeq = a.latSeq /\ h.bypass.max = a.bypass.max
        /\ h.bypass.latency = a.bypass.latency /\ h.kernel.latency = a.kernel.latency
    BY <2>2 DEF AaxFields, Aax!Heard, Aax!Miss, Aax!Hear, Aax!BypassProcessed
  <2> HIDE DEF h
  <2>4. /\ AaxFields(alg') /\ alg'.made = a.made /\ alg'.latSeq = a.latSeq /\ alg'.bypass.max = a.bypass.max
        /\ alg'.bypass.latency = a.bypass.latency /\ alg'.kernel.latency = a.kernel.latency
        /\ alg'.reported = IF ring' # ring THEN l ELSE a.reported
    BY <2>1, <2>3 DEF AaxFields
  <2>5. runtimePort.seq \in Nat /\ runtimePort.seq <= runtime.seq /\ (runtimePort.seq = runtime.seq => runtimePort.accepted = runtime.accepted)
    BY DEF AaxLatency, AaxPackets, AaxPacket
  <2>6. alg.latSeq \in Nat /\ alg.latSeq <= runtime.seq
    BY DEF AaxLatency, AaxRuns
  <2>7. alg'.latSeq \in Nat /\ alg'.latSeq <= runtime.seq
    BY <2>2, <2>4, <2>5, <2>6
  <2>8. ASSUME AaxQuiet' PROVE /\ alg'.latSeq = runtime.seq => alg'.kernel.latency = runtime.accepted
                               /\ runtime.seq = 0 => alg'.reported = runtime.accepted
    <3>1. ring' = <<>> /\ ~awaited /\ direct = "idle"
      BY <2>1, <2>8 DEF AaxQuiet
    <3>2. ring' = ring
      BY <2>1, <3>1, AaxPushes DEF AaxLatency, AaxAnswers
    <3>3. AaxQuiet
      BY <3>1, <3>2 DEF AaxQuiet
    <3>4. /\ alg.latSeq = runtime.seq => alg.kernel.latency = runtime.accepted
          /\ runtime.seq = 0 => alg.reported = runtime.accepted
      BY <2>1, <3>3 DEF AaxLatency, AaxRuns
    <3>5. CASE Aax!Answered(alg)
      BY <2>2, <2>4, <2>5, <3>2, <3>4, <3>5
    <3>6. CASE ~Aax!Answered(alg)
      BY <2>2, <2>4, <3>2, <3>4, <3>6
    <3> QED BY <3>5, <3>6
  <2> QED BY <2>1, <2>2, <2>4, <2>7, <2>8 DEF AaxRuns, AaxFields
<1>4. CASE Aax!DrainReturns
  <2>1. direct' = "flag" /\ UNCHANGED <<alg, runtime>>
    BY <1>4 DEF Aax!DrainReturns
  <2> QED BY <2>1 DEF AaxLatency, AaxRuns, AaxQuiet
<1>5. CASE Aax!AwaitAnswer
  <2>1. awaited' = TRUE /\ UNCHANGED <<alg, runtime>>
    BY <1>5 DEF Aax!AwaitAnswer
  <2> QED BY <2>1 DEF AaxLatency, AaxRuns, AaxQuiet
<1>6. CASE Aax!SignalLatencyChanged
  <2>1. UNCHANGED <<ring, direct, alg>>
    BY <1>6 DEF Aax!SignalLatencyChanged, Aax!Runtime
  <2>2. CASE ~awaited
    <3>1. ~awaited' /\ UNCHANGED runtime
      BY <1>6, <2>2 DEF Aax!SignalLatencyChanged
    <3> QED BY <2>1, <2>2, <3>1 DEF AaxLatency, AaxRuns, AaxQuiet
  <2>3. CASE awaited
    <3>1. runtime' = [runtime EXCEPT !.accepted = signal, !.seq = @ + 1]
      BY <1>6, <2>3 DEF Aax!SignalLatencyChanged, Aax!Runtime
    <3>2. runtime'.seq = runtime.seq + 1 /\ runtime.seq \in Nat /\ alg.latSeq \in Nat /\ alg.latSeq <= runtime.seq
      BY <3>1 DEF AaxLatency, AaxPackets, AaxPacket, AaxRuns
    <3>3. runtime'.seq # 0 /\ alg.latSeq # runtime'.seq /\ alg.latSeq <= runtime'.seq
      BY <3>2
    <3> QED BY <2>1, <3>3 DEF AaxLatency, AaxRuns
  <2> QED BY <2>2, <2>3
<1>7. CASE Aax!DelayCompensationState \/ Aax!OfflineMode
  <2>1. /\ runtime'.accepted = runtime.accepted /\ runtime'.seq = runtime.seq /\ UNCHANGED <<alg, ring, direct, awaited>>
    BY <1>7 DEF AaxLatency, AaxPackets, Aax!DelayCompensationState, Aax!OfflineMode, Aax!Runtime, Aax!latencies
  <2> QED BY <2>1, <1>1
<1>8. ASSUME NEW v \in Values, Aax!UpdateParameter(v) PROVE AaxRuns'
  BY <1>8, <1>1 DEF Aax!UpdateParameter, Aax!algorithm, Aax!latencies
<1>9. ASSUME NEW on \in BOOLEAN, Aax!UpdateBypass(on) PROVE AaxRuns'
  BY <1>9, <1>1 DEF Aax!UpdateBypass, Aax!algorithm, Aax!latencies
<1>10. ASSUME NEW chunk \in Sessions, Aax!SetChunk(chunk) \/ Aax!SetChunkElsewhere(chunk) PROVE AaxRuns'
  BY <1>10, <1>1 DEF Aax!SetChunk, Aax!SetChunkElsewhere, Aax!algorithm, Aax!latencies
<1>11. CASE \/ Aax!GenerateCoefficients \/ Aax!TimerWakeup \/ Aax!Deliver \/ Aax!GetChunkSize \/ Aax!BuildChunk
            \/ Aax!GetChunk \/ Aax!UpdateStep
  <2>1. UNCHANGED <<alg, ring, direct, awaited, runtime>>
    BY <1>11 DEF Aax!GenerateCoefficients, Aax!TimerWakeup, Aax!Deliver, Aax!GetChunkSize, Aax!BuildChunk, Aax!GetChunk,
                 Aax!UpdateStep, Aax!savers, Aax!algorithm, Aax!latencies
  <2> QED BY <2>1, <1>1
<1>12. CASE UNCHANGED Aax!aaxVars
  BY <1>12, <1>1 DEF Aax!aaxVars, Aax!latencies
<1> QED BY <1>2, <1>3, <1>4, <1>5, <1>6, <1>7, <1>8, <1>9, <1>10, <1>11, <1>12 DEF Aax!Next, Aax!Working

LEMMA AaxLatencies == Aax!Init /\ [][Aax!Next]_(Aax!aaxVars) => []AaxLatency
<1>1. Aax!Init => AaxLatency
  <2> SUFFICES ASSUME Aax!Init PROVE AaxLatency
    OBVIOUS
  <2>1. 0 <= Top
    BY Longest, AaxLongest, LatenciesBounded
  <2>2. AaxValues
    BY <2>1 DEF AaxValues, Aax!Init, Aax!Idle
  <2>3. AaxPackets
    BY <2>1, Lists DEF AaxPackets, AaxPacket, Aax!Init, Aax!NoRuntime
  <2>4. AaxAnswers
    BY <2>1, Lists DEF AaxAnswers, Aax!Init, Aax!NoRuntime
  <2>5. AaxRuns
    BY <2>1 DEF AaxRuns, AaxQuiet, Aax!Init, Aax!NoRuntime, Aax!NoAlg, Aax!NewKernel, Aax!NewBypass
  <2> QED BY <2>2, <2>3, <2>4, <2>5 DEF AaxLatency
<1>2. AaxInv /\ AaxLatency /\ [Aax!Next]_(Aax!aaxVars) => AaxLatency'
  BY AaxValuesKept, AaxPacketsKept, AaxAnswersKept, AaxRunsKept DEF AaxLatency
<1> QED BY <1>1, <1>2, AaxInvariance, PTL

LEMMA AaxSaysOne == AaxLatency => Aax!LatencyAgrees
<1> SUFFICES ASSUME AaxLatency, alg.made
             PROVE  /\ alg.kernel.latency = alg.bypass.latency
                    /\ \/ ring # <<>> \/ direct # "idle" \/ awaited
                       \/ runtime.seq # runtimePort.seq \/ Aax!Answered(alg)
                       \/ alg.kernel.latency = signal
  BY DEF Aax!LatencyAgrees
<1>1. alg.kernel.latency = alg.bypass.latency
  BY DEF AaxLatency, AaxRuns
<1>2. ASSUME ring = <<>>, direct = "idle", ~awaited, runtime.seq = runtimePort.seq, ~Aax!Answered(alg)
      PROVE  alg.kernel.latency = signal
  <2>1. runtime.accepted = signal
    BY <1>2 DEF AaxLatency, AaxAnswers
  <2>2. alg.latSeq = runtime.seq
    BY <1>2 DEF AaxLatency, AaxRuns, AaxPackets, AaxPacket, Aax!Answered
  <2> QED BY <1>2, <2>1, <2>2 DEF AaxLatency, AaxRuns, AaxQuiet
<1> QED BY <1>1, <1>2

\* The packets of coefficients among those on their way.
Sends(ps) == {i \in DOMAIN ps : "runtime" \notin DOMAIN ps[i]}

\* What a packet put last adds to them.
LEMMA SendsOn ==
    ASSUME NEW s, Listed(s), NEW e
    PROVE  /\ Listed(s \o <<e>>) /\ s \o <<>> = s /\ s \o <<e>> = Append(s, e) /\ Len(s) \in Nat
           /\ Sends(s) \subseteq 1 .. Len(s) /\ \A i \in Sends(s) : (s \o <<e>>)[i] = s[i]
           /\ "runtime" \in DOMAIN e => Sends(s \o <<e>>) = Sends(s)
           /\ "runtime" \notin DOMAIN e => /\ Sends(s \o <<e>>) = Sends(s) \cup {Len(s) + 1}
                                           /\ (s \o <<e>>)[Len(s) + 1] = e
<1> DEFINE S == {s[j] : j \in DOMAIN s} \cup {e}
           t == s \o <<e>>
<1>1. s \in Seq(S) /\ e \in S
  BY DEF Listed
<1> HIDE DEF S
<1>2. t = Append(s, e) /\ s \o <<>> = s
  BY <1>1, AppendIsConcat
<1>3. /\ Len(s) \in Nat /\ DOMAIN s = 1 .. Len(s) /\ DOMAIN t = 1 .. Len(s) + 1
      /\ t[Len(s) + 1] = e /\ \A i \in 1 .. Len(s) : t[i] = s[i]
  BY <1>1, <1>2, AppendProperties
<1>4. Listed(t)
  BY <1>2, Lists
<1> HIDE DEF t
<1>5. \A i \in DOMAIN t : i = Len(s) + 1 \/ i \in DOMAIN s
  BY <1>3
<1>6. Len(s) + 1 \in DOMAIN t /\ \A i \in DOMAIN s : i \in DOMAIN t /\ i # Len(s) + 1
  BY <1>3
<1>7. Sends(t) = Sends(s) \cup {i \in {Len(s) + 1} : "runtime" \notin DOMAIN e}
  BY <1>3, <1>5, <1>6 DEF Sends
<1> QED BY <1>2, <1>3, <1>4, <1>7 DEF t, Sends

\* What was sent last is what AAX's parameters say, unless they changed since, and the port holds it once no packet
\* of them is on its way.
AaxSegment(c) == c.seq \in Nat /\ c.seq <= segment.seq /\ (c.seq = segment.seq => c = segment)
AaxSent ==
    /\ segment.seq \in Nat /\ (~dirty => segment.settings = params)
    /\ AaxSegment(coefs) /\ \A i \in Sends(posted) : AaxSegment(posted[i].coefs)
    /\ Sends(posted) = {} => coefs = segment
    /\ \A i \in Sends(posted) : (\A j \in Sends(posted) : j <= i) => posted[i].coefs = segment

\* The algorithm goes by what it saw, and by the parameters once it has seen the last packet of them.
AaxTaken ==
    /\ alg.coefSeq \in Nat /\ alg.coefSeq <= segment.seq /\ "wanted" \in DOMAIN alg.bypass
    /\ alg.made => alg.kernel.value = alg.seen
    /\ alg.made /\ alg.coefSeq = segment.seq /\ ~dirty =>
          alg.kernel.value = params.value /\ alg.bypass.wanted = params.bypassed

\* Few of the steps say anything to them.
LEMMA AaxElsewhere ==
    ASSUME [Aax!Next]_(Aax!aaxVars)
    PROVE  \/ UNCHANGED <<params, dirty, segment, posted, coefs, alg>>
           \/ Aax!UpdateStep \/ Aax!GenerateCoefficients \/ Aax!TimerWakeup \/ Aax!Deliver
           \/ (\E wiped \in BOOLEAN : Aax!InitInstance(wiped)) \/ (\E note : Aax!Render(note))
<1> DEFINE Still == UNCHANGED <<params, dirty, segment, posted, coefs, alg>>
<1>1. ASSUME NEW v \in Values, Aax!UpdateParameter(v) PROVE Still
  BY <1>1 DEF Aax!UpdateParameter, Aax!model, Aax!ports, Aax!algorithm
<1>2. ASSUME NEW on \in BOOLEAN, Aax!UpdateBypass(on) PROVE Still
  BY <1>2 DEF Aax!UpdateBypass, Aax!model, Aax!ports, Aax!algorithm
<1>3. ASSUME NEW chunk \in Sessions, Aax!SetChunk(chunk) \/ Aax!SetChunkElsewhere(chunk) PROVE Still
  BY <1>3 DEF Aax!SetChunk, Aax!SetChunkElsewhere, Aax!model, Aax!ports, Aax!algorithm
<1>4. ASSUME Aax!GetChunkSize \/ Aax!BuildChunk \/ Aax!GetChunk PROVE Still
  BY <1>4 DEF Aax!GetChunkSize, Aax!BuildChunk, Aax!GetChunk, Aax!savers, Aax!model, Aax!ports, Aax!algorithm
<1>5. ASSUME \/ Aax!DrainReturns \/ Aax!AwaitAnswer \/ Aax!SignalLatencyChanged \/ Aax!DelayCompensationState
             \/ Aax!OfflineMode
      PROVE  Still
  BY <1>5 DEF Aax!DrainReturns, Aax!AwaitAnswer, Aax!SignalLatencyChanged, Aax!DelayCompensationState, Aax!OfflineMode,
              Aax!Runtime, Aax!host, Aax!model, Aax!ports
<1>6. ASSUME UNCHANGED Aax!aaxVars PROVE Still
  BY <1>6 DEF Aax!aaxVars, Aax!model, Aax!ports
<1>7. ASSUME ~(\E note : Aax!Render(note)), ~(\E wiped \in BOOLEAN : Aax!InitInstance(wiped)),
             ~Aax!UpdateStep, ~Aax!GenerateCoefficients, ~Aax!TimerWakeup, ~Aax!Deliver
      PROVE  Still
  <2> HIDE DEF Still
  <2>1. ASSUME NEW on \in BOOLEAN, Aax!UpdateBypass(on) \/ Aax!InitInstance(on) PROVE Still
    BY <1>2, <1>7, <2>1
  <2>2. ASSUME NEW note \in {None} \cup ({"on", "off"} \X Keys), Aax!Render(note) PROVE Still
    BY <1>7, <2>2
  <2>3. ASSUME Aax!Working PROVE Still
    BY <1>4, <1>5, <1>7, <2>3 DEF Aax!Working
  <2> QED BY <1>1, <1>3, <1>4, <1>5, <1>6, <1>7, <2>1, <2>2, <2>3 DEF Aax!Next
<1> QED BY <1>7

LEMMA AaxSentKept == AaxPackets /\ AaxSent /\ [Aax!Next]_(Aax!aaxVars) => AaxSent'
<1> SUFFICES ASSUME AaxPackets, AaxSent, [Aax!Next]_(Aax!aaxVars) PROVE AaxSent'
  OBVIOUS
<1>0. Listed(posted)
  BY DEF AaxPackets
<1>1. ASSUME UNCHANGED <<segment, posted, coefs>>, dirty' \/ UNCHANGED <<params, dirty>> PROVE AaxSent'
  BY <1>1 DEF AaxSent, AaxSegment
<1>2. CASE Aax!UpdateStep
  BY <1>2, <1>1 DEF Aax!UpdateStep, Aax!ports
<1>3. CASE (\E wiped \in BOOLEAN : Aax!InitInstance(wiped)) \/ (\E note : Aax!Render(note))
  <2>1. ASSUME NEW wiped \in BOOLEAN, Aax!InitInstance(wiped) PROVE AaxSent'
    BY <2>1, <1>1 DEF Aax!InitInstance, Aax!host, Aax!model, Aax!ports
  <2>2. ASSUME NEW note, Aax!Render(note) PROVE AaxSent'
    BY <2>2, <1>1 DEF Aax!Render, Aax!host, Aax!model, Aax!ports
  <2> QED BY <1>3, <2>1, <2>2
<1> DEFINE packet == [runtime |-> runtime]
<1>4. /\ "runtime" \in DOMAIN packet
      /\ Sends(posted \o <<packet>>) = Sends(posted) /\ \A i \in Sends(posted) : (posted \o <<packet>>)[i] = posted[i]
  BY <1>0, SendsOn
<1>5. CASE Aax!TimerWakeup
  <2>1. UNCHANGED <<params, segment, dirty, coefs>> /\ posted' = IF runtimeDirty THEN Append(posted, packet) ELSE posted
    BY <1>5 DEF Aax!TimerWakeup
  <2>2. Append(posted, packet) = posted \o <<packet>>
    BY <1>0, SendsOn
  <2> HIDE DEF packet
  <2>3. Sends(posted') = Sends(posted) /\ \A i \in Sends(posted) : posted'[i] = posted[i]
    BY <1>4, <2>1, <2>2
  <2> QED BY <2>1, <2>3 DEF AaxSent, AaxSegment
<1>6. CASE Aax!GenerateCoefficients
  <2> DEFINE new == [seq |-> segment.seq + 1, settings |-> params]
             first == IF runtimeDirty THEN <<packet>> ELSE <<>>
             most == posted \o first
             last == [coefs |-> new]
  <2>1. /\ dirty' = FALSE /\ UNCHANGED <<params, coefs>>
        /\ IF dirty THEN segment' = new /\ posted' = most \o <<last>> ELSE UNCHANGED segment /\ posted' = most
    BY <1>6 DEF Aax!GenerateCoefficients
  <2>2. Listed(most) /\ Sends(most) = Sends(posted) /\ \A i \in Sends(posted) : most[i] = posted[i]
    <3>1. CASE runtimeDirty
      BY <1>0, <1>4, <3>1, SendsOn
    <3>2. CASE ~runtimeDirty
      <4>1. most = posted
        BY <1>0, <3>2, SendsOn
      <4> HIDE DEF most
      <4> QED BY <1>0, <4>1
    <3> QED BY <3>1, <3>2
  <2> HIDE DEF most
  <2>3. CASE ~dirty
    <3>1. UNCHANGED <<params, segment, coefs>> /\ posted' = most
      BY <2>1, <2>3
    <3>2. segment.settings = params
      BY <2>3 DEF AaxSent
    <3> QED BY <2>1, <2>2, <3>1, <3>2 DEF AaxSent, AaxSegment
  <2>4. CASE dirty
    <3>1. /\ Len(most) \in Nat /\ Sends(most) \subseteq 1 .. Len(most) /\ "runtime" \notin DOMAIN last
          /\ Sends(most \o <<last>>) = Sends(most) \cup {Len(most) + 1}
          /\ (most \o <<last>>)[Len(most) + 1] = last /\ \A i \in Sends(most) : (most \o <<last>>)[i] = most[i]
      <4>1. "runtime" \notin DOMAIN last
        OBVIOUS
      <4> HIDE DEF last
      <4> QED BY <2>2, <4>1, SendsOn
    <3> DEFINE n == Len(most) + 1
    <3>2. /\ segment' = new /\ segment'.seq = segment.seq + 1 /\ segment.seq \in Nat /\ segment'.settings = params
          /\ Sends(posted') = Sends(posted) \cup {n} /\ posted'[n].coefs = segment'
          /\ \A i \in Sends(posted) : posted'[i] = posted[i]
      <4>1. segment' = new /\ posted' = most \o <<last>> /\ segment.seq \in Nat
        BY <2>1, <2>4 DEF AaxSent
      <4>2. posted'[n] = last /\ last.coefs = new /\ \A i \in Sends(posted) : posted'[i] = posted[i]
        BY <2>2, <3>1, <4>1
      <4> QED BY <2>2, <3>1, <4>1, <4>2
    <3>3. n \in Sends(posted') /\ \A i \in Sends(posted) : i \in Int /\ i < n
      BY <2>2, <3>1, <3>2
    <3> HIDE DEF n, new
    <3>4. \A c : AaxSegment(c) => AaxSegment(c)'
      BY <3>2 DEF AaxSegment
    <3>5. AaxSegment(segment)'
      BY <3>2 DEF AaxSegment
    <3>6. \A i \in Sends(posted') : AaxSegment(posted[i].coefs)'
      <4> SUFFICES ASSUME NEW i \in Sends(posted') PROVE AaxSegment(posted[i].coefs)'
        OBVIOUS
      <4>1. CASE i = n
        BY <3>2, <3>5, <4>1 DEF AaxSegment
      <4>2. CASE i # n
        <5>1. i \in Sends(posted) /\ posted'[i].coefs = posted[i].coefs
          BY <3>2, <4>2
        <5>2. AaxSegment(posted[i].coefs)
          BY <5>1 DEF AaxSent
        <5> QED BY <3>2, <5>1, <5>2 DEF AaxSegment
      <4> QED BY <4>1, <4>2
    <3>7. \A i \in Sends(posted') : (\A j \in Sends(posted') : j <= i) => posted'[i].coefs = segment'
      <4> SUFFICES ASSUME NEW i \in Sends(posted'), \A j \in Sends(posted') : j <= i PROVE i = n
        BY <3>2
      <4>1. n <= i
        BY <3>3
      <4>2. i \in Sends(posted) => i \in Int /\ i < n
        BY <3>3
      <4>3. n \in Nat
        BY <3>1 DEF n
      <4> QED BY <3>2, <4>1, <4>2, <4>3
    <3>8. AaxSegment(coefs)'
      BY <2>1, <3>2 DEF AaxSent, AaxSegment
    <3> QED BY <2>1, <3>2, <3>3, <3>6, <3>7, <3>8 DEF AaxSent
  <2> QED BY <2>3, <2>4
<1>7. CASE Aax!Deliver
  <2> DEFINE h == Head(posted)
  <2>1. /\ posted # <<>> /\ posted' = Tail(posted) /\ UNCHANGED <<params, dirty, segment>>
        /\ IF "runtime" \in DOMAIN h THEN UNCHANGED coefs ELSE coefs' = h.coefs
    BY <1>7 DEF Aax!Deliver, Aax!model
  <2>2. /\ h = posted[1] /\ Len(posted) \in Nat \ {0} /\ DOMAIN posted = 1 .. Len(posted)
        /\ DOMAIN posted' = 1 .. Len(posted) - 1 /\ \A i \in 1 .. Len(posted) - 1 : posted'[i] = posted[i + 1]
    <3> DEFINE S == {posted[i] : i \in DOMAIN posted}
    <3>1. posted \in Seq(S)
      BY <1>0 DEF Listed
    <3> HIDE DEF S
    <3> QED BY <2>1, <3>1, HeadTailProperties
  <2> HIDE DEF h
  <2>3. \A i \in Sends(posted') : i \in Nat \ {0} /\ i + 1 \in Sends(posted) /\ posted'[i] = posted[i + 1]
    BY <2>2 DEF Sends
  <2>4. \A i \in Sends(posted) : i \in Nat \ {0} /\ (i # 1 => i - 1 \in Sends(posted') /\ (i - 1) + 1 = i)
    BY <2>2 DEF Sends
  <2>5. 1 \in Sends(posted) <=> "runtime" \notin DOMAIN h
    BY <2>2 DEF Sends
  <2>6. \A i \in Sends(posted') : (\A j \in Sends(posted') : j <= i) => posted'[i].coefs = segment
    <3> SUFFICES ASSUME NEW i \in Sends(posted'), \A j \in Sends(posted') : j <= i PROVE posted'[i].coefs = segment
      OBVIOUS
    <3>1. i + 1 \in Sends(posted) /\ posted'[i] = posted[i + 1] /\ i \in Nat \ {0}
      BY <2>3
    <3>2. ASSUME NEW j \in Sends(posted) PROVE j <= i + 1
      <4>1. CASE j = 1
        BY <3>1, <4>1
      <4>2. CASE j # 1
        <5>1. j - 1 <= i /\ j \in Nat
          BY <2>4, <4>2
        <5> QED BY <3>1, <5>1
      <4> QED BY <4>1, <4>2
    <3> QED BY <3>1, <3>2 DEF AaxSent
  <2>7. \A i \in Sends(posted') : AaxSegment(posted'[i].coefs)
    BY <2>3 DEF AaxSent
  <2>8. AaxSegment(coefs') /\ (Sends(posted') = {} => coefs' = segment)
    <3>1. CASE 1 \in Sends(posted)
      <4>1. coefs' = posted[1].coefs
        BY <2>1, <2>2, <2>5, <3>1
      <4>2. ASSUME Sends(posted') = {} PROVE \A j \in Sends(posted) : j <= 1
        BY <2>4, <4>2
      <4> QED BY <3>1, <4>1, <4>2 DEF AaxSent
    <3>2. CASE 1 \notin Sends(posted)
      <4>1. coefs' = coefs
        BY <2>1, <2>5, <3>2
      <4>2. ASSUME Sends(posted') = {} PROVE Sends(posted) = {}
        BY <2>4, <3>2, <4>2
      <4> QED BY <4>1, <4>2 DEF AaxSent
    <3> QED BY <3>1, <3>2
  <2> QED BY <2>1, <2>6, <2>7, <2>8 DEF AaxSent, AaxSegment
<1>8. CASE UNCHANGED <<params, dirty, segment, posted, coefs, alg>>
  BY <1>8, <1>1
<1> QED BY <1>2, <1>3, <1>5, <1>6, <1>7, <1>8, AaxElsewhere

LEMMA AaxTakenKept == AaxInv /\ AaxLatency /\ AaxSent /\ AaxTaken /\ [Aax!Next]_(Aax!aaxVars) => AaxTaken'
<1> SUFFICES ASSUME AaxInv, AaxLatency, AaxSent, AaxTaken, [Aax!Next]_(Aax!aaxVars) PROVE AaxTaken'
  OBVIOUS
<1>1. ASSUME UNCHANGED <<alg, segment>>, dirty' \/ UNCHANGED <<params, dirty>> PROVE AaxTaken'
  BY <1>1 DEF AaxTaken
<1>2. CASE Aax!UpdateStep
  BY <1>2, <1>1 DEF Aax!UpdateStep, Aax!algorithm
<1>3. CASE Aax!TimerWakeup \/ Aax!Deliver
  BY <1>3, <1>1 DEF Aax!TimerWakeup, Aax!Deliver, Aax!algorithm, Aax!model
<1>4. CASE Aax!GenerateCoefficients
  <2>1. UNCHANGED <<alg, params>>
    BY <1>4 DEF Aax!GenerateCoefficients, Aax!algorithm
  <2>2. CASE dirty
    <3>1. segment'.seq = segment.seq + 1
      BY <1>4, <2>2 DEF Aax!GenerateCoefficients
    <3> QED BY <2>1, <3>1 DEF AaxSent, AaxTaken
  <2>3. CASE ~dirty
    <3>1. UNCHANGED segment /\ ~dirty'
      BY <1>4, <2>3 DEF Aax!GenerateCoefficients
    <3> QED BY <2>1, <2>3, <3>1 DEF AaxTaken
  <2> QED BY <2>2, <2>3
<1>5. ASSUME NEW wiped \in BOOLEAN, Aax!InitInstance(wiped) PROVE AaxTaken'
  <2> DEFINE c == Aax!Constructed(wiped)
             a == Aax!Adopted(c, Aax!Snapshot)
             l == Aax!Latency(a.seen)
  <2>1. UNCHANGED <<segment, params, dirty>>
    BY <1>5 DEF Aax!InitInstance, Aax!host, Aax!model
  <2>2. PICK r : alg' = [a EXCEPT !.kernel = Aax!Configure(a.seen),
                                  !.bypass = Aax!BypassConfigured(@, Aax!MaxLatency, l), !.reported = r]
    BY <1>5, Zenon DEF Aax!InitInstance, a, c, l
  <2>3. AaxFields(c) /\ "wanted" \in DOMAIN c.bypass
    <3>1. CASE wiped
      BY <3>1 DEF Aax!Constructed, Aax!NoAlg, AaxFields, Aax!NewKernel, Aax!NewBypass
    <3>2. CASE ~wiped
      BY <3>2 DEF Aax!Constructed, AaxFields, AaxInv, AaxLatency, AaxRuns, AaxTaken
    <3> QED BY <3>1, <3>2
  <2> HIDE DEF c
  <2>4. /\ AaxFields(a) /\ "wanted" \in DOMAIN a.bypass /\ a.seen = params.value /\ a.coefSeq = segment.seq
        /\ a.bypass.wanted = params.bypassed
    BY <2>3 DEF AaxFields, Aax!Adopted, Aax!Snapshot, Aax!SetBypassed
  <2> HIDE DEF a, l
  <2>5. /\ alg'.kernel = Aax!Configure(a.seen) /\ alg'.bypass = Aax!BypassConfigured(a.bypass, Aax!MaxLatency, l)
        /\ alg'.seen = a.seen /\ alg'.coefSeq = a.coefSeq
    BY <2>2, <2>4 DEF AaxFields
  <2>6. alg'.kernel.value = a.seen
    BY <2>5 DEF Aax!Configure
  <2>7. "wanted" \in DOMAIN alg'.bypass /\ alg'.bypass.wanted = a.bypass.wanted
    BY <2>4, <2>5 DEF AaxFields, Aax!BypassConfigured, Aax!SetLatency, Aax!Snap
  <2> QED BY <2>1, <2>4, <2>5, <2>6, <2>7 DEF AaxTaken, AaxSent
<1>6. ASSUME NEW note, Aax!Render(note) PROVE AaxTaken'
  <2> DEFINE a1 == Aax!Accepts(alg)
             a2 == Aax!Applies(a1)
             a3 == Aax!Resumes(a2)
             a == Aax!Plays(a3, note)
             h == Aax!Heard(a)
             Whole(b) == AaxFields(b) /\ "wanted" \in DOMAIN b.bypass
             Same(b, c) == /\ Whole(c) /\ c.kernel.value = b.kernel.value /\ c.seen = b.seen /\ c.coefSeq = b.coefSeq
                           /\ c.bypass.wanted = b.bypass.wanted
  <2>1. UNCHANGED <<segment, params, dirty>> /\ alg.made
    BY <1>6 DEF Aax!Render, Aax!host, Aax!model
  <2>2. PICK r : alg' = [h EXCEPT !.reported = r]
    BY <1>6, Zenon DEF Aax!Render, h, a, a3, a2, a1
  <2>3. Whole(alg) /\ alg.kernel.value = alg.seen
    BY <2>1 DEF AaxFields, AaxInv, AaxLatency, AaxRuns, AaxTaken
  <2>4. Same(alg, a1)
    BY <2>3 DEF AaxFields, Aax!Accepts, Aax!Adopt, Aax!SetLatency
  <2> HIDE DEF a1
  <2>5. /\ Whole(a2) /\ a2.kernel.value = a2.seen
        /\ IF coefs.seq = alg.coefSeq THEN Same(alg, a2)
           ELSE a2.coefSeq = coefs.seq /\ a2.seen = coefs.settings.value /\ a2.bypass.wanted = coefs.settings.bypassed
    <3>1. CASE coefs.seq = a1.coefSeq
      BY <2>3, <2>4, <3>1 DEF Aax!Applies
    <3>2. CASE coefs.seq # a1.coefSeq
      <4>1. a2 = [a1 EXCEPT !.coefSeq = coefs.seq, !.seen = coefs.settings.value,
                            !.kernel = IF coefs.settings.value = a1.seen THEN @ ELSE Aax!Set(@, coefs.settings.value),
                            !.bypass = Aax!SetBypassed(@, coefs.settings.bypassed)]
        BY <3>2 DEF Aax!Applies
      <4> HIDE DEF a2
      <4> QED BY <2>3, <2>4, <3>2, <4>1 DEF AaxFields, Aax!Set, Aax!SetBypassed
    <3> QED BY <3>1, <3>2
  <2> HIDE DEF a2
  <2>6. Same(a2, a3)
    BY <2>5 DEF AaxFields, Aax!Resumes, Aax!Restart
  <2> HIDE DEF a3
  <2>7. Same(a3, a)
    BY <2>6 DEF AaxFields, Aax!Plays, Aax!NoteOn, Aax!NoteOff
  <2> HIDE DEF a
  <2>8. Same(a, h)
    BY <2>7 DEF AaxFields, Aax!Heard, Aax!Miss, Aax!Hear, Aax!BypassProcessed
  <2> HIDE DEF h
  <2>9. /\ alg'.kernel = h.kernel /\ alg'.seen = h.seen /\ alg'.coefSeq = h.coefSeq /\ alg'.bypass = h.bypass
    BY <2>2, <2>8 DEF AaxFields
  <2>10. /\ "wanted" \in DOMAIN alg'.bypass /\ alg'.kernel.value = alg'.seen
         /\ alg'.seen = a2.seen /\ alg'.coefSeq = a2.coefSeq /\ alg'.bypass.wanted = a2.bypass.wanted
    BY <2>5, <2>6, <2>7, <2>8, <2>9
  <2>11. CASE coefs.seq = alg.coefSeq
    BY <2>1, <2>5, <2>10, <2>11 DEF AaxTaken
  <2>12. CASE coefs.seq # alg.coefSeq
    <3>1. coefs.seq \in Nat /\ coefs.seq <= segment.seq /\ (coefs.seq = segment.seq /\ ~dirty => coefs.settings = params)
      BY DEF AaxSent, AaxSegment
    <3> QED BY <2>1, <2>5, <2>10, <2>12, <3>1 DEF AaxTaken
  <2> QED BY <2>11, <2>12
<1>7. CASE UNCHANGED <<params, dirty, segment, posted, coefs, alg>>
  BY <1>7, <1>1
<1> QED BY <1>2, <1>3, <1>4, <1>5, <1>6, <1>7, AaxElsewhere

LEMMA AaxValuesMeet == Aax!Init /\ [][Aax!Next]_(Aax!aaxVars) => [](AaxSent /\ AaxTaken)
<1>1. Aax!Init => AaxSent /\ AaxTaken
  <2> SUFFICES ASSUME Aax!Init PROVE AaxSent /\ AaxTaken
    OBVIOUS
  <2>1. AaxSent
    BY DEF Aax!Init, AaxSent, AaxSegment, Sends
  <2>2. AaxTaken
    BY DEF Aax!Init, AaxTaken, Aax!NoAlg, Aax!NewBypass
  <2> QED BY <2>1, <2>2
<1>2. AaxInv /\ AaxLatency /\ AaxSent /\ AaxTaken /\ [Aax!Next]_(Aax!aaxVars) => AaxSent' /\ AaxTaken'
  BY AaxSentKept, AaxTakenKept DEF AaxLatency
<1> QED BY <1>1, <1>2, AaxInvariance, AaxLatencies, PTL

LEMMA AaxGoesBy == AaxSent /\ AaxTaken => Aax!ValuesAgree
<1> SUFFICES ASSUME AaxSent, AaxTaken, alg.made, ~dirty, posted = <<>>, alg.coefSeq = coefs.seq
             PROVE  alg.kernel.value = params.value /\ alg.bypass.wanted = params.bypassed
  BY DEF Aax!ValuesAgree, Aax!Settled
<1>1. Sends(posted) = {}
  BY DEF Sends
<1>2. coefs = segment
  BY <1>1 DEF AaxSent
<1> QED BY <1>2 DEF AaxTaken

-----------------------------------------------------------------------------
(* Proofs about CLAP.                                                        *)

Clap == INSTANCE Clap WITH Budgets <- ClapPlans

\* It goes by the one Stream_sync.
LEMMA ClapStream ==
    ASSUME NEW s, NEW f
    PROVE  Clap!SyncNext(s, f) = Stream!SyncNext(s, f) /\ Clap!SyncPlan(s, f) = Stream!SyncPlan(s, f)
BY Zenon DEF Stream!SyncNext, Stream!SyncPlan, Stream!SyncAfter, Stream!SyncSees, Stream!PlanOf, Stream!HoldsOn,
             Stream!Discontinuous, Stream!ModeOf, Clap!SyncNext, Clap!SyncPlan, Clap!SyncAfter, Clap!SyncSees,
             Clap!PlanOf, Clap!HoldsOn, Clap!Discontinuous, Clap!ModeOf

\* Its longest latency is the longest one.
LEMMA ClapLongest == Clap!MaxLatency = Top
BY Zenon DEF Top, Stream!MaxLatency, Clap!MaxLatency

\* A processor stale of a gap is one Stream_sync knows was skipped, and what a block decided of the bypass
\* holds to its end.
ClapInv ==
    /\ Fielded(sync, kernel, bypass) /\ ~sync.holdOffline /\ ~sync.holding
    /\ {"at", "events", "skip", "proposed"} \subseteq DOMAIN block /\ block.events \in Seq(Clap!Event)
    /\ pc # "idle" => active
    /\ kernel.past = "stale" => sync.wasSkipped
    /\ pc # "idle" => /\ kernel.past = "stale" => Clap!CanSkip(bypass)
                      /\ Clap!CanSkip(bypass) => sync.wasSkipped \/ kernel.past = "none"
    /\ pc \in {"events", "finish"} => (block.skip <=> Clap!CanSkip(bypass))

LEMMA ClapInvariance == Clap!Init /\ [][Clap!Next]_(Clap!clapVars) => []ClapInv
<1>1. Clap!Init => ClapInv
  BY DEF Clap!Init, ClapInv, Fielded, SyncFields, Clap!NewSync, Clap!NewKernel, Clap!NewBypass, Clap!NoBlock
<1>2. ClapInv /\ [Clap!Next]_(Clap!clapVars) => ClapInv'
  <2> SUFFICES ASSUME ClapInv, [Clap!Next]_(Clap!clapVars) PROVE ClapInv'
    OBVIOUS
  <2>1. ASSUME UNCHANGED <<kernel, sync, block, pc>>, pc # "idle" => active',
               bypass' = bypass \/ \E on : bypass' = Clap!SetBypassed(bypass, on)
        PROVE ClapInv'
    BY <2>1 DEF ClapInv, Fielded, SyncFields, Clap!SetBypassed, Clap!CanSkip
  <2>2. ASSUME NEW r \in Rates, Clap!Activate(r) PROVE ClapInv'
    <3>1. pc = "idle" /\ UNCHANGED <<pc, block>>
      BY <2>2 DEF ClapInv, Clap!Activate
    <3>2. CASE UNCHANGED <<kernel, sync, bypass>>
      BY <3>1, <3>2 DEF ClapInv, Fielded, SyncFields
    <3>3. CASE Clap!Reconfigure
      BY <3>1, <3>3 DEF ClapInv, Fielded, SyncFields, Clap!Reconfigure, Clap!Configure, Clap!SyncConfigured,
                        Clap!BypassConfigured, Clap!SetLatency, Clap!Snap
    <3> QED BY <2>2, <3>2, <3>3 DEF Clap!Activate
  <2>3. CASE Clap!Deactivate
    BY <2>3, <2>1 DEF Clap!Deactivate
  <2>4. CASE Clap!Reset \/ Clap!RenderSetMode \/ Clap!Window
    BY <2>4, <2>1 DEF ClapInv, Clap!Reset, Clap!RenderSetMode, Clap!Window, Clap!stream
  <2>5. ASSUME NEW v \in Values, Clap!Flush(v) \/ Clap!EditStore(v) PROVE ClapInv'
    BY <2>5, <2>1 DEF ClapInv, Clap!Flush, Clap!EditStore, Clap!stream
  <2>6. ASSUME NEW v \in Values, NEW on \in BOOLEAN, Clap!Load(v, on) PROVE ClapInv'
    BY <2>6, <2>1 DEF ClapInv, Clap!Load, Clap!stream
  <2>7. ASSUME NEW on \in BOOLEAN, Clap!FlushBypass(on) PROVE ClapInv'
    BY <2>7, <2>1 DEF ClapInv, Clap!FlushBypass, Clap!stream
  <2>8. CASE Clap!Loaded \/ Clap!EditQueue \/ Clap!Gesture("start") \/ Clap!Gesture("end")
    BY <2>8, <2>1 DEF ClapInv, Clap!Loaded, Clap!EditQueue, Clap!Gesture, Clap!stream
  <2>9. ASSUME NEW frames \in {0, 2}, NEW events_ \in Clap!Events, Clap!Enter(frames, events_) PROVE ClapInv'
    <3> DEFINE f == Clap!FactsOf(frames)
               to == Clap!SyncNext(sync, f)
               plan == Clap!SyncPlan(sync, f)
    <3>1. /\ SyncFields \subseteq DOMAIN to /\ ~to.holdOffline /\ ~to.holding
          /\ plan \in {"none", "resume", "stream"}
          /\ plan = "stream" \/ (to.wasSkipped <=> Clap!CanSkip(bypass))
          /\ plan = "none" /\ sync.wasSkipped => Clap!CanSkip(bypass)
      <4>1. SyncFields \subseteq DOMAIN sync /\ ~sync.holdOffline /\ ~sync.holding
        BY DEF ClapInv, Fielded
      <4>2. to = Stream!SyncNext(sync, f) /\ plan = Stream!SyncPlan(sync, f)
        BY ClapStream, Zenon
      <4>3. f.skipping = Clap!CanSkip(bypass)
        BY DEF Clap!FactsOf
      <4> HIDE DEF f, to, plan
      <4> QED BY <4>1, <4>2, <4>3, StreamGoesOn
    <3>2. /\ pc = "idle" /\ pc' = "deliver" /\ sync' = to /\ active /\ active'
          /\ {"at", "events", "skip", "proposed"} \subseteq DOMAIN block' /\ block'.events = events_
      BY <2>9 DEF Clap!Enter, Clap!NoBlock
    <3>3. events_ \in Seq(Clap!Event)
      <4>1. CASE events_ = <<>>
        BY <4>1
      <4>2. ASSUME NEW e \in Clap!Event, events_ = <<e>> PROVE events_ \in Seq(Clap!Event)
        BY <4>2
      <4> QED BY <4>1, <4>2 DEF Clap!Events
    <3>4. PICK k, b : /\ "past" \in DOMAIN k /\ k.past = kernel.past
                      /\ {"now", "fade"} \subseteq DOMAIN b /\ (Clap!CanSkip(b) <=> Clap!CanSkip(bypass))
                      /\ kernel' = IF plan # "none" THEN Clap!Restart(k, Clap!RestartValue(events_)) ELSE k
                      /\ bypass' = IF plan = "stream" THEN Clap!Snap(b) ELSE b
      <4> DEFINE k == IF accepted = None THEN kernel ELSE Clap!Adopt(kernel, accepted)
                 b == IF accepted = None THEN bypass ELSE Clap!SetLatency(bypass, accepted)
      <4>1. "past" \in DOMAIN k /\ k.past = kernel.past
        BY DEF ClapInv, Fielded, SyncFields, Clap!Adopt
      <4>2. {"now", "fade"} \subseteq DOMAIN b /\ (Clap!CanSkip(b) <=> Clap!CanSkip(bypass))
        BY DEF ClapInv, Fielded, SyncFields, Clap!SetLatency, Clap!CanSkip
      <4> QED BY <2>9, <4>1, <4>2, Zenon DEF Clap!Enter
    <3> HIDE DEF to, plan, f
    <3>5. CASE plan = "none"
      BY <3>1, <3>2, <3>3, <3>4, <3>5 DEF ClapInv, Fielded, SyncFields
    <3>6. CASE plan = "resume"
      BY <3>1, <3>2, <3>3, <3>4, <3>6 DEF ClapInv, Fielded, SyncFields, Clap!Restart
    <3>7. CASE plan = "stream"
      BY <3>1, <3>2, <3>3, <3>4, <3>7 DEF ClapInv, Fielded, SyncFields, Clap!Restart, Clap!Snap
    <3> QED BY <3>1, <3>5, <3>6, <3>7
  <2>10. CASE Clap!Deliver
    BY <2>10 DEF ClapInv, Fielded, SyncFields, Clap!Deliver, Clap!still, Clap!Set, Clap!CanSkip
  <2>11. CASE Clap!Edits
    <3>1. "past" \in DOMAIN kernel' /\ kernel'.past = kernel.past
      BY <2>11 DEF ClapInv, Fielded, SyncFields, Clap!Edits, Clap!Set
    <3> QED BY <2>11, <3>1 DEF ClapInv, Fielded, SyncFields, Clap!Edits, Clap!still, Clap!CanSkip
  <2>12. CASE Clap!EventAt
    <3> DEFINE e == Head(block.events)
               k == Clap!HearUntil(kernel, e.time)
    <3>1. e \in Clap!Event /\ Tail(block.events) \in Seq(Clap!Event)
      BY <2>12 DEF ClapInv, Clap!EventAt
    <3>2. "past" \in DOMAIN k /\ (k.past = kernel.past \/ (~block.skip /\ kernel.past = "none" /\ k.past = "live"))
      BY DEF ClapInv, Fielded, SyncFields, Clap!HearUntil, Clap!Runs, Clap!Hear
    <3>3. "past" \in DOMAIN kernel' /\ kernel'.past = k.past
      BY <2>12, <3>1, <3>2 DEF Clap!EventAt, Clap!Event, Clap!Set, Clap!NoteOn, Clap!NoteOff
    <3>4. {"now", "fade"} \subseteq DOMAIN bypass' /\ (Clap!CanSkip(bypass') <=> Clap!CanSkip(bypass))
      BY <2>12, <3>1 DEF ClapInv, Fielded, SyncFields, Clap!EventAt, Clap!Event, Clap!SetBypassed, Clap!CanSkip
    <3>5. /\ pc = "events" /\ UNCHANGED <<pc, sync, active>>
          /\ block' = [block EXCEPT !.events = Tail(@), !.at = IF e.time > @ THEN e.time ELSE @]
      BY <2>12 DEF Clap!EventAt, Clap!still
    <3> HIDE DEF e, k
    <3> QED BY <3>1, <3>2, <3>3, <3>4, <3>5 DEF ClapInv, Fielded, SyncFields
  <2>13. CASE Clap!Rest
    <3>1. /\ "past" \in DOMAIN kernel'
          /\ \/ block.skip /\ kernel'.past = (IF kernel.past = "live" THEN "stale" ELSE kernel.past)
             \/ block.skip /\ kernel'.past = kernel.past
             \/ ~block.skip /\ kernel'.past = (IF kernel.past = "none" THEN "live" ELSE kernel.past)
             \/ ~block.skip /\ kernel'.past = kernel.past
      BY <2>13 DEF ClapInv, Fielded, SyncFields, Clap!Rest, Clap!Miss, Clap!HearUntil, Clap!Runs, Clap!Hear
    <3> QED BY <2>13, <3>1 DEF ClapInv, Fielded, SyncFields, Clap!Rest, Clap!still, Clap!values
  <2>14. CASE Clap!Finish
    <3>1. {"now", "fade"} \subseteq DOMAIN bypass'
      BY <2>14 DEF ClapInv, Fielded, SyncFields, Clap!Finish, Clap!BypassProcessed
    <3> QED BY <2>14, <3>1 DEF ClapInv, Fielded, SyncFields, Clap!Finish, Clap!NoBlock
  <2>15. CASE UNCHANGED Clap!clapVars
    BY <2>15, <2>1 DEF ClapInv, Clap!clapVars
  <2> QED BY <2>2, <2>3, <2>4, <2>5, <2>6, <2>7, <2>8, <2>9, <2>10, <2>11, <2>12, <2>13, <2>14, <2>15
          DEF Clap!Next, Clap!Working
<1> QED BY <1>1, <1>2, PTL

\* Main accepts while the plug-in is inactive, so that no block is under way.
ClapLatency ==
    /\ Handshake /\ Answers /\ Optional(block.proposed) /\ hostValue \in Values
    /\ active \/ pending # None \/ accepted # None => bypass.max = Top
    /\ pc # "idle" => accepted = None

LEMMA ClapLatencies == Clap!Init /\ [][Clap!Next]_(Clap!clapVars) => []ClapLatency
<1> USE DEF Clap!Latency
<1>1. Clap!Init => ClapLatency
  BY LatenciesBounded DEF Clap!Init, ClapLatency, Handshake, Answers, Optional, Clap!NewKernel, Clap!NewBypass, Clap!NoBlock
<1>2. ClapInv /\ ClapLatency /\ [Clap!Next]_(Clap!clapVars) => ClapLatency'
  <2> SUFFICES ASSUME ClapInv, ClapLatency, [Clap!Next]_(Clap!clapVars) PROVE ClapLatency'
    OBVIOUS
  <2>1. ASSUME UNCHANGED <<kernel, latency, pending, accepted, block, pc>>, active' => active, hostValue' \in Values,
               bypass' = bypass \/ \E on : bypass' = Clap!SetBypassed(bypass, on)
        PROVE ClapLatency'
    BY <2>1 DEF ClapLatency, Handshake, Answers, Optional, Clap!SetBypassed
  <2>2. ASSUME NEW r \in Rates, Clap!Activate(r) PROVE ClapLatency'
    <3>1. pc = "idle" /\ UNCHANGED <<pc, block, hostValue>> /\ pending' = None
      BY <2>2 DEF ClapInv, Clap!Activate, Clap!values
    <3>2. CASE pending # None /\ r = rate
      BY <2>2, <3>1, <3>2 DEF Clap!Activate, ClapLatency, Handshake, Answers, Optional
    <3>3. CASE ~(pending # None /\ r = rate)
      <4>1. /\ accepted' = None /\ latency' = hostValue /\ kernel' = Clap!Configure(hostValue)
            /\ bypass' = Clap!BypassConfigured(bypass, Top, hostValue)
        BY <2>2, <3>3, Longest, ClapLongest DEF Clap!Activate, Clap!Reconfigure
      <4>2. {"value", "latency"} \subseteq DOMAIN kernel' /\ kernel'.latency = hostValue
        BY <4>1 DEF Clap!Configure
      <4>3. hostValue <= Top
        BY Longest, ClapLongest DEF ClapLatency
      <4>4. {"latency", "max"} \subseteq DOMAIN bypass' /\ bypass'.latency = hostValue /\ bypass'.max = Top
        BY <4>1, <4>3 DEF ClapLatency, Handshake, Clap!BypassConfigured, Clap!SetLatency, Clap!Snap
      <4> QED BY <3>1, <4>1, <4>2, <4>4 DEF ClapLatency, Handshake, Answers, Optional
    <3> QED BY <3>2, <3>3
  <2>3. CASE Clap!Deactivate \/ Clap!Reset \/ Clap!RenderSetMode \/ Clap!Window
    BY <2>3, <2>1 DEF ClapLatency, Clap!Deactivate, Clap!Reset, Clap!RenderSetMode, Clap!Window, Clap!stream, Clap!values,
                      Clap!handshake
  <2>5. ASSUME NEW v \in Values, Clap!Flush(v) \/ Clap!EditStore(v) PROVE ClapLatency'
    BY <2>5, <2>1 DEF Clap!Flush, Clap!EditStore, Clap!stream, Clap!handshake
  <2>6. ASSUME NEW v \in Values, NEW on \in BOOLEAN, Clap!Load(v, on) PROVE ClapLatency'
    BY <2>6, <2>1 DEF Clap!Load, Clap!stream, Clap!handshake
  <2>7. ASSUME NEW on \in BOOLEAN, Clap!FlushBypass(on) PROVE ClapLatency'
    BY <2>7, <2>1 DEF ClapLatency, Clap!FlushBypass, Clap!stream, Clap!handshake, Clap!values
  <2>8. CASE Clap!Loaded \/ Clap!EditQueue \/ Clap!Gesture("start") \/ Clap!Gesture("end")
    BY <2>8, <2>1 DEF ClapLatency, Clap!Loaded, Clap!EditQueue, Clap!Gesture, Clap!stream, Clap!handshake
  <2>9. ASSUME NEW frames \in {0, 2}, NEW events_ \in Clap!Events, Clap!Enter(frames, events_) PROVE ClapLatency'
    <3> DEFINE k == IF accepted = None THEN kernel ELSE Clap!Adopt(kernel, accepted)
               b == IF accepted = None THEN bypass ELSE Clap!SetLatency(bypass, accepted)
               plan == Clap!SyncPlan(sync, Clap!FactsOf(frames))
    <3>1. /\ {"value", "latency"} \subseteq DOMAIN k /\ {"latency", "max"} \subseteq DOMAIN b /\ b.max = bypass.max
          /\ k.latency = latency /\ b.latency = latency
      BY DEF ClapLatency, Handshake, Answers, Optional, Clap!Adopt, Clap!SetLatency
    <3>2. /\ accepted' = None /\ UNCHANGED <<active, hostValue, latency, pending>> /\ block'.proposed = None /\ active
          /\ kernel' = IF plan # "none" THEN Clap!Restart(k, Clap!RestartValue(events_)) ELSE k
          /\ bypass' = IF plan = "stream" THEN Clap!Snap(b) ELSE b
      BY <2>9 DEF Clap!Enter, Clap!values, Clap!NoBlock
    <3> HIDE DEF k, b, plan
    <3>3. {"value", "latency"} \subseteq DOMAIN kernel' /\ kernel'.latency = latency
      BY <3>1, <3>2 DEF Clap!Restart
    <3>4. {"latency", "max"} \subseteq DOMAIN bypass' /\ bypass'.latency = latency /\ bypass'.max = bypass.max
      BY <3>1, <3>2 DEF Clap!Snap
    <3> QED BY <3>2, <3>3, <3>4 DEF ClapLatency, Handshake, Answers, Optional
  <2> DEFINE Same(k) == {"value", "latency"} \subseteq DOMAIN k /\ k.latency = kernel.latency
  <2>10. CASE Clap!Deliver \/ Clap!Edits
    <3>1. Same(kernel')
      BY <2>10 DEF ClapLatency, Handshake, Clap!Deliver, Clap!Edits, Clap!Set
    <3>2. UNCHANGED <<bypass, hostValue, active, latency, pending, accepted>> /\ block'.proposed = block.proposed /\ accepted = None
      BY <2>10 DEF ClapInv, ClapLatency, Clap!Deliver, Clap!Edits, Clap!still, Clap!handshake
    <3> QED BY <3>1, <3>2 DEF ClapLatency, Handshake, Answers, Optional
  <2>11. CASE Clap!EventAt
    <3> DEFINE e == Head(block.events)
               k == Clap!HearUntil(kernel, e.time)
    <3>1. e \in Clap!Event
      BY <2>11 DEF ClapInv, Clap!EventAt
    <3>2. Same(k)
      BY DEF ClapLatency, Handshake, Clap!HearUntil, Clap!Hear
    <3> HIDE DEF k
    <3>3. Same(kernel')
      BY <2>11, <3>1, <3>2 DEF Clap!EventAt, Clap!Event, Clap!Set, Clap!NoteOn, Clap!NoteOff, k
    <3>4. {"latency", "max"} \subseteq DOMAIN bypass' /\ bypass'.latency = bypass.latency /\ bypass'.max = bypass.max
      BY <2>11, <3>1 DEF ClapLatency, Handshake, Clap!EventAt, Clap!Event, Clap!SetBypassed
    <3>5. hostValue' \in Values
      BY <2>11, <3>1 DEF ClapLatency, Clap!EventAt, Clap!Event
    <3>6. UNCHANGED <<active, latency, pending, accepted>> /\ block'.proposed = block.proposed /\ accepted = None
      BY <2>11 DEF ClapInv, ClapLatency, Clap!EventAt, Clap!still, Clap!handshake
    <3> QED BY <3>3, <3>4, <3>5, <3>6 DEF ClapLatency, Handshake, Answers, Optional
  <2>12. CASE Clap!Rest
    <3>1. Same(kernel')
      BY <2>12 DEF ClapLatency, Handshake, Clap!Rest, Clap!HearUntil, Clap!Hear, Clap!Miss
    <3>2. bypass.max = Top /\ Optional(block'.proposed)
      BY <2>12 DEF ClapInv, ClapLatency, Clap!Rest, Clap!Admits, Optional
    <3>3. UNCHANGED <<bypass, hostValue, active, latency, pending, accepted>> /\ accepted = None
      BY <2>12 DEF ClapLatency, Clap!Rest, Clap!still, Clap!handshake, Clap!values
    <3> QED BY <3>1, <3>2, <3>3 DEF ClapLatency, Handshake, Answers, Optional
  <2>13. CASE Clap!Finish
    <3>1. {"latency", "max"} \subseteq DOMAIN bypass' /\ bypass'.latency = bypass.latency /\ bypass'.max = bypass.max
      BY <2>13 DEF ClapLatency, Handshake, Clap!Finish, Clap!BypassProcessed
    <3>2. bypass.max = Top /\ Optional(pending') /\ block'.proposed = None
      BY <2>13 DEF ClapInv, ClapLatency, Handshake, Clap!Finish, Optional, Clap!NoBlock
    <3>3. UNCHANGED <<kernel, hostValue, active, latency, accepted>> /\ accepted = None
      BY <2>13 DEF ClapLatency, Clap!Finish, Clap!still, Clap!values
    <3> QED BY <3>1, <3>2, <3>3 DEF ClapLatency, Handshake, Answers, Optional
  <2>14. CASE UNCHANGED Clap!clapVars
    BY <2>14, <2>1 DEF ClapLatency, Clap!clapVars, Clap!values, Clap!handshake
  <2> QED BY <2>2, <2>3, <2>5, <2>6, <2>7, <2>8, <2>9, <2>10, <2>11, <2>12, <2>13, <2>14 DEF Clap!Next, Clap!Working
<1> QED BY <1>1, <1>2, ClapInvariance, PTL

\* What was stored last is on its way by one of the ways there are, until CLAP's processor has it or something older
\* was delivered after it.
ClapValues ==
    /\ Listed(fromUi)
    /\ \/ late \/ needsResync \/ kernel.value = hostValue
       \/ main.at # "idle" /\ main.value = hostValue
       \/ main.at # "load" /\ fromLoad = hostValue
       \/ fromFlush = hostValue
       \/ \E i \in DOMAIN fromUi : fromUi[i].kind = "set" /\ fromUi[i].value = hostValue
       \/ pc \in {"deliver", "edits", "events"} /\ block.events # <<>> /\ Head(block.events).kind = "set"

LEMMA ClapValuesMeet == Clap!Init /\ [][Clap!Next]_(Clap!clapVars) => []ClapValues
<1>1. Clap!Init => ClapValues
  BY Lists DEF Clap!Init, ClapValues, Clap!NewKernel
<1>2. ClapInv /\ ClapLatency /\ ClapValues /\ [Clap!Next]_(Clap!clapVars) => ClapValues'
  <2> SUFFICES ASSUME ClapInv, ClapLatency, ClapValues, [Clap!Next]_(Clap!clapVars) PROVE ClapValues'
    OBVIOUS
  <2> DEFINE Told == pc \in {"deliver", "edits", "events"} /\ block.events # <<>> /\ Head(block.events).kind = "set"
             Queued == \E i \in DOMAIN fromUi : fromUi[i].kind = "set" /\ fromUi[i].value = hostValue
  <2>0. {"value", "latency"} \subseteq DOMAIN kernel /\ hostValue \in Values /\ hostValue # None
    BY NoneApart DEF ClapLatency, Handshake
  <2>1. ASSUME UNCHANGED <<kernel, main, block, pc, Clap!values>> PROVE ClapValues'
    BY <2>1 DEF ClapValues, Clap!values
  <2>2. ASSUME NEW r \in Rates, Clap!Activate(r) PROVE ClapValues'
    <3>1. UNCHANGED <<pc, block, main, Clap!values>>
      BY <2>2 DEF Clap!Activate
    <3>2. CASE pending # None /\ r = rate
      BY <2>2, <2>1, <3>1, <3>2 DEF Clap!Activate
    <3>3. CASE ~(pending # None /\ r = rate)
      <4>1. kernel' = Clap!Configure(hostValue)
        BY <2>2, <3>3 DEF Clap!Activate, Clap!Reconfigure
      <4> QED BY <3>1, <4>1 DEF ClapValues, Clap!Configure, Clap!values
    <3> QED BY <3>2, <3>3
  <2>3. CASE Clap!Deactivate \/ Clap!Reset \/ Clap!RenderSetMode \/ Clap!Window
    BY <2>3, <2>1 DEF Clap!Deactivate, Clap!Reset, Clap!RenderSetMode, Clap!Window, Clap!stream
  <2>4. ASSUME NEW v \in Values, Clap!Flush(v) PROVE ClapValues'
    <3>1. fromFlush' = v /\ hostValue' = v /\ fromUi' = fromUi
      BY <2>4 DEF Clap!Flush
    <3> QED BY <3>1 DEF ClapValues
  <2>5. ASSUME NEW v \in Values, Clap!EditStore(v) \/ \E on \in BOOLEAN : Clap!Load(v, on) PROVE ClapValues'
    <3>1. main'.at # "idle" /\ main'.value = v /\ hostValue' = v /\ fromUi' = fromUi
      BY <2>5 DEF Clap!EditStore, Clap!Load
    <3> QED BY <3>1 DEF ClapValues
  <2>6. ASSUME NEW on \in BOOLEAN, Clap!FlushBypass(on) PROVE ClapValues'
    BY <2>6, <2>1 DEF Clap!FlushBypass, Clap!stream
  <2>7. CASE Clap!Loaded
    <3>1. /\ main.at = "load" /\ main'.at = "idle" /\ fromLoad' = main.value
          /\ UNCHANGED <<kernel, pc, block, hostValue, fromFlush, fromUi, needsResync, late>>
      BY <2>7 DEF Clap!Loaded, Clap!stream
    <3> QED BY <3>1 DEF ClapValues
  <2>8. ASSUME NEW action, Clap!Queue(action), UNCHANGED <<kernel, pc, block, hostValue, fromFlush, fromLoad, late>>,
               \/ main' = main
               \/ main.at # "load" /\ main'.at # "load" /\ action.kind = "set" /\ action.value = main.value
        PROVE  ClapValues'
    <3>1. CASE needsResync' /\ fromUi' = fromUi
      BY <3>1 DEF ClapValues
    <3>2. CASE fromUi' = Append(fromUi, action) /\ needsResync' = needsResync
      <4> DEFINE S == {fromUi[i] : i \in DOMAIN fromUi} \cup {action}
                 more == Append(fromUi, action)
      <4>1. fromUi \in Seq(S) /\ action \in S
        BY DEF ClapValues, Listed
      <4> HIDE DEF S
      <4>2. /\ Len(fromUi) + 1 \in DOMAIN more /\ more[Len(fromUi) + 1] = action
            /\ \A i \in DOMAIN fromUi : i \in DOMAIN more /\ more[i] = fromUi[i]
        BY <4>1, AppendProperties
      <4> HIDE DEF more
      <4>3. Listed(fromUi') /\ fromUi' = more
        BY <3>2, Lists DEF ClapValues, more
      <4>4. (Queued => Queued') /\ (action.kind = "set" /\ action.value = hostValue => Queued')
        BY <2>8, <4>2, <4>3
      <4> HIDE DEF Queued
      <4>5. CASE Queued
        BY <4>3, <4>4, <4>5 DEF ClapValues, Queued
      <4>6. CASE ~Queued
        <5>1. CASE action.kind = "set" /\ action.value = hostValue
          BY <4>3, <4>4, <5>1 DEF ClapValues, Queued
        <5>2. CASE ~(action.kind = "set" /\ action.value = hostValue)
          <6>1. \/ late \/ needsResync \/ kernel.value = hostValue
                \/ main' = main /\ main.at # "idle" /\ main.value = hostValue
                \/ main.at # "load" /\ fromLoad = hostValue
                \/ fromFlush = hostValue \/ Told
            BY <2>8, <4>6, <5>2 DEF ClapValues, Queued
          <6>2. main.at # "load" => main'.at # "load"
            BY <2>8
          <6> QED BY <2>8, <3>2, <4>3, <6>1, <6>2 DEF ClapValues
        <5> QED BY <5>1, <5>2
      <4> QED BY <4>5, <4>6
    <3> QED BY <2>8, <3>1, <3>2 DEF Clap!Queue
  <2>9. CASE Clap!EditQueue
    <3> DEFINE action == [kind |-> "set", value |-> main.value]
    <3>1. /\ Clap!Queue(action) /\ UNCHANGED <<kernel, pc, block, hostValue, fromFlush, fromLoad, late>>
          /\ main.at # "load" /\ main'.at # "load" /\ action.kind = "set" /\ action.value = main.value
      BY <2>9 DEF Clap!EditQueue, Clap!stream
    <3> HIDE DEF action
    <3> QED BY <2>8, <3>1
  <2>10. CASE Clap!Gesture("start") \/ Clap!Gesture("end")
    BY <2>10, <2>8 DEF Clap!Gesture, Clap!stream
  <2>11. ASSUME NEW frames \in {0, 2}, NEW events_ \in Clap!Events, Clap!Enter(frames, events_) PROVE ClapValues'
    <3> DEFINE k == IF accepted = None THEN kernel ELSE Clap!Adopt(kernel, accepted)
               plan == Clap!SyncPlan(sync, Clap!FactsOf(frames))
    <3>1. k.value = kernel.value /\ "value" \in DOMAIN k
      BY <2>0 DEF Clap!Adopt
    <3>2. /\ pc = "idle" /\ pc' = "deliver" /\ block'.events = events_ /\ UNCHANGED <<main, Clap!values>>
          /\ kernel' = IF plan # "none" THEN Clap!Restart(k, Clap!RestartValue(events_)) ELSE k
      BY <2>11 DEF Clap!Enter, Clap!NoBlock
    <3>3. Clap!AtTop(events_) # {} => events_ # <<>> /\ Head(events_).kind = "set"
      BY DEF Clap!AtTop, Clap!Events
    <3> HIDE DEF k, plan
    <3>4. kernel'.value = kernel.value \/ kernel'.value = hostValue \/ Told'
      BY <3>1, <3>2, <3>3 DEF Clap!Restart, Clap!RestartValue
    <3>5. ~Told
      BY <3>2
    <3> QED BY <3>2, <3>4, <3>5 DEF ClapValues, Clap!values
  <2>12. CASE Clap!Deliver
    <3> DEFINE k == IF needsResync THEN Clap!Set(kernel, hostValue) ELSE kernel
    <3>1. /\ kernel' = Clap!Set(k, Clap!Flushed(k)) /\ late' = Clap!LateAfter(k, {fromLoad, fromFlush}, Clap!Flushed(k))
          /\ pc = "deliver" /\ pc' = "edits" /\ block'.events = block.events /\ UNCHANGED <<main, hostValue, fromUi>>
      BY <2>12 DEF Clap!Deliver, Clap!still, ClapInv
    <3>2. k.value = (IF needsResync THEN hostValue ELSE kernel.value) /\ "value" \in DOMAIN k
      BY <2>0 DEF Clap!Set
    <3> HIDE DEF k
    <3>3. kernel'.value = Clap!Flushed(k)
      BY <3>1, <3>2 DEF Clap!Set
    <3>4. CASE Clap!Flushed(k) = hostValue
      BY <3>1, <3>3, <3>4 DEF ClapValues
    <3>5. CASE late'
      BY <3>1, <3>5 DEF ClapValues
    <3>6. CASE Clap!Flushed(k) # hostValue /\ ~late'
      <4>1. ~late /\ k.value # hostValue /\ fromLoad # hostValue /\ fromFlush # hostValue
        BY <3>1, <3>6 DEF Clap!LateAfter
      <4>2. ~needsResync /\ kernel.value # hostValue
        BY <3>2, <4>1
      <4> QED BY <3>1, <4>1, <4>2 DEF ClapValues
    <3> QED BY <3>4, <3>5, <3>6
  <2>13. CASE Clap!Edits
    <3>1. /\ pc = "edits" /\ pc' = "events" /\ fromUi' = <<>> /\ block'.events = block.events /\ Listed(fromUi')
          /\ UNCHANGED <<main, hostValue, fromFlush, fromLoad, needsResync>>
      BY <2>13, Lists DEF Clap!Edits, Clap!still, ClapInv
    <3>2. CASE block.resync
      <4>1. kernel' = kernel /\ late' = (kernel.value # hostValue)
        BY <2>13, <3>2 DEF Clap!Edits
      <4> QED BY <3>1, <4>1 DEF ClapValues
    <3>3. CASE ~block.resync
      <4> DEFINE edited == Clap!Edited(kernel)
      <4>1. /\ kernel' = Clap!Set(kernel, edited)
            /\ late' = Clap!LateAfter(kernel, {fromUi[i].value : i \in Clap!SetsOf(fromUi)}, edited)
        BY <2>13, <3>3 DEF Clap!Edits
      <4> HIDE DEF edited
      <4>2. kernel'.value = edited
        BY <2>0, <4>1 DEF Clap!Set
      <4>3. CASE edited = hostValue \/ late'
        BY <3>1, <4>2, <4>3 DEF ClapValues
      <4>4. CASE edited # hostValue /\ ~late'
        <5>1. ~late /\ kernel.value # hostValue /\ hostValue \notin {fromUi[i].value : i \in Clap!SetsOf(fromUi)}
          BY <4>1, <4>4 DEF Clap!LateAfter
        <5>2. ~Queued
          BY <5>1 DEF Clap!SetsOf
        <5> QED BY <3>1, <5>1, <5>2 DEF ClapValues
      <4> QED BY <4>3, <4>4
    <3> QED BY <3>2, <3>3
  <2>14. CASE Clap!EventAt
    <3> DEFINE e == Head(block.events)
               k == Clap!HearUntil(kernel, e.time)
    <3>1. e \in Clap!Event
      BY <2>14 DEF ClapInv, Clap!EventAt
    <3>2. k.value = kernel.value /\ "value" \in DOMAIN k
      BY <2>0 DEF Clap!HearUntil, Clap!Hear
    <3>3. UNCHANGED <<main, fromFlush, fromLoad, fromUi, needsResync, late, pc>>
      BY <2>14 DEF Clap!EventAt, Clap!still
    <3> HIDE DEF k
    <3>4. CASE e.kind = "set"
      <4>1. kernel' = Clap!Set(k, e.value) /\ hostValue' = e.value
        BY <2>14, <3>4 DEF Clap!EventAt, k
      <4>2. kernel'.value = hostValue'
        BY <3>2, <4>1 DEF Clap!Set
      <4> QED BY <3>3, <4>2 DEF ClapValues
    <3>5. CASE e.kind # "set"
      <4>1. kernel'.value = kernel.value /\ hostValue' = hostValue
        BY <2>14, <3>1, <3>2, <3>5 DEF Clap!EventAt, Clap!Event, Clap!NoteOn, Clap!NoteOff, k
      <4>2. ~Told
        BY <3>5
      <4> QED BY <3>3, <4>1, <4>2 DEF ClapValues
    <3> QED BY <3>4, <3>5
  <2>15. CASE Clap!Rest
    <3>1. /\ block.events = <<>> /\ UNCHANGED <<main, Clap!values>>
          /\ kernel' = IF block.skip /\ block.frames > 0 THEN Clap!Miss(kernel) ELSE Clap!HearUntil(kernel, block.frames)
      BY <2>15 DEF Clap!Rest, Clap!still
    <3>2. kernel'.value = kernel.value
      BY <2>0, <3>1 DEF Clap!Miss, Clap!HearUntil, Clap!Hear
    <3> QED BY <3>1, <3>2 DEF ClapValues, Clap!values
  <2>16. CASE Clap!Finish
    <3>1. pc = "finish" /\ UNCHANGED <<kernel, main, Clap!values>>
      BY <2>16 DEF Clap!Finish, Clap!still
    <3> QED BY <3>1 DEF ClapValues, Clap!values
  <2>17. CASE UNCHANGED Clap!clapVars
    BY <2>17, <2>1 DEF Clap!clapVars
  <2> QED BY <2>2, <2>3, <2>4, <2>5, <2>6, <2>7, <2>9, <2>10, <2>11, <2>12, <2>13, <2>14, <2>15, <2>16, <2>17
          DEF Clap!Next, Clap!Working
<1> QED BY <1>1, <1>2, ClapInvariance, ClapLatencies, PTL

-----------------------------------------------------------------------------
(* Proofs about VST3.                                                        *)

Vst3 == INSTANCE Vst3 WITH Budgets <- Vst3Plans

\* It goes by the one Stream_sync.
LEMMA Vst3Stream ==
    ASSUME NEW s, NEW f
    PROVE  Vst3!SyncNext(s, f) = Stream!SyncNext(s, f) /\ Vst3!SyncPlan(s, f) = Stream!SyncPlan(s, f)
BY Zenon DEF Stream!SyncNext, Stream!SyncPlan, Stream!SyncAfter, Stream!SyncSees, Stream!PlanOf, Stream!HoldsOn,
             Stream!Discontinuous, Stream!ModeOf, Vst3!SyncNext, Vst3!SyncPlan, Vst3!SyncAfter, Vst3!SyncSees,
             Vst3!PlanOf, Vst3!HoldsOn, Vst3!Discontinuous, Vst3!ModeOf

\* Its longest latency is the longest one.
LEMMA Vst3Longest == Vst3!MaxLatency = Top
BY Zenon DEF Top, Stream!MaxLatency, Vst3!MaxLatency

\* A note, and what a block's events are once they are normalised.
Vst3Note == [kind : {"on", "off"}, value : Keys, time : {0}]
Vst3Event == [kind : {"set", "ramp"}, time : 0..1, value : Values] \cup Vst3Note

\* A block's points are in its order, and its events are of the four kinds.
LEMMA Vst3Normalizes ==
    /\ \A extra \in Vst3!Extras : toProcessor = None \/ toProcessor \in Values => Vst3!Points(extra) \in Seq(Vst3!Point)
    /\ Vst3!Notes \subseteq Seq(Vst3Note)
    /\ \A renders : \A points \in Seq(Vst3!Point), notes_ \in Seq(Vst3Note) :
          Vst3!Normalized(points, renders) \o notes_ \in Seq(Vst3Event)
<1>1. ASSUME NEW extra \in Vst3!Extras, toProcessor = None \/ toProcessor \in Values
      PROVE  Vst3!Points(extra) \in Seq(Vst3!Point)
  <2>1. extra \in Seq(Vst3!Point)
    <3>1. ASSUME NEW v \in Values PROVE <<[offset |-> 1, value |-> v]>> \in Seq(Vst3!Point)
      BY DEF Vst3!Point
    <3>2. <<>> \in Seq(Vst3!Point)
      OBVIOUS
    <3> QED BY <3>1, <3>2, Zenon DEF Vst3!Extras
  <2>2. CASE toProcessor = None
    BY <2>1, <2>2 DEF Vst3!Points
  <2>3. CASE toProcessor # None
    <3>1. <<[offset |-> 0, value |-> toProcessor]>> \in Seq(Vst3!Point)
      BY <1>1, <2>3 DEF Vst3!Point
    <3> QED BY <2>1, <2>3, <3>1 DEF Vst3!Points
  <2> QED BY <2>2, <2>3
<1>2. Vst3!Notes \subseteq Seq(Vst3Note)
  <2>1. ASSUME NEW k \in {"on", "off"}, NEW key \in Keys
        PROVE  <<[kind |-> k, value |-> key, time |-> 0]>> \in Seq(Vst3Note)
    BY DEF Vst3Note
  <2>2. <<>> \in Seq(Vst3Note)
    OBVIOUS
  <2>3. ASSUME NEW n \in Vst3!Notes PROVE n \in Seq(Vst3Note)
    <3>1. n = <<>> \/ \E k \in {"on", "off"}, key \in Keys : n = <<[kind |-> k, value |-> key, time |-> 0]>>
      BY DEF Vst3!Notes
    <3> QED BY <3>1, <2>1, <2>2, Zenon
  <2> QED BY <2>3
<1>3. ASSUME NEW points \in Seq(Vst3!Point), NEW notes_ \in Seq(Vst3Note), NEW renders
      PROVE  Vst3!Normalized(points, renders) \o notes_ \in Seq(Vst3Event)
  <2>1. \A i \in 1 .. Len(points) : Vst3!FromOffset(points, i) \in -1 .. 1
    <3> SUFFICES ASSUME NEW i \in 1 .. Len(points) PROVE Vst3!FromOffset(points, i) \in -1 .. 1
      OBVIOUS
    <3>1. CASE i = 1
      BY <3>1 DEF Vst3!FromOffset
    <3>2. CASE i # 1
      <4>1. points[i - 1] \in Vst3!Point
        BY <3>2
      <4>2. points[i - 1].offset \in 0 .. 1
        BY <4>1 DEF Vst3!Point
      <4> QED BY <3>2, <4>2 DEF Vst3!FromOffset
    <3> QED BY <3>1, <3>2
  <2>2. Vst3!Normalized(points, renders) \in Seq(Vst3Event)
    <3> DEFINE point(i) == [kind  |-> IF renders /\ points[i].offset - Vst3!FromOffset(points, i) > 1 THEN "ramp" ELSE "set",
                            time  |-> IF Vst3!FromOffset(points, i) < 0 THEN 0 ELSE Vst3!FromOffset(points, i),
                            value |-> points[i].value]
    <3>1. ASSUME NEW i \in 1 .. Len(points) PROVE point(i) \in Vst3Event
      <4>0. points[i] \in Vst3!Point
        OBVIOUS
      <4>1. points[i].value \in Values
        BY <4>0 DEF Vst3!Point
      <4> QED BY <2>1, <4>1 DEF Vst3Event
    <3>2. Vst3!Normalized(points, renders) = [i \in 1 .. Len(points) |-> point(i)]
      BY DEF Vst3!Normalized
    <3> HIDE DEF point
    <3> QED BY <3>1, <3>2
  <2>3. notes_ \in Seq(Vst3Event)
    BY DEF Vst3Event
  <2> QED BY <2>2, <2>3
<1> QED BY <1>1, <1>2, <1>3

\* The same of VST3, whose host's sets and bypass come with the block.
Vst3Inv ==
    /\ Fielded(sync, kernel, bypass) /\ ~sync.holdOffline /\ ~sync.holding
    /\ {"at", "points", "notes", "events", "skip", "proposed"} \subseteq DOMAIN block
    /\ toProcessor = None \/ toProcessor \in Values
    /\ block.points \in Seq(Vst3!Point) /\ block.notes \in Seq(Vst3Note) /\ block.events \in Seq(Vst3Event)
    /\ kernel.past = "stale" => sync.wasSkipped
    /\ pc \in {"events", "finish"} => /\ block.skip <=> Vst3!CanSkip(bypass)
                                      /\ kernel.past = "stale" => block.skip
                                      /\ block.skip => sync.wasSkipped \/ kernel.past = "none"

LEMMA Vst3Invariance == Vst3!Init /\ [][Vst3!Next]_(Vst3!vst3Vars) => []Vst3Inv
<1>1. Vst3!Init => Vst3Inv
  BY DEF Vst3!Init, Vst3Inv, Fielded, SyncFields, Vst3!NewSync, Vst3!NewKernel, Vst3!NewBypass, Vst3!NoBlock
<1>2. Vst3Inv /\ [Vst3!Next]_(Vst3!vst3Vars) => Vst3Inv'
  <2> SUFFICES ASSUME Vst3Inv, [Vst3!Next]_(Vst3!vst3Vars) PROVE Vst3Inv'
    OBVIOUS
  <2>1. ASSUME UNCHANGED <<kernel, sync, block, pc>>, toProcessor' = toProcessor \/ toProcessor' \in Values,
               bypass' = bypass \/ \E on : bypass' = Vst3!SetBypassed(bypass, on)
        PROVE Vst3Inv'
    BY <2>1 DEF Vst3Inv, Fielded, Vst3!SetBypassed, Vst3!CanSkip
  <2>2. CASE Vst3!SetupProcessing
    BY <2>2 DEF Vst3Inv, Fielded, SyncFields, Vst3!SetupProcessing, Vst3!Stopped, Vst3!Configure,
                Vst3!SyncConfigured, Vst3!BypassConfigured, Vst3!SetLatency, Vst3!Snap
  <2>3. CASE Vst3!Activate \/ Vst3!Deactivate \/ Vst3!SetProcessing(TRUE) \/ Vst3!SetProcessing(FALSE)
    BY <2>3, <2>1 DEF Vst3!Activate, Vst3!Deactivate, Vst3!SetProcessing
  <2>4. CASE Vst3!TellLatency \/ Vst3!GetLatency \/ Vst3!Peeked \/ Vst3!SetMode
    BY <2>4, <2>1 DEF Vst3!TellLatency, Vst3!GetLatency, Vst3!Peeked, Vst3!SetMode
  <2>5. ASSUME NEW v \in Values, Vst3!SetState(v) \/ Vst3!Edit(v) PROVE Vst3Inv'
    BY <2>5, <2>1 DEF Vst3!SetState, Vst3!Edit, Vst3!audio
  <2>6. ASSUME NEW on \in BOOLEAN, Vst3!StatePushed(on) PROVE Vst3Inv'
    BY <2>6, <2>1 DEF Vst3!StatePushed, Vst3!audio
  <2>7. CASE Vst3!SetComponentState \/ Vst3!OpenView \/ Vst3!CloseView \/ Vst3!Frame \/ Vst3!Begin \/ Vst3!End
    BY <2>7, <2>1 DEF Vst3!SetComponentState, Vst3!OpenView, Vst3!CloseView, Vst3!Frame, Vst3!Begin, Vst3!End,
                      Vst3!audio
  <2>8. ASSUME NEW frames \in {0, 2}, NEW playing \in BOOLEAN, NEW extra \in Vst3!Extras, NEW notes_ \in Vst3!Notes, NEW on,
               Vst3!Enter(frames, playing, extra, notes_, on)
        PROVE  Vst3Inv'
    <3>1. /\ pc = "idle" /\ pc' = "normalize" /\ UNCHANGED sync /\ toProcessor' = None
          /\ {"at", "points", "notes", "events", "skip", "proposed"} \subseteq DOMAIN block'
          /\ block'.points = Vst3!Points(extra) /\ block'.notes = notes_ /\ block'.events = <<>>
      BY <2>8 DEF Vst3!Enter, Vst3!NoBlock
    <3>5. block'.points \in Seq(Vst3!Point) /\ block'.notes \in Seq(Vst3Note) /\ block'.events \in Seq(Vst3Event)
      BY <3>1, Vst3Normalizes DEF Vst3Inv
    <3> DEFINE falls == playing /\ ~wasMoving /\ didPeek
               take == IF falls /\ pending # None THEN pending ELSE accepted
               k == IF take # None THEN Vst3!Adopt(kernel, take) ELSE kernel
    <3>2. /\ kernel' = IF loaded = None THEN k ELSE Vst3!Set(k, loaded)
          /\ bypass' = IF take # None THEN Vst3!SetLatency(bypass, take) ELSE bypass
      BY <2>8, Zenon DEF Vst3!Enter
    <3> HIDE DEF take
    <3>3. "past" \in DOMAIN kernel' /\ kernel'.past = kernel.past
      BY <3>2 DEF Vst3Inv, Fielded, Vst3!Adopt, Vst3!Set
    <3>4. {"now", "fade"} \subseteq DOMAIN bypass'
      BY <3>2 DEF Vst3Inv, Fielded, Vst3!SetLatency
    <3> HIDE DEF k
    <3> QED BY <3>1, <3>3, <3>4, <3>5 DEF Vst3Inv, Fielded
  <2>9. CASE Vst3!Normalize
    <3> DEFINE f == Vst3!FactsOf(block.frames)
               to == Vst3!SyncNext(sync, f)
               plan == Vst3!SyncPlan(sync, f)
    <3>1. /\ SyncFields \subseteq DOMAIN to /\ ~to.holdOffline /\ ~to.holding
          /\ plan \in {"none", "resume", "stream"}
          /\ plan = "stream" \/ (to.wasSkipped <=> Vst3!CanSkip(bypass))
          /\ plan = "none" /\ sync.wasSkipped => Vst3!CanSkip(bypass)
      <4>1. SyncFields \subseteq DOMAIN sync /\ ~sync.holdOffline /\ ~sync.holding
        BY DEF Vst3Inv, Fielded
      <4>2. to = Stream!SyncNext(sync, f) /\ plan = Stream!SyncPlan(sync, f)
        BY Vst3Stream, Zenon
      <4>3. f.skipping = Vst3!CanSkip(bypass)
        BY DEF Vst3!FactsOf
      <4> HIDE DEF f, to, plan
      <4> QED BY <4>1, <4>2, <4>3, StreamGoesOn
    <3> DEFINE events_ == Vst3!Normalized(block.points, block.frames > 0)
               heard == IF block.bypass = None THEN bypass ELSE Vst3!SetBypassed(bypass, block.bypass)
               b == IF plan = "stream" THEN Vst3!Snap(heard) ELSE heard
               taken == events_ \o block.notes
    <3>2. /\ pc' = "events" /\ sync' = to /\ bypass' = b /\ UNCHANGED toProcessor
          /\ kernel' = IF plan = "none" THEN kernel ELSE Vst3!Restart(kernel, Vst3!RestartValue(events_))
          /\ block' = [block EXCEPT !.events = taken, !.skip = Vst3!CanSkip(b)]
      BY <2>9, Zenon DEF Vst3!Normalize
    <3>7. taken \in Seq(Vst3Event)
      <4>1. block.points \in Seq(Vst3!Point) /\ block.notes \in Seq(Vst3Note)
        BY DEF Vst3Inv
      <4> QED BY <4>1, Vst3Normalizes
    <3>8. heard = bypass \/ \E on : heard = Vst3!SetBypassed(bypass, on)
      OBVIOUS
    <3>9. b = IF plan = "stream" THEN Vst3!Snap(heard) ELSE heard
      OBVIOUS
    <3> HIDE DEF events_, heard, taken, b
    <3>3. {"now", "fade"} \subseteq DOMAIN heard /\ (Vst3!CanSkip(heard) <=> Vst3!CanSkip(bypass))
      BY <3>8 DEF Vst3Inv, Fielded, Vst3!SetBypassed, Vst3!CanSkip
    <3> HIDE DEF to, plan, f
    <3>4. CASE plan = "none"
      BY <3>1, <3>2, <3>3, <3>7, <3>9, <3>4 DEF Vst3Inv, Fielded
    <3>5. CASE plan = "resume"
      BY <3>1, <3>2, <3>3, <3>7, <3>9, <3>5 DEF Vst3Inv, Fielded, Vst3!Restart
    <3>6. CASE plan = "stream"
      BY <3>1, <3>2, <3>3, <3>7, <3>9, <3>6 DEF Vst3Inv, Fielded, Vst3!Restart, Vst3!Snap
    <3> QED BY <3>1, <3>4, <3>5, <3>6
  <2>10. CASE Vst3!EventAt
    <3> DEFINE e == Head(block.events)
               k == Vst3!HearUntil(kernel, e.time)
    <3>1. e \in Vst3Event /\ Tail(block.events) \in Seq(Vst3Event)
      BY <2>10 DEF Vst3Inv, Vst3!EventAt
    <3>2. "past" \in DOMAIN k /\ (k.past = kernel.past \/ (~block.skip /\ kernel.past = "none" /\ k.past = "live"))
      BY DEF Vst3Inv, Fielded, Vst3!HearUntil, Vst3!Runs, Vst3!Hear
    <3>3. "past" \in DOMAIN kernel' /\ kernel'.past = k.past
      BY <2>10, <3>1, <3>2 DEF Vst3!EventAt, Vst3Event, Vst3Note, Vst3!Set, Vst3!NoteOn, Vst3!NoteOff
    <3>4. /\ pc = "events" /\ UNCHANGED <<pc, sync, bypass, toProcessor>>
          /\ block' = [block EXCEPT !.events = Tail(@), !.at = IF e.time > @ THEN e.time ELSE @]
      BY <2>10 DEF Vst3!EventAt
    <3> HIDE DEF e, k
    <3> QED BY <3>1, <3>2, <3>3, <3>4 DEF Vst3Inv, Fielded
  <2>11. CASE Vst3!Rest
    <3>1. /\ "past" \in DOMAIN kernel'
          /\ \/ block.skip /\ kernel'.past = (IF kernel.past = "live" THEN "stale" ELSE kernel.past)
             \/ block.skip /\ kernel'.past = kernel.past
             \/ ~block.skip /\ kernel'.past = (IF kernel.past = "none" THEN "live" ELSE kernel.past)
             \/ ~block.skip /\ kernel'.past = kernel.past
      BY <2>11 DEF Vst3Inv, Fielded, Vst3!Rest, Vst3!Miss, Vst3!HearUntil, Vst3!Runs, Vst3!Hear
    <3> QED BY <2>11, <3>1 DEF Vst3Inv, Fielded, Vst3!Rest
  <2>12. CASE Vst3!Finish
    <3>1. {"now", "fade"} \subseteq DOMAIN bypass'
      BY <2>12 DEF Vst3Inv, Fielded, Vst3!Finish, Vst3!BypassProcessed
    <3>2. /\ {"at", "points", "notes", "events", "skip", "proposed"} \subseteq DOMAIN block'
          /\ block'.points = <<>> /\ block'.notes = <<>> /\ block'.events = <<>>
          /\ pc' = "idle" /\ UNCHANGED <<sync, kernel, toProcessor>>
      BY <2>12 DEF Vst3!Finish, Vst3!NoBlock
    <3> QED BY <3>1, <3>2 DEF Vst3Inv, Fielded
  <2>13. CASE UNCHANGED Vst3!vst3Vars
    BY <2>13, <2>1 DEF Vst3!vst3Vars
  <2> QED BY <2>2, <2>3, <2>4, <2>5, <2>6, <2>7, <2>8, <2>9, <2>10, <2>11, <2>12, <2>13
          DEF Vst3!Next, Vst3!Working
<1> QED BY <1>1, <1>2, PTL

\* What VST3's processor sounds has a name, or the stream restarts before it sounds again: setActive(false) and
\* setProcessing leave that to the next block.
Vst3Sounds ==
    /\ "voices" \in DOMAIN kernel
    /\ kernel.voices \subseteq names \/ (needsClear /\ pc \in {"idle", "normalize"})
    /\ ~running => needsClear \/ kernel.voices = {}
    /\ pc # "idle" => running
    /\ pc = "normalize" => Len(block.notes) <= 1
    /\ pc = "events" => NoteLast(block.events, names)

\* A start or a stop of the host restarts the stream.
LEMMA Vst3Clears ==
    ASSUME NEW s, SyncFields \subseteq DOMAIN s, ~s.holdOffline, ~s.holding, NEW f, f.hostReset
    PROVE  Vst3!SyncPlan(s, f) = "stream"
<1> DEFINE after == Stream!SyncSees(s, f)
<1>1. after.pending /\ ~after.holding
  BY DEF Stream!SyncSees, Stream!Discontinuous, SyncFields
<1> HIDE DEF after
<1>2. Stream!PlanOf(after, f) = "stream"
  BY <1>1 DEF Stream!PlanOf, Stream!HoldsOn
<1> QED BY <1>2, Vst3Stream, Zenon DEF Stream!SyncPlan, after

\* Every step keeps it so.
LEMMA Vst3SoundsOn == Vst3!Init /\ [][Vst3!Next]_(Vst3!vst3Vars) => []Vst3Sounds
<1>1. Vst3!Init => Vst3Sounds
  BY DEF Vst3!Init, Vst3Sounds, Vst3!NewKernel
<1>2. Vst3Inv /\ Vst3Sounds /\ [Vst3!Next]_(Vst3!vst3Vars) => Vst3Sounds'
  <2> SUFFICES ASSUME Vst3Inv, Vst3Sounds, [Vst3!Next]_(Vst3!vst3Vars) PROVE Vst3Sounds'
    OBVIOUS
  <2>1. ASSUME UNCHANGED <<kernel, names, block, pc, running, needsClear>> PROVE Vst3Sounds'
    BY <2>1 DEF Vst3Sounds
  <2>2. CASE Vst3!SetupProcessing
    <3>1. kernel'.voices = {} /\ "voices" \in DOMAIN kernel' /\ UNCHANGED <<names, block, pc, running, needsClear>>
      BY <2>2 DEF Vst3!SetupProcessing, Vst3!Configure
    <3> QED BY <3>1 DEF Vst3Sounds
  <2>3. CASE Vst3!Activate
    BY <2>3, <2>1 DEF Vst3!Activate
  <2>4. CASE Vst3!Deactivate
    BY <2>4 DEF Vst3!Deactivate, Vst3!Stopped, Vst3Sounds
  <2>5. CASE Vst3!SetProcessing(TRUE) \/ Vst3!SetProcessing(FALSE)
    BY <2>5 DEF Vst3!SetProcessing, Vst3Sounds
  <2>6. CASE Vst3!TellLatency \/ Vst3!GetLatency \/ Vst3!Peeked \/ Vst3!SetMode
    BY <2>6, <2>1 DEF Vst3!TellLatency, Vst3!GetLatency, Vst3!Peeked, Vst3!SetMode
  <2>7. ASSUME NEW v \in Values, Vst3!SetState(v) \/ Vst3!Edit(v) PROVE Vst3Sounds'
    BY <2>7, <2>1 DEF Vst3!SetState, Vst3!Edit, Vst3!audio
  <2>8. ASSUME NEW on \in BOOLEAN, Vst3!StatePushed(on) PROVE Vst3Sounds'
    BY <2>8, <2>1 DEF Vst3!StatePushed, Vst3!audio
  <2>9. CASE Vst3!SetComponentState \/ Vst3!OpenView \/ Vst3!CloseView \/ Vst3!Frame \/ Vst3!Begin \/ Vst3!End
    BY <2>9, <2>1 DEF Vst3!SetComponentState, Vst3!OpenView, Vst3!CloseView, Vst3!Frame, Vst3!Begin, Vst3!End,
                      Vst3!audio
  <2>10. ASSUME NEW frames \in {0, 2}, NEW playing \in BOOLEAN, NEW extra \in Vst3!Extras, NEW notes_ \in Vst3!Notes,
                NEW on, Vst3!Enter(frames, playing, extra, notes_, on)
         PROVE  Vst3Sounds'
    <3> DEFINE falls == playing /\ ~wasMoving /\ didPeek
               take == IF falls /\ pending # None THEN pending ELSE accepted
               k == IF take # None THEN Vst3!Adopt(kernel, take) ELSE kernel
    <3>1. /\ pc = "idle" /\ pc' = "normalize" /\ running /\ UNCHANGED <<names, running, needsClear>>
          /\ block'.notes = notes_
      BY <2>10 DEF Vst3!Enter, Vst3!NoBlock
    <3>2. kernel' = IF loaded = None THEN k ELSE Vst3!Set(k, loaded)
      BY <2>10, Zenon DEF Vst3!Enter
    <3> HIDE DEF take
    <3>3. "voices" \in DOMAIN kernel' /\ kernel'.voices = kernel.voices
      BY <3>2 DEF Vst3Sounds, Vst3!Adopt, Vst3!Set
    <3>4. Len(notes_) <= 1
      <4>1. notes_ = <<>> \/ \E kind \in {"on", "off"}, key \in Keys : notes_ = <<[kind |-> kind, value |-> key, time |-> 0]>>
        BY DEF Vst3!Notes
      <4>2. \A n : Len(<<n>>) = 1
        OBVIOUS
      <4>3. Len(<<>>) = 0
        OBVIOUS
      <4>4. Len(notes_) \in {0, 1}
        BY <4>1, <4>2, <4>3, Zenon
      <4>5. \A n \in {0, 1} : n <= 1
        OBVIOUS
      <4> QED BY <4>4, <4>5, Zenon
    <3> HIDE DEF k
    <3> QED BY <3>1, <3>3, <3>4 DEF Vst3Sounds
  <2>11. CASE Vst3!Normalize
    <3> DEFINE f == Vst3!FactsOf(block.frames)
               plan == Vst3!SyncPlan(sync, f)
               events_ == Vst3!Normalized(block.points, block.frames > 0)
               heard == IF block.bypass = None THEN bypass ELSE Vst3!SetBypassed(bypass, block.bypass)
               b == IF plan = "stream" THEN Vst3!Snap(heard) ELSE heard
               taken == events_ \o block.notes
               named == {n.value : n \in {m \in Vst3!Range(block.notes) : m.kind = "on"}}
    <3>1. /\ pc = "normalize" /\ pc' = "events" /\ needsClear' = FALSE /\ UNCHANGED running
          /\ kernel' = (IF plan = "none" THEN kernel ELSE Vst3!Restart(kernel, Vst3!RestartValue(events_)))
          /\ names' = (IF plan = "stream" THEN {} ELSE names) \cup named
          /\ block' = [block EXCEPT !.events = taken, !.skip = Vst3!CanSkip(b)]
      <4>1. UNCHANGED running
        BY <2>11 DEF Vst3!Normalize, Vst3!still
      <4> QED BY <2>11, <4>1, Zenon DEF Vst3!Normalize
    <3>2. needsClear => plan = "stream"
      <4>1. SyncFields \subseteq DOMAIN sync /\ ~sync.holdOffline /\ ~sync.holding
        BY DEF Vst3Inv, Fielded
      <4>2. f.hostReset = needsClear
        BY DEF Vst3!FactsOf
      <4> HIDE DEF f
      <4> QED BY <4>1, <4>2, Vst3Clears
    <3>3. events_ \in Seq(Vst3Event) /\ \A i \in 1 .. Len(events_) : events_[i].kind \notin {"on", "off"}
      <4>1. events_ \in Seq(Vst3Event)
        <5>1. block.points \in Seq(Vst3!Point) /\ <<>> \in Seq(Vst3Note)
          BY DEF Vst3Inv
        <5>2. events_ \o <<>> \in Seq(Vst3Event)
          BY <5>1, Vst3Normalizes
        <5>3. events_ \o <<>> = events_
          <6>1. block.points \in Seq(Vst3!Point)
            BY <5>1
          <6>2. events_ = [i \in 1 .. Len(block.points) |-> events_[i]] /\ Len(block.points) \in Nat
            BY <6>1 DEF Vst3!Normalized
          <6> HIDE DEF events_
          <6>3. events_ \in Seq({events_[i] : i \in 1 .. Len(block.points)})
            BY <6>2
          <6> QED BY <6>3
        <5> QED BY <5>2, <5>3, Zenon
      <4>2. block.points \in Seq(Vst3!Point)
        BY DEF Vst3Inv
      <4>3. \A i \in 1 .. Len(events_) : events_[i].kind \in {"ramp", "set"}
        BY <4>2 DEF Vst3!Normalized
      <4> HIDE DEF events_
      <4> QED BY <4>1, <4>3
    <3> HIDE DEF f, plan, events_, heard, b
    <3>4. "voices" \in DOMAIN kernel' /\ kernel'.voices = IF plan = "none" THEN kernel.voices ELSE {}
      BY <3>1 DEF Vst3Sounds, Vst3!Restart
    <3>5. kernel'.voices \subseteq names'
      BY <3>1, <3>2, <3>4 DEF Vst3Sounds
    <3>6. /\ block.notes \in Seq(Vst3Event) /\ Len(block.notes) <= 1
          /\ \A i \in 1 .. Len(block.notes) : block.notes[i].kind = "on" => block.notes[i].value \in names'
      <4>1. block.notes \in Seq(Vst3Event) /\ Len(block.notes) <= 1
        BY <3>1 DEF Vst3Inv, Vst3Event, Vst3Sounds
      <4>2. \A i \in 1 .. Len(block.notes) : block.notes[i].kind = "on" => block.notes[i].value \in named
        BY <4>1 DEF Vst3!Range
      <4> HIDE DEF named
      <4> QED BY <3>1, <4>1, <4>2
    <3> HIDE DEF taken, named
    <3>7. NoteLast(taken, names')
      BY <3>3, <3>6, NotesFollow DEF taken
    <3>8. block'.events = taken
      BY <3>1 DEF Vst3Inv
    <3> QED BY <3>1, <3>4, <3>5, <3>7, <3>8 DEF Vst3Sounds
  <2>12. CASE Vst3!EventAt
    <3> DEFINE e == Head(block.events)
               k == Vst3!HearUntil(kernel, e.time)
    <3>1. e.kind \in {"set", "ramp", "on", "off"} /\ block.events \in Seq(Vst3Event) /\ block.events # <<>>
      <4>1. e \in Vst3Event
        BY <2>12 DEF Vst3Inv, Vst3!EventAt
      <4> QED BY <2>12, <4>1 DEF Vst3Event, Vst3Note, Vst3Inv, Vst3!EventAt
    <3>2. /\ pc = "events" /\ UNCHANGED <<pc, running, needsClear>> /\ block'.events = Tail(block.events)
          /\ kernel' = CASE e.kind \in {"set", "ramp"} -> Vst3!Set(k, e.value)
                         [] e.kind = "on" -> Vst3!NoteOn(k, e.value)
                         [] e.kind = "off" -> IF e.value \in names THEN Vst3!NoteOff(k, e.value) ELSE k
          /\ names' = IF e.kind = "off" THEN names \ {e.value} ELSE names
      <4>1. "events" \in DOMAIN block
        BY DEF Vst3Inv
      <4>2. UNCHANGED running
        BY <2>12 DEF Vst3!EventAt, Vst3!still
      <4> QED BY <2>12, <4>1, <4>2 DEF Vst3!EventAt
    <3>3. "voices" \in DOMAIN k /\ k.voices = kernel.voices
      BY DEF Vst3Sounds, Vst3!HearUntil, Vst3!Hear
    <3>4. NoteLast(block.events, names) /\ kernel.voices \subseteq names
      BY <3>2 DEF Vst3Sounds
    <3>5. /\ NoteLast(Tail(block.events), names)
          /\ e.kind = "off" => NoteLast(Tail(block.events), names')
          /\ e.kind = "on" => e.value \in names
      BY <3>1, <3>4, NotesFollow
    <3> HIDE DEF e, k
    <3>6. NoteLast(block'.events, names')
      BY <3>2, <3>5
    <3>7. "voices" \in DOMAIN kernel' /\ kernel'.voices \subseteq names'
      BY <3>1, <3>2, <3>3, <3>4, <3>5 DEF Vst3!Set, Vst3!NoteOn, Vst3!NoteOff
    <3> QED BY <3>2, <3>6, <3>7 DEF Vst3Sounds
  <2>13. CASE Vst3!Rest
    <3>1. /\ pc = "events" /\ pc' = "finish" /\ UNCHANGED <<names, needsClear, running>>
          /\ kernel' = IF block.skip /\ block.frames > 0 THEN Vst3!Miss(kernel) ELSE Vst3!HearUntil(kernel, block.frames)
      BY <2>13 DEF Vst3!Rest, Vst3!still
    <3>2. "voices" \in DOMAIN kernel' /\ kernel'.voices = kernel.voices
      BY <3>1 DEF Vst3Sounds, Vst3!Miss, Vst3!HearUntil, Vst3!Hear
    <3> QED BY <3>1, <3>2 DEF Vst3Sounds
  <2>14. CASE Vst3!Finish
    BY <2>14 DEF Vst3!Finish, Vst3!still, Vst3Sounds
  <2>15. CASE UNCHANGED Vst3!vst3Vars
    BY <2>15, <2>1 DEF Vst3!vst3Vars
  <2> QED BY <2>2, <2>3, <2>4, <2>5, <2>6, <2>7, <2>8, <2>9, <2>10, <2>11, <2>12, <2>13, <2>14, <2>15
          DEF Vst3!Next, Vst3!Working
<1> QED BY <1>1, <1>2, Vst3Invariance, PTL

\* A block finds the host's acceptance made at an activation, or makes it itself as the transport starts.
Vst3Latency ==
    /\ Handshake /\ Answers /\ Optional(block.proposed) /\ hostValue \in Values
    /\ active \/ kernel.made => bypass.max = Top
    /\ pc # "idle" => active /\ accepted = None

LEMMA Vst3Latencies == Vst3!Init /\ [][Vst3!Next]_(Vst3!vst3Vars) => []Vst3Latency
<1> USE DEF Vst3!Latency
<1>1. Vst3!Init => Vst3Latency
  BY LatenciesBounded DEF Vst3!Init, Vst3Latency, Handshake, Answers, Optional, Vst3!NewKernel, Vst3!NewBypass, Vst3!NoBlock
<1>2. Vst3Inv /\ Vst3Latency /\ [Vst3!Next]_(Vst3!vst3Vars) => Vst3Latency'
  <2> SUFFICES ASSUME Vst3Inv, Vst3Latency, [Vst3!Next]_(Vst3!vst3Vars) PROVE Vst3Latency'
    OBVIOUS
  <2>1. ASSUME UNCHANGED <<kernel, latency, pending, accepted, block, pc>>, active' => active \/ kernel.made,
               pc = "idle" \/ active' = active, hostValue' \in Values,
               bypass' = bypass \/ \E on : bypass' = Vst3!SetBypassed(bypass, on)
        PROVE Vst3Latency'
    BY <2>1 DEF Vst3Latency, Handshake, Answers, Optional, Vst3!SetBypassed
  <2>2. CASE Vst3!SetupProcessing
    <3>1. /\ accepted' = None /\ pending' = None /\ latency' = hostValue /\ kernel' = Vst3!Configure(hostValue)
          /\ bypass' = Vst3!BypassConfigured(bypass, Top, hostValue) /\ UNCHANGED <<pc, block, hostValue>> /\ pc = "idle"
      BY <2>2, Longest, Vst3Longest DEF Vst3!SetupProcessing, Vst3!Stopped, Vst3!values
    <3>2. {"value", "latency"} \subseteq DOMAIN kernel' /\ kernel'.latency = hostValue
      BY <3>1 DEF Vst3!Configure
    <3>3. hostValue <= Top
      BY Longest, Vst3Longest DEF Vst3Latency
    <3>4. {"latency", "max"} \subseteq DOMAIN bypass' /\ bypass'.latency = hostValue /\ bypass'.max = Top
      BY <3>1, <3>3 DEF Vst3Latency, Handshake, Vst3!BypassConfigured, Vst3!SetLatency, Vst3!Snap
    <3> QED BY <3>1, <3>2, <3>4 DEF Vst3Latency, Handshake, Answers, Optional
  <2>3. CASE Vst3!Activate
    <3>1. UNCHANGED <<kernel, bypass, block, hostValue, pc>> /\ kernel.made /\ pc = "idle"
      BY <2>3 DEF Vst3!Activate, Vst3!Stopped, Vst3!values
    <3>2. CASE pending = None
      BY <2>3, <3>1, <3>2 DEF Vst3!Activate, Vst3Latency, Handshake, Answers, Optional
    <3>3. CASE pending # None
      BY <2>3, <3>1, <3>3 DEF Vst3!Activate, Vst3Latency, Handshake, Answers, Optional
    <3> QED BY <3>2, <3>3
  <2>4. CASE Vst3!Deactivate \/ Vst3!SetProcessing(TRUE) \/ Vst3!SetProcessing(FALSE)
    BY <2>4, <2>1 DEF Vst3Latency, Vst3!Deactivate, Vst3!Stopped, Vst3!SetProcessing, Vst3!values, Vst3!handshake
  <2>5. CASE Vst3!TellLatency \/ Vst3!GetLatency \/ Vst3!Peeked \/ Vst3!SetMode
    BY <2>5, <2>1 DEF Vst3Latency, Vst3!TellLatency, Vst3!GetLatency, Vst3!Peeked, Vst3!SetMode, Vst3!values, Vst3!handshake
  <2>6. ASSUME NEW v \in Values, Vst3!SetState(v) \/ Vst3!Edit(v) PROVE Vst3Latency'
    BY <2>6, <2>1 DEF Vst3Latency, Vst3!SetState, Vst3!Edit, Vst3!audio, Vst3!values, Vst3!handshake
  <2>7. ASSUME NEW on \in BOOLEAN, Vst3!StatePushed(on) PROVE Vst3Latency'
    BY <2>7, <2>1 DEF Vst3Latency, Vst3!StatePushed, Vst3!audio, Vst3!handshake
  <2>8. CASE Vst3!SetComponentState \/ Vst3!OpenView \/ Vst3!CloseView \/ Vst3!Frame \/ Vst3!Begin \/ Vst3!End
    BY <2>8, <2>1 DEF Vst3Latency, Vst3!SetComponentState, Vst3!OpenView, Vst3!CloseView, Vst3!Frame, Vst3!Begin, Vst3!End,
                      Vst3!audio, Vst3!values, Vst3!handshake
  <2>9. ASSUME NEW frames \in {0, 2}, NEW playing \in BOOLEAN, NEW extra \in Vst3!Extras, NEW notes_ \in Vst3!Notes, NEW on,
               Vst3!Enter(frames, playing, extra, notes_, on)
        PROVE  Vst3Latency'
    <3> DEFINE falls == playing /\ ~wasMoving /\ didPeek
               take == IF falls /\ pending # None THEN pending ELSE accepted
               k == IF take # None THEN Vst3!Adopt(kernel, take) ELSE kernel
    <3>1. /\ accepted' = None /\ pending' = (IF falls THEN None ELSE pending) /\ block'.proposed = None
          /\ latency' = (IF falls /\ pending # None THEN pending ELSE latency)
          /\ kernel' = (IF loaded = None THEN k ELSE Vst3!Set(k, loaded))
          /\ bypass' = (IF take # None THEN Vst3!SetLatency(bypass, take) ELSE bypass)
          /\ UNCHANGED <<hostValue, active>> /\ active
      BY <2>9 DEF Vst3!Enter, Vst3!NoBlock
    <3>2. latency' = (IF take # None THEN take ELSE kernel.latency) /\ Optional(take)
      BY <3>1 DEF Vst3Latency, Handshake, Answers, Optional
    <3>3. {"value", "latency"} \subseteq DOMAIN k /\ k.latency = latency'
      BY <3>2 DEF Vst3Latency, Handshake, Vst3!Adopt
    <3>4. {"latency", "max"} \subseteq DOMAIN bypass' /\ bypass'.latency = latency' /\ bypass'.max = bypass.max
      BY <3>1, <3>2 DEF Vst3Latency, Handshake, Optional, Vst3!SetLatency
    <3>5. Optional(pending')
      BY <3>1 DEF Vst3Latency, Handshake, Optional
    <3> HIDE DEF k, take, falls
    <3>6. {"value", "latency"} \subseteq DOMAIN kernel' /\ kernel'.latency = latency'
      BY <3>1, <3>3 DEF Vst3!Set
    <3> QED BY <3>1, <3>4, <3>5, <3>6 DEF Vst3Latency, Handshake, Answers, Optional
  <2>10. CASE Vst3!Normalize
    <3> DEFINE made == Vst3!Normalized(block.points, block.frames > 0)
               plan == Vst3!SyncPlan(sync, Vst3!FactsOf(block.frames))
               heard == IF block.bypass = None THEN bypass ELSE Vst3!SetBypassed(bypass, block.bypass)
               b == IF plan = "stream" THEN Vst3!Snap(heard) ELSE heard
    <3>1. /\ hostValue' = (IF made = <<>> THEN hostValue ELSE Vst3!Last(made).value) /\ bypass' = b
          /\ kernel' = (IF plan = "none" THEN kernel ELSE Vst3!Restart(kernel, Vst3!RestartValue(made)))
          /\ UNCHANGED <<active, latency, pending, accepted>> /\ pc # "idle"
      BY <2>10 DEF Vst3!Normalize, Vst3!still, Vst3!handshake
    <3>2. hostValue' \in Values
      <4>1. CASE made = <<>>
        BY <3>1, <4>1 DEF Vst3Latency
      <4>2. CASE made # <<>>
        <5>1. made \in Seq(Vst3Event)
          <6>1. <<>> \in Seq(Vst3Note) /\ block.points \in Seq(Vst3!Point)
            BY DEF Vst3Inv
          <6>2. made \o <<>> \in Seq(Vst3Event)
            BY <6>1, Vst3Normalizes
          <6>3. made = [i \in 1 .. Len(block.points) |-> made[i]]
            BY <6>1 DEF Vst3!Normalized
          <6> HIDE DEF made
          <6> QED BY <6>1, <6>2, <6>3
        <5>2. DOMAIN made = 1 .. Len(block.points) /\ \A i \in DOMAIN made : made[i].value = block.points[i].value
          BY DEF Vst3Inv, Vst3!Normalized
        <5>3. \A i \in 1 .. Len(block.points) : block.points[i].value \in Values
          <6> SUFFICES ASSUME NEW i \in 1 .. Len(block.points) PROVE block.points[i].value \in Values
            OBVIOUS
          <6>1. block.points[i] \in Vst3!Point
            BY DEF Vst3Inv
          <6> QED BY <6>1 DEF Vst3!Point
        <5> HIDE DEF made
        <5>4. Len(made) \in DOMAIN made /\ Vst3!Last(made) = made[Len(made)]
          BY <4>2, <5>1 DEF Vst3!Last
        <5> QED BY <3>1, <4>2, <5>2, <5>3, <5>4
      <4> QED BY <4>1, <4>2
    <3>3. {"latency", "max"} \subseteq DOMAIN b /\ b.latency = bypass.latency /\ b.max = bypass.max
      BY DEF Vst3Latency, Handshake, Vst3!SetBypassed, Vst3!Snap
    <3>4. block'.proposed = block.proposed
      BY <2>10 DEF Vst3!Normalize, Vst3Inv
    <3> HIDE DEF made, plan, heard, b
    <3>5. {"value", "latency", "made"} \cap DOMAIN kernel \subseteq DOMAIN kernel' /\ kernel'.latency = kernel.latency
      BY <3>1 DEF Vst3Latency, Handshake, Vst3!Restart
    <3> QED BY <3>1, <3>2, <3>3, <3>4, <3>5 DEF Vst3Latency, Handshake, Answers, Optional
  <2> DEFINE Same(k) == {"value", "latency"} \subseteq DOMAIN k /\ k.latency = kernel.latency
  <2>11. CASE Vst3!EventAt
    <3> DEFINE e == Head(block.events)
               k == Vst3!HearUntil(kernel, e.time)
    <3>1. e \in Vst3Event
      BY <2>11 DEF Vst3Inv, Vst3!EventAt
    <3>2. Same(k)
      BY DEF Vst3Latency, Handshake, Vst3!HearUntil, Vst3!Hear
    <3> HIDE DEF k
    <3>3. Same(kernel')
      BY <2>11, <3>1, <3>2 DEF Vst3!EventAt, Vst3Event, Vst3Note, Vst3!Set, Vst3!NoteOn, Vst3!NoteOff, k
    <3>4. /\ UNCHANGED <<bypass, hostValue, active, latency, pending, accepted>> /\ block'.proposed = block.proposed
          /\ pc # "idle"
      BY <2>11 DEF Vst3Inv, Vst3!EventAt, Vst3!still, Vst3!values, Vst3!handshake
    <3> QED BY <3>3, <3>4 DEF Vst3Latency, Handshake, Answers, Optional
  <2>12. CASE Vst3!Rest
    <3>1. Same(kernel')
      BY <2>12 DEF Vst3Latency, Handshake, Vst3!Rest, Vst3!HearUntil, Vst3!Hear, Vst3!Miss
    <3>2. bypass.max = Top /\ Optional(block'.proposed)
      BY <2>12 DEF Vst3Inv, Vst3Latency, Vst3!Rest, Vst3!Admits, Optional
    <3>3. UNCHANGED <<bypass, hostValue, active, latency, pending, accepted>> /\ pc # "idle"
      BY <2>12 DEF Vst3!Rest, Vst3!still, Vst3!values, Vst3!handshake
    <3> QED BY <3>1, <3>2, <3>3 DEF Vst3Latency, Handshake, Answers, Optional
  <2>13. CASE Vst3!Finish
    <3>1. {"latency", "max"} \subseteq DOMAIN bypass' /\ bypass'.latency = bypass.latency /\ bypass'.max = bypass.max
      BY <2>13 DEF Vst3Latency, Handshake, Vst3!Finish, Vst3!BypassProcessed
    <3>2. bypass.max = Top /\ Optional(pending') /\ block'.proposed = None
      BY <2>13 DEF Vst3Latency, Handshake, Vst3!Finish, Optional, Vst3!NoBlock
    <3>3. UNCHANGED <<kernel, hostValue, active, latency, accepted>> /\ accepted = None /\ active
      BY <2>13 DEF Vst3Latency, Vst3!Finish, Vst3!still, Vst3!values
    <3> QED BY <3>1, <3>2, <3>3 DEF Vst3Latency, Handshake, Answers, Optional
  <2>14. CASE UNCHANGED Vst3!vst3Vars
    BY <2>14, <2>1 DEF Vst3Latency, Vst3!vst3Vars, Vst3!values, Vst3!handshake
  <2> QED BY <2>2, <2>3, <2>4, <2>5, <2>6, <2>7, <2>8, <2>9, <2>10, <2>11, <2>12, <2>13, <2>14 DEF Vst3!Next, Vst3!Working
<1> QED BY <1>1, <1>2, Vst3Invariance, PTL

\* What was stored last is on its way to VST3's processor, unless a load's batch was delivered after automation that
\* followed its stores; and what the controller was set to is the editor's, or waits for its next frame, unless a
\* gesture kept it out.
Vst3Values ==
    /\ main.at = "load" => main.value # None
    /\ \/ late \/ main.at = "load" \/ loaded # None
       \/ pc = "events" /\ Comes(block.events, kernel.value, hostValue)
       \/ pc # "events" /\ kernel.value = hostValue
    /\ gestured => uiQueue = None /\ ui # None
    /\ uiQueue # None => uiQueue = control
    /\ ui # None /\ uiQueue = None /\ ~swallowed => ui = control

LEMMA Vst3ValuesMeet == Vst3!Init /\ [][Vst3!Next]_(Vst3!vst3Vars) => []Vst3Values
<1>1. Vst3!Init => Vst3Values
  BY DEF Vst3!Init, Vst3Values, Vst3!NewKernel, Vst3!Idle
<1>2. Vst3Inv /\ Vst3Latency /\ Vst3Values /\ [Vst3!Next]_(Vst3!vst3Vars) => Vst3Values'
  <2> SUFFICES ASSUME Vst3Inv, Vst3Latency, Vst3Values, [Vst3!Next]_(Vst3!vst3Vars) PROVE Vst3Values'
    OBVIOUS
  <2> DEFINE Due == \/ late \/ main.at = "load" \/ loaded # None
                    \/ pc = "events" /\ Comes(block.events, kernel.value, hostValue)
                    \/ pc # "events" /\ kernel.value = hostValue
  <2>0. {"value", "latency"} \subseteq DOMAIN kernel /\ \A v \in Values : v # None
    BY NoneApart DEF Vst3Latency, Handshake
  <2>1. ASSUME UNCHANGED <<kernel, block, pc, late, hostValue, loaded, control, gestured, ui, uiQueue, swallowed>>,
               main' = main \/ (main.at # "load" /\ main'.at # "load")
        PROVE  Vst3Values'
    BY <2>1 DEF Vst3Values
  <2>2. CASE Vst3!SetupProcessing
    <3>1. /\ pc = "idle" /\ kernel' = Vst3!Configure(hostValue)
          /\ UNCHANGED <<pc, main, hostValue, late, loaded, Vst3!editor>>
      BY <2>2 DEF Vst3!SetupProcessing, Vst3!Stopped, Vst3!values
    <3> QED BY <3>1 DEF Vst3Values, Vst3!Configure, Vst3!editor
  <2>3. CASE Vst3!Activate \/ Vst3!Deactivate \/ Vst3!SetProcessing(TRUE) \/ Vst3!SetProcessing(FALSE)
    BY <2>3, <2>1 DEF Vst3!Activate, Vst3!Deactivate, Vst3!SetProcessing, Vst3!values, Vst3!editor
  <2>4. CASE Vst3!TellLatency \/ Vst3!SetMode
    BY <2>4, <2>1 DEF Vst3!TellLatency, Vst3!SetMode, Vst3!values, Vst3!editor
  <2>5. CASE Vst3!GetLatency \/ Vst3!Peeked
    BY <2>5, <2>1 DEF Vst3!GetLatency, Vst3!Peeked, Vst3!MainIsFree, Vst3!Idle, Vst3!values, Vst3!editor
  <2>6. ASSUME NEW v \in Values, Vst3!SetState(v) PROVE Vst3Values'
    BY <2>6, <2>0 DEF Vst3Values, Vst3!SetState, Vst3!editor
  <2>7. ASSUME NEW v \in Values, Vst3!Edit(v) PROVE Vst3Values'
    BY <2>7, <2>0 DEF Vst3Values, Vst3!Edit, Vst3!audio, Vst3!values
  <2>8. ASSUME NEW on \in BOOLEAN, Vst3!StatePushed(on) PROVE Vst3Values'
    BY <2>8 DEF Vst3Values, Vst3!StatePushed, Vst3!editor, Vst3!Idle
  <2>9. CASE Vst3!SetComponentState \/ Vst3!OpenView \/ Vst3!CloseView \/ Vst3!Frame \/ Vst3!Begin \/ Vst3!End
    <3>1. UNCHANGED <<kernel, pc, block, main, Vst3!values>>
      BY <2>9 DEF Vst3!SetComponentState, Vst3!OpenView, Vst3!CloseView, Vst3!Frame, Vst3!Begin, Vst3!End, Vst3!audio
    <3>2. /\ gestured' => uiQueue' = None /\ ui' # None
          /\ uiQueue' # None => uiQueue' = control'
          /\ ui' # None /\ uiQueue' = None /\ ~swallowed' => ui' = control'
      <4>1. CASE Vst3!SetComponentState
        BY <4>1 DEF Vst3Values, Vst3!SetComponentState, Vst3!Controlled
      <4>2. CASE Vst3!OpenView \/ Vst3!CloseView
        BY <4>2 DEF Vst3Values, Vst3!OpenView, Vst3!CloseView
      <4>3. CASE Vst3!Frame
        BY <4>3 DEF Vst3Values, Vst3!Frame
      <4>4. CASE Vst3!Begin \/ Vst3!End
        BY <4>4 DEF Vst3Values, Vst3!Begin, Vst3!End
      <4> QED BY <2>9, <4>1, <4>2, <4>3, <4>4
    <3> QED BY <3>1, <3>2 DEF Vst3Values, Vst3!values
  <2>10. ASSUME NEW frames \in {0, 2}, NEW playing \in BOOLEAN, NEW extra \in Vst3!Extras, NEW notes_ \in Vst3!Notes, NEW on,
                Vst3!Enter(frames, playing, extra, notes_, on)
         PROVE  Vst3Values'
    <3> DEFINE falls == playing /\ ~wasMoving /\ didPeek
               take == IF falls /\ pending # None THEN pending ELSE accepted
               k == IF take # None THEN Vst3!Adopt(kernel, take) ELSE kernel
    <3>1. /\ pc = "idle" /\ pc' = "normalize" /\ UNCHANGED <<main, hostValue, Vst3!editor>>
          /\ kernel' = (IF loaded = None THEN k ELSE Vst3!Set(k, loaded))
          /\ late' = (IF loaded = None THEN late ELSE loaded # hostValue)
      BY <2>10 DEF Vst3!Enter
    <3>2. "value" \in DOMAIN k /\ k.value = kernel.value
      BY <2>0 DEF Vst3!Adopt
    <3> HIDE DEF k
    <3>3. Due'
      BY <3>1, <3>2 DEF Vst3Values, Vst3!Set
    <3> HIDE DEF Due
    <3>4. UNCHANGED <<control, gestured, ui, uiQueue, swallowed>>
      BY <3>1 DEF Vst3!editor
    <3> QED BY <3>1, <3>3, <3>4 DEF Vst3Values, Due
  <2>11. CASE Vst3!Normalize
    <3> DEFINE made == Vst3!Normalized(block.points, block.frames > 0)
               plan == Vst3!SyncPlan(sync, Vst3!FactsOf(block.frames))
    <3>1. /\ hostValue' = (IF made = <<>> THEN hostValue ELSE Vst3!Last(made).value)
          /\ kernel' = (IF plan = "none" THEN kernel ELSE Vst3!Restart(kernel, Vst3!RestartValue(made)))
          /\ late' = (late /\ plan = "none" /\ made = <<>>)
          /\ UNCHANGED <<loaded, main, Vst3!editor>> /\ pc = "normalize" /\ pc' = "events"
          /\ block'.events = made \o block.notes
      BY <2>11 DEF Vst3!Normalize, Vst3!still, Vst3Inv
    <3>2. Listed(made) /\ Listed(block.notes) /\ Writes(made) = DOMAIN made /\ Writes(block.notes) = {}
      <4>1. Listed(block.notes) /\ Writes(block.notes) = {}
        <5>1. block.notes \in Seq(Vst3Note)
          BY DEF Vst3Inv
        <5>2. \A i \in DOMAIN block.notes : block.notes[i] \in Vst3Note
          BY <5>1
        <5>3. Writes(block.notes) = {}
          BY <5>2 DEF Writes, Vst3Note
        <5> QED BY <5>1, <5>3, SequencesList
      <4>2. Listed(made)
        <5>1. block.points \in Seq(Vst3!Point) /\ <<>> \in Seq(Vst3Note)
          BY DEF Vst3Inv
        <5>2. made \o <<>> \in Seq(Vst3Event)
          BY <5>1, Vst3Normalizes
        <5>3. made = [i \in 1 .. Len(block.points) |-> made[i]] /\ Len(block.points) \in Nat
          BY <5>1 DEF Vst3!Normalized
        <5> HIDE DEF made
        <5>4. made \in Seq(Vst3Event)
          BY <5>2, <5>3
        <5> QED BY <5>4, SequencesList
      <4>3. Writes(made) = DOMAIN made
        BY DEF Writes, Vst3!Normalized
      <4> QED BY <4>1, <4>2, <4>3
    <3>3. made # <<>> => Vst3!Last(made) = made[Len(made)]
      BY DEF Vst3!Last
    <3>4. made = <<>> => Vst3!RestartValue(made) = hostValue
      BY DEF Vst3!RestartValue, Vst3!AtTop
    <3> HIDE DEF made, plan
    <3>5. CASE made # <<>>
      <4>1. Comes(block'.events, kernel'.value, hostValue')
        BY <3>1, <3>2, <3>3, <3>5, ComesLast
      <4> QED BY <3>1, <4>1 DEF Vst3Values, Vst3!editor
    <3>6. CASE made = <<>> /\ (plan # "none" \/ kernel.value = hostValue)
      <4>1. kernel'.value = hostValue' /\ hostValue' = hostValue
        BY <2>0, <3>1, <3>4, <3>6 DEF Vst3!Restart
      <4>2. Comes(block'.events, kernel'.value, hostValue')
        BY <3>1, <3>2, <3>6, <4>1, ComesLast
      <4> QED BY <3>1, <4>2 DEF Vst3Values, Vst3!editor
    <3>7. CASE made = <<>> /\ plan = "none" /\ kernel.value # hostValue
      <4>1. late \/ main.at = "load" \/ loaded # None
        BY <3>1, <3>7 DEF Vst3Values
      <4> QED BY <3>1, <3>7, <4>1 DEF Vst3Values, Vst3!editor
    <3> QED BY <3>5, <3>6, <3>7
  <2>12. CASE Vst3!EventAt
    <3> DEFINE e == Head(block.events)
               k == Vst3!HearUntil(kernel, e.time)
               was == IF e.kind \in {"set", "ramp"} THEN e.value ELSE kernel.value
    <3>1. e \in Vst3Event /\ Listed(block.events)
      BY <2>12, SequencesList DEF Vst3Inv, Vst3!EventAt
    <3>2. k.value = kernel.value /\ "value" \in DOMAIN k
      BY <2>0 DEF Vst3!HearUntil, Vst3!Hear
    <3> HIDE DEF k
    <3>3. kernel'.value = was
      BY <2>12, <3>1, <3>2 DEF Vst3!EventAt, Vst3Event, Vst3Note, Vst3!Set, Vst3!NoteOn, Vst3!NoteOff, k
    <3>4. /\ block.events # <<>> /\ block'.events = Tail(block.events) /\ pc = "events" /\ pc' = "events"
          /\ UNCHANGED <<main, hostValue, late, loaded, Vst3!editor>>
      BY <2>12 DEF Vst3!EventAt, Vst3!still, Vst3!values, Vst3Inv
    <3> HIDE DEF Due
    <3>5. ASSUME Comes(block.events, kernel.value, hostValue) PROVE Comes(block'.events, kernel'.value, hostValue')
      BY <3>1, <3>3, <3>4, <3>5, ComesOn
    <3> HIDE DEF e, was
    <3> QED BY <3>4, <3>5 DEF Vst3Values, Vst3!editor
  <2>13. CASE Vst3!Rest
    <3>1. /\ pc = "events" /\ pc' = "finish" /\ block.events = <<>> /\ UNCHANGED <<main, hostValue, late, loaded, Vst3!editor>>
          /\ kernel' = IF block.skip /\ block.frames > 0 THEN Vst3!Miss(kernel) ELSE Vst3!HearUntil(kernel, block.frames)
      BY <2>13 DEF Vst3!Rest, Vst3!still, Vst3!values
    <3>2. kernel'.value = kernel.value
      BY <2>0, <3>1 DEF Vst3!Miss, Vst3!HearUntil, Vst3!Hear
    <3>3. Comes(block.events, kernel.value, hostValue) => kernel.value = hostValue
      BY <3>1, Lists, ComesOn
    <3> QED BY <3>1, <3>2, <3>3 DEF Vst3Values, Vst3!editor
  <2>14. CASE Vst3!Finish
    <3>1. pc = "finish" /\ pc' = "idle" /\ UNCHANGED <<kernel, main, Vst3!values, Vst3!editor>>
      BY <2>14 DEF Vst3!Finish, Vst3!still
    <3> QED BY <3>1 DEF Vst3Values, Vst3!values, Vst3!editor
  <2>15. CASE UNCHANGED Vst3!vst3Vars
    BY <2>15, <2>1 DEF Vst3!vst3Vars, Vst3!values, Vst3!editor
  <2> QED BY <2>2, <2>3, <2>4, <2>5, <2>6, <2>7, <2>8, <2>9, <2>10, <2>11, <2>12, <2>13, <2>14, <2>15
          DEF Vst3!Next, Vst3!Working
<1> QED BY <1>1, <1>2, Vst3Invariance, Vst3Latencies, PTL

-----------------------------------------------------------------------------
(* Proofs about AUv2.                                                        *)

Auv2 == INSTANCE Auv2 WITH Budgets <- Auv2Plans

\* It goes by the one Stream_sync.
LEMMA Auv2Stream ==
    ASSUME NEW s, NEW f
    PROVE  Auv2!SyncNext(s, f) = Stream!SyncNext(s, f) /\ Auv2!SyncPlan(s, f) = Stream!SyncPlan(s, f)
BY Zenon DEF Stream!SyncNext, Stream!SyncPlan, Stream!SyncAfter, Stream!SyncSees, Stream!PlanOf, Stream!HoldsOn,
             Stream!Discontinuous, Stream!ModeOf, Auv2!SyncNext, Auv2!SyncPlan, Auv2!SyncAfter, Auv2!SyncSees,
             Auv2!PlanOf, Auv2!HoldsOn, Auv2!Discontinuous, Auv2!ModeOf

\* Its longest latency is the longest one.
LEMMA Auv2Longest == Auv2!MaxLatency = Top
BY Zenon DEF Top, Stream!MaxLatency, Auv2!MaxLatency

\* What waits for a render of AUv2 is values, and what a block has is events of three kinds.
Auv2Values == Values \cup {0}
Auv2Note == [kind : {"on", "off"}, value : Keys]
Auv2Event == [kind : {"set"}, value : Auv2Values] \cup Auv2Note
Auv2Stored ==
    /\ queue \in Seq(Auv2Values) /\ globals \in Auv2Values /\ (changes = None \/ changes \in Auv2Values)
    /\ pendingLoad = None \/ pendingLoad \in Auv2Values
    /\ pendingPreset = None \/ pendingPreset \in Auv2Values
    /\ main = Auv2!Idle \/ main.value \in Auv2Values

\* The same of AUv2, whose offline renders may be held at their head: the hold is a restart still to come.
Auv2Inv ==
    /\ Fielded(sync, kernel, bypass) /\ (sync.holding => sync.pending)
    /\ {"events", "notes", "skip", "skipping", "proposed"} \subseteq DOMAIN block
    /\ Auv2Stored /\ block.events \in Seq(Auv2Event) /\ block.notes \in Seq(Auv2Note)
    /\ pc # "idle" => ready
    /\ kernel.past = "stale" => sync.wasSkipped \/ sync.pending
    /\ pc \in {"collect", "sync"} => (block.skipping <=> Auv2!CanSkip(bypass))
    /\ pc \in {"events", "finish"} => /\ ~sync.pending /\ (block.skip <=> Auv2!CanSkip(bypass))
                                      /\ kernel.past = "stale" => block.skip
                                      /\ block.skip => sync.wasSkipped \/ kernel.past = "none"

\* What is collected are sets, and a block's notes are notes.
LEMMA Auv2Collects ==
    /\ \A vs \in Seq(Auv2Values) : Auv2!Sets(vs) \in Seq(Auv2Event)
    /\ Auv2Stored => Auv2!Collected \in Seq(Auv2Values)
    /\ Auv2!Notes \subseteq Seq(Auv2Note)
    /\ \A s \in Seq(Auv2Event), t \in Seq(Auv2Note) : s \o t \in Seq(Auv2Event)
<1>1. ASSUME NEW vs \in Seq(Auv2Values) PROVE Auv2!Sets(vs) \in Seq(Auv2Event)
  <2>1. Auv2!Sets(vs) = [i \in 1 .. Len(vs) |-> [kind |-> "set", value |-> vs[i]]]
    BY DEF Auv2!Sets
  <2>2. ASSUME NEW i \in 1 .. Len(vs) PROVE [kind |-> "set", value |-> vs[i]] \in Auv2Event
    BY DEF Auv2Event
  <2> QED BY <2>1, <2>2
<1>2. ASSUME Auv2Stored PROVE Auv2!Collected \in Seq(Auv2Values)
  <2>1. Auv2!One(changes) \in Seq(Auv2Values)
    <3>1. CASE changes = None
      BY <3>1 DEF Auv2!One
    <3>2. CASE changes # None
      BY <1>2, <3>2 DEF Auv2!One, Auv2Stored
    <3> QED BY <3>1, <3>2
  <2>2. queue \in Seq(Auv2Values) /\ <<globals>> \in Seq(Auv2Values)
    BY <1>2 DEF Auv2Stored
  <2> QED BY <2>1, <2>2 DEF Auv2!Collected
<1>3. ASSUME NEW n \in Auv2!Notes PROVE n \in Seq(Auv2Note)
  <2>1. n = <<>> \/ \E k \in {"on", "off"}, key \in Keys : n = <<[kind |-> k, value |-> key]>>
    BY <1>3 DEF Auv2!Notes
  <2>2. ASSUME NEW k \in {"on", "off"}, NEW key \in Keys PROVE <<[kind |-> k, value |-> key]>> \in Seq(Auv2Note)
    BY DEF Auv2Note
  <2>3. <<>> \in Seq(Auv2Note)
    OBVIOUS
  <2> QED BY <2>1, <2>2, <2>3, Zenon
<1>4. ASSUME NEW s \in Seq(Auv2Event), NEW t \in Seq(Auv2Note) PROVE s \o t \in Seq(Auv2Event)
  <2>1. t \in Seq(Auv2Event)
    BY DEF Auv2Event
  <2> QED BY <2>1
<1> QED BY <1>1, <1>2, <1>3, <1>4

LEMMA Auv2Invariance == Auv2!Init /\ [][Auv2!Next]_(Auv2!auv2Vars) => []Auv2Inv
<1>1. Auv2!Init => Auv2Inv
  <2> SUFFICES ASSUME Auv2!Init PROVE Auv2Inv
    OBVIOUS
  <2>1. Fielded(sync, kernel, bypass) /\ ~sync.holding /\ kernel.past = "none"
    BY DEF Auv2!Init, Fielded, SyncFields, Auv2!NewSync, Auv2!NewKernel, Auv2!NewBypass
  <2>2. /\ {"events", "notes", "skip", "skipping", "proposed"} \subseteq DOMAIN block
        /\ block.events = <<>> /\ block.notes = <<>>
    BY DEF Auv2!Init, Auv2!NoBlock
  <2>3. Auv2Stored
    BY DEF Auv2!Init, Auv2Stored, Auv2Values
  <2>4. pc = "idle"
    BY DEF Auv2!Init
  <2> QED BY <2>1, <2>2, <2>3, <2>4 DEF Auv2Inv
<1>2. Auv2Inv /\ [Auv2!Next]_(Auv2!auv2Vars) => Auv2Inv'
  <2> SUFFICES ASSUME Auv2Inv, [Auv2!Next]_(Auv2!auv2Vars) PROVE Auv2Inv'
    OBVIOUS
  <2>1. ASSUME UNCHANGED <<kernel, sync, block, pc>>, pc # "idle" => ready', Auv2Stored',
               bypass' = bypass \/ \E on : bypass' = Auv2!SetBypassed(bypass, on)
        PROVE Auv2Inv'
    BY <2>1 DEF Auv2Inv, Fielded, Auv2!SetBypassed, Auv2!CanSkip
  <2>2. ASSUME UNCHANGED Auv2!values, UNCHANGED Auv2!loads, UNCHANGED main PROVE Auv2Stored'
    BY <2>2 DEF Auv2Inv, Auv2Stored, Auv2!values, Auv2!loads
  <2>3. CASE Auv2!Initialize
    <3>1. pc = "idle" /\ UNCHANGED <<pc, block>>
      BY <2>3 DEF Auv2Inv, Auv2!Initialize
    <3>2. Auv2Stored'
      BY <2>2, <2>3 DEF Auv2!Initialize
    <3>3. kernel'.past = "none" /\ Fielded(sync, kernel, bypass)' /\ (sync'.holding => sync'.pending)
      BY <2>3 DEF Auv2!Initialize, Auv2Inv, Fielded, SyncFields, Auv2!Configure, Auv2!SyncConfigured,
                  Auv2!BypassConfigured, Auv2!SetLatency, Auv2!Snap
    <3> QED BY <3>1, <3>2, <3>3 DEF Auv2Inv
  <2>4. CASE Auv2!Cleanup \/ Auv2!GetLatency \/ Auv2!TellLatency \/ Auv2!Reset \/ Auv2!SetOffline
    <3>1. UNCHANGED <<kernel, sync, block, pc, bypass>> /\ (pc # "idle" => ready')
      BY <2>4 DEF Auv2Inv, Auv2!Cleanup, Auv2!GetLatency, Auv2!TellLatency, Auv2!Reset, Auv2!SetOffline, Auv2!render
    <3>2. UNCHANGED Auv2!values /\ UNCHANGED Auv2!loads /\ UNCHANGED main
      BY <2>4 DEF Auv2!Cleanup, Auv2!GetLatency, Auv2!TellLatency, Auv2!Reset, Auv2!SetOffline
    <3> QED BY <2>1, <2>2, <3>1, <3>2
  <2>5. ASSUME NEW on \in BOOLEAN, Auv2!SetBypass(on) PROVE Auv2Inv'
    <3>1. /\ UNCHANGED <<kernel, sync, block, pc>> /\ bypass' = Auv2!SetBypassed(bypass, on)
          /\ (pc # "idle" => ready')
      BY <2>5 DEF Auv2Inv, Auv2!SetBypass, Auv2!render
    <3>2. UNCHANGED Auv2!values /\ UNCHANGED Auv2!loads /\ UNCHANGED main
      BY <2>5 DEF Auv2!SetBypass
    <3> QED BY <2>1, <2>2, <3>1, <3>2
  <2>6. ASSUME UNCHANGED Auv2!rest, Auv2Stored' PROVE Auv2Inv'
    BY <2>1, <2>6 DEF Auv2Inv, Auv2!rest, Auv2!render
  <2>7. ASSUME NEW v \in Values, Auv2!SetParameter(v) PROVE Auv2Inv'
    <3>1. Auv2Stored'
      <4>1. queue' \in Seq(Auv2Values)
        <5>1. queue \in Seq(Auv2Values) /\ v \in Auv2Values
          BY DEF Auv2Inv, Auv2Stored, Auv2Values
        <5>2. queue' = queue \/ queue' = Append(queue, v)
          BY <2>7 DEF Auv2!SetParameter
        <5> QED BY <5>1, <5>2
      <4> QED BY <2>7, <4>1 DEF Auv2!SetParameter, Auv2Inv, Auv2Stored, Auv2Values, Auv2!loads
    <3>2. UNCHANGED Auv2!rest
      BY <2>7 DEF Auv2!SetParameter
    <3> QED BY <2>6, <3>1, <3>2
  <2>8. ASSUME NEW v \in Values, Auv2!Edit(v) \/ Auv2!LoadOnMain(v) PROVE Auv2Inv'
    <3>1. Auv2Stored' /\ UNCHANGED Auv2!rest
      BY <2>8 DEF Auv2!Edit, Auv2!LoadOnMain, Auv2!Apply, Auv2Inv, Auv2Stored, Auv2Values, Auv2!loads
    <3> QED BY <2>6, <3>1
  <2>9. ASSUME NEW v \in Values, Auv2!RestoreState(v) \/ Auv2!NewFactoryPresetSet(v) PROVE Auv2Inv'
    <3>1. Auv2Stored' /\ UNCHANGED Auv2!rest
      BY <2>9 DEF Auv2!RestoreState, Auv2!NewFactoryPresetSet, Auv2Inv, Auv2Stored, Auv2Values, Auv2!values
    <3> QED BY <2>6, <3>1
  <2>10. CASE Auv2!ParameterStored \/ Auv2!Changed \/ Auv2!ApplyPending
    <3>1. Auv2Stored'
      BY <2>10 DEF Auv2!ParameterStored, Auv2!Changed, Auv2!ApplyPending, Auv2!Apply, Auv2Inv, Auv2Stored, Auv2!loads,
                   Auv2!Idle
    <3>2. UNCHANGED Auv2!rest
      BY <2>10 DEF Auv2!ParameterStored, Auv2!Changed, Auv2!ApplyPending
    <3> QED BY <2>6, <3>1, <3>2
  <2>11. ASSUME NEW reached \in BOOLEAN, NEW input \in BOOLEAN, NEW notes_ \in Auv2!Notes,
                Auv2!Enter(reached, input, notes_)
         PROVE  Auv2Inv'
    <3>1. pc' = "collect" /\ UNCHANGED <<ready, sync>> /\ ready
      BY <2>11 DEF Auv2!Enter
    <3>2. Auv2Stored'
      BY <2>11 DEF Auv2!Enter, Auv2Inv, Auv2Stored, Auv2!loads
    <3>3. /\ "past" \in DOMAIN kernel' /\ kernel'.past = kernel.past
          /\ {"now", "fade"} \subseteq DOMAIN bypass' /\ bypass'.now = bypass.now /\ bypass'.fade = bypass.fade
      BY <2>11 DEF Auv2!Enter, Auv2Inv, Fielded, Auv2!Adopt, Auv2!SetLatency
    <3>4. /\ {"events", "notes", "skip", "skipping", "proposed"} \subseteq DOMAIN block'
          /\ block'.events = <<>> /\ block'.notes = notes_ /\ block'.skipping = Auv2!CanSkip(bypass)
      BY <2>11 DEF Auv2!Enter, Auv2!NoBlock
    <3>5. block'.events \in Seq(Auv2Event) /\ block'.notes \in Seq(Auv2Note)
      BY <3>4, Auv2Collects
    <3> QED BY <3>1, <3>2, <3>3, <3>4, <3>5 DEF Auv2Inv, Fielded, Auv2!CanSkip
  <2>12. CASE Auv2!Collect
    <3>1. Auv2Stored'
      BY <2>12 DEF Auv2!Collect, Auv2Inv, Auv2Stored, Auv2!still, Auv2!loads
    <3>2. Auv2!Sets(Auv2!Collected) \in Seq(Auv2Event)
      BY Auv2Collects DEF Auv2Inv
    <3>3. /\ pc = "collect" /\ pc' = "sync" /\ UNCHANGED <<ready, kernel, sync, bypass>>
          /\ block' = [block EXCEPT !.events = Auv2!Sets(Auv2!Collected)]
      BY <2>12 DEF Auv2!Collect, Auv2!still
    <3> QED BY <3>1, <3>2, <3>3 DEF Auv2Inv
  <2>13. CASE Auv2!Restarted
    <3> DEFINE f == Auv2!FactsOf
               to == Auv2!SyncNext(sync, f)
               plan == Auv2!SyncPlan(sync, f)
               b == IF plan = "stream" THEN Auv2!Snap(bypass) ELSE bypass
               taken == block.events \o block.notes
    <3>1. /\ SyncFields \subseteq DOMAIN to /\ (to.holding => to.pending)
          /\ plan \in {"none", "resume", "stream", "hold"}
          /\ plan = "none" => ~sync.pending /\ (sync.wasSkipped => Auv2!CanSkip(bypass))
          /\ plan = "hold" => to.pending
          /\ plan # "hold" => ~to.pending /\ (to.wasSkipped <=> plan # "stream" /\ Auv2!CanSkip(bypass))
      <4>1. SyncFields \subseteq DOMAIN sync /\ (sync.holding => sync.pending)
        BY DEF Auv2Inv, Fielded
      <4>2. to = Stream!SyncNext(sync, f) /\ plan = Stream!SyncPlan(sync, f)
        BY Auv2Stream, Zenon
      <4>3. f.skipping <=> Auv2!CanSkip(bypass)
        BY <2>13 DEF Auv2!FactsOf, Auv2!Restarted, Auv2Inv
      <4> HIDE DEF f, to, plan
      <4> QED BY <4>1, <4>2, <4>3, StreamGoesOn
    <3>2. /\ pc = "sync" /\ ready /\ UNCHANGED ready /\ sync' = to /\ bypass' = b
          /\ pc' = IF plan = "hold" THEN "idle" ELSE "events"
          /\ kernel' = IF plan = "hold" THEN Auv2!Miss(kernel)
                       ELSE IF plan = "none" THEN kernel ELSE Auv2!Restart(kernel, Auv2!RestartValue)
          /\ block' = IF plan = "hold" THEN Auv2!NoBlock ELSE [block EXCEPT !.events = taken, !.skip = Auv2!CanSkip(b)]
      <4>1. pc = "sync" /\ ready /\ UNCHANGED ready
        BY <2>13 DEF Auv2!Restarted, Auv2Inv, Auv2!still
      <4> QED BY <2>13, <4>1, Zenon DEF Auv2!Restarted
    <3>3. Auv2Stored'
      BY <2>13, <2>2 DEF Auv2!Restarted, Auv2!still, Auv2Inv, Auv2Stored, Auv2!loads
    <3>4. taken \in Seq(Auv2Event) /\ block.notes \in Seq(Auv2Note)
      BY Auv2Collects DEF Auv2Inv
    <3>5. b = IF plan = "stream" THEN Auv2!Snap(bypass) ELSE bypass
      OBVIOUS
    <3> HIDE DEF f, to, plan, b, taken
    <3>6. CASE plan = "hold"
      <4>1. Fielded(sync, kernel, bypass)'
        BY <3>1, <3>2, <3>5, <3>6 DEF Auv2Inv, Fielded, Auv2!Miss
      <4>2. /\ {"events", "notes", "skip", "skipping", "proposed"} \subseteq DOMAIN block'
            /\ block'.events = <<>> /\ block'.notes = <<>>
        BY <3>2, <3>6 DEF Auv2!NoBlock
      <4>3. block'.events \in Seq(Auv2Event) /\ block'.notes \in Seq(Auv2Note)
        BY <4>2
      <4>4. pc' = "idle" /\ sync' = to /\ to.pending
        BY <3>1, <3>2, <3>6
      <4> QED BY <3>3, <4>1, <4>2, <4>3, <4>4 DEF Auv2Inv
    <3>7. CASE plan = "none"
      BY <3>1, <3>2, <3>3, <3>4, <3>5, <3>7 DEF Auv2Inv, Fielded
    <3>8. CASE plan = "resume"
      BY <3>1, <3>2, <3>3, <3>4, <3>5, <3>8 DEF Auv2Inv, Fielded, Auv2!Restart
    <3>9. CASE plan = "stream"
      BY <3>1, <3>2, <3>3, <3>4, <3>5, <3>9 DEF Auv2Inv, Fielded, Auv2!Restart, Auv2!Snap
    <3> QED BY <3>1, <3>6, <3>7, <3>8, <3>9
  <2>14. CASE Auv2!EventAt
    <3> DEFINE e == Head(block.events)
    <3>1. e \in Auv2Event /\ Tail(block.events) \in Seq(Auv2Event)
      BY <2>14 DEF Auv2Inv, Auv2!EventAt
    <3>2. "past" \in DOMAIN kernel' /\ kernel'.past = kernel.past
      BY <2>14, <3>1 DEF Auv2Inv, Fielded, Auv2!EventAt, Auv2Event, Auv2Note, Auv2!Set, Auv2!NoteOn, Auv2!NoteOff
    <3>3. /\ pc = "events" /\ UNCHANGED <<pc, sync, bypass, ready>> /\ block' = [block EXCEPT !.events = Tail(@)]
      BY <2>14 DEF Auv2!EventAt, Auv2!still
    <3>4. Auv2Stored'
      BY <2>14, <2>2 DEF Auv2!EventAt, Auv2!still
    <3> HIDE DEF e
    <3> QED BY <3>1, <3>2, <3>3, <3>4 DEF Auv2Inv, Fielded
  <2>15. CASE Auv2!Rest
    <3>1. /\ "past" \in DOMAIN kernel'
          /\ kernel'.past = IF block.skip THEN IF kernel.past = "live" THEN "stale" ELSE kernel.past
                            ELSE IF kernel.past = "none" THEN "live" ELSE kernel.past
      BY <2>15 DEF Auv2Inv, Fielded, Auv2!Rest, Auv2!Miss, Auv2!Hear
    <3>2. Auv2Stored'
      BY <2>15, <2>2 DEF Auv2!Rest, Auv2!still
    <3> QED BY <2>15, <3>1, <3>2 DEF Auv2Inv, Fielded, Auv2!Rest, Auv2!still
  <2>16. CASE Auv2!Finish
    <3>1. {"now", "fade"} \subseteq DOMAIN bypass'
      BY <2>16 DEF Auv2Inv, Fielded, Auv2!Finish, Auv2!BypassProcessed
    <3>2. /\ {"events", "notes", "skip", "skipping", "proposed"} \subseteq DOMAIN block'
          /\ block'.events = <<>> /\ block'.notes = <<>> /\ pc = "finish" /\ pc' = "idle" /\ UNCHANGED <<sync, kernel>>
      BY <2>16 DEF Auv2!Finish, Auv2!NoBlock
    <3>3. Auv2Stored'
      BY <2>16, <2>2 DEF Auv2!Finish, Auv2!still
    <3> QED BY <3>1, <3>2, <3>3 DEF Auv2Inv, Fielded
  <2>17. CASE UNCHANGED Auv2!auv2Vars
    <3>1. UNCHANGED <<kernel, sync, block, pc, bypass, ready>>
      BY <2>17 DEF Auv2!auv2Vars
    <3>2. UNCHANGED Auv2!values /\ UNCHANGED Auv2!loads /\ UNCHANGED main
      BY <2>17 DEF Auv2!auv2Vars
    <3> QED BY <2>1, <2>2, <3>1, <3>2 DEF Auv2Inv
  <2> QED BY <2>3, <2>4, <2>5, <2>7, <2>8, <2>9, <2>10, <2>11, <2>12, <2>13, <2>14, <2>15, <2>16, <2>17
          DEF Auv2!Next, Auv2!Working
<1> QED BY <1>1, <1>2, PTL

\* What AUv2's processor sounds has a name, from the restart that named it on: a block's note is its last event.
Auv2Sounds ==
    /\ "voices" \in DOMAIN kernel /\ kernel.voices \subseteq names
    /\ pc # "idle" => Len(block.notes) <= 1
    /\ pc = "sync" => \A i \in 1 .. Len(block.events) : block.events[i].kind = "set"
    /\ pc = "events" => NoteLast(block.events, names)

\* Every step keeps it so.
LEMMA Auv2SoundsOn == Auv2!Init /\ [][Auv2!Next]_(Auv2!auv2Vars) => []Auv2Sounds
<1>1. Auv2!Init => Auv2Sounds
  BY DEF Auv2!Init, Auv2Sounds, Auv2!NewKernel
<1>2. Auv2Inv /\ Auv2Sounds /\ [Auv2!Next]_(Auv2!auv2Vars) => Auv2Sounds'
  <2> SUFFICES ASSUME Auv2Inv, Auv2Sounds, [Auv2!Next]_(Auv2!auv2Vars) PROVE Auv2Sounds'
    OBVIOUS
  <2>1. ASSUME UNCHANGED <<kernel, names, block, pc>> PROVE Auv2Sounds'
    BY <2>1 DEF Auv2Sounds
  <2>2. CASE Auv2!Initialize
    <3>1. kernel'.voices = {} /\ "voices" \in DOMAIN kernel' /\ UNCHANGED <<names, block, pc>>
      BY <2>2 DEF Auv2!Initialize, Auv2!Configure
    <3> QED BY <3>1 DEF Auv2Sounds
  <2>3. CASE Auv2!Cleanup \/ Auv2!GetLatency \/ Auv2!TellLatency \/ Auv2!Reset \/ Auv2!SetOffline
    BY <2>3, <2>1 DEF Auv2!Cleanup, Auv2!GetLatency, Auv2!TellLatency, Auv2!Reset, Auv2!SetOffline, Auv2!render
  <2>4. ASSUME NEW on \in BOOLEAN, Auv2!SetBypass(on) PROVE Auv2Sounds'
    BY <2>4, <2>1 DEF Auv2!SetBypass, Auv2!render
  <2>5. ASSUME UNCHANGED Auv2!rest PROVE Auv2Sounds'
    BY <2>1, <2>5 DEF Auv2!rest, Auv2!render
  <2>6. ASSUME NEW v \in Values, \/ Auv2!SetParameter(v) \/ Auv2!Edit(v) \/ Auv2!LoadOnMain(v) \/ Auv2!RestoreState(v)
                                 \/ Auv2!NewFactoryPresetSet(v)
        PROVE  Auv2Sounds'
    BY <2>5, <2>6 DEF Auv2!SetParameter, Auv2!Edit, Auv2!LoadOnMain, Auv2!RestoreState, Auv2!NewFactoryPresetSet
  <2>7. CASE Auv2!ParameterStored \/ Auv2!Changed \/ Auv2!ApplyPending
    BY <2>5, <2>7 DEF Auv2!ParameterStored, Auv2!Changed, Auv2!ApplyPending
  <2>8. ASSUME NEW reached \in BOOLEAN, NEW input \in BOOLEAN, NEW notes_ \in Auv2!Notes,
               Auv2!Enter(reached, input, notes_)
        PROVE  Auv2Sounds'
    <3>1. pc' = "collect" /\ UNCHANGED names /\ kernel' = (IF accepted = None THEN kernel ELSE Auv2!Adopt(kernel, accepted))
          /\ block'.notes = notes_
      BY <2>8 DEF Auv2!Enter, Auv2!NoBlock
    <3>2. "voices" \in DOMAIN kernel' /\ kernel'.voices = kernel.voices
      BY <3>1 DEF Auv2Sounds, Auv2!Adopt
    <3>3. Len(notes_) <= 1
      <4>1. notes_ = <<>> \/ \E k \in {"on", "off"}, key \in Keys : notes_ = <<[kind |-> k, value |-> key]>>
        BY DEF Auv2!Notes
      <4>2. \A n : Len(<<n>>) = 1
        OBVIOUS
      <4>3. Len(<<>>) = 0
        OBVIOUS
      <4>4. Len(notes_) \in {0, 1}
        BY <4>1, <4>2, <4>3, Zenon
      <4>5. \A n \in {0, 1} : n <= 1
        OBVIOUS
      <4> QED BY <4>4, <4>5, Zenon
    <3> QED BY <3>1, <3>2, <3>3 DEF Auv2Sounds
  <2>9. CASE Auv2!Collect
    <3>1. /\ pc = "collect" /\ pc' = "sync" /\ UNCHANGED <<kernel, names>>
          /\ block' = [block EXCEPT !.events = Auv2!Sets(Auv2!Collected)]
      BY <2>9 DEF Auv2!Collect
    <3>2. {"events", "notes"} \subseteq DOMAIN block
      BY DEF Auv2Inv
    <3>3. block'.events = Auv2!Sets(Auv2!Collected) /\ block'.notes = block.notes
      BY <3>1, <3>2
    <3>4. Auv2!Collected \in Seq(Auv2Values)
      BY Auv2Collects DEF Auv2Inv
    <3> DEFINE vs == Auv2!Collected
    <3>5. Auv2!Sets(vs) = [i \in 1 .. Len(vs) |-> [kind |-> "set", value |-> vs[i]]] /\ Len(vs) \in Nat
      BY <3>4 DEF Auv2!Sets
    <3> HIDE DEF vs
    <3>6. \A i \in 1 .. Len(Auv2!Sets(vs)) : Auv2!Sets(vs)[i].kind = "set"
      BY <3>5
    <3> QED BY <3>1, <3>3, <3>6 DEF Auv2Sounds, vs
  <2>10. CASE Auv2!Restarted
    <3> DEFINE plan == Auv2!SyncPlan(sync, Auv2!FactsOf)
               skip_ == Auv2!CanSkip(IF plan = "stream" THEN Auv2!Snap(bypass) ELSE bypass)
               taken == block.events \o block.notes
    <3>1. /\ pc = "sync" /\ pc' = (IF plan = "hold" THEN "idle" ELSE "events")
          /\ kernel' = (IF plan = "hold" THEN Auv2!Miss(kernel)
                        ELSE IF plan = "none" THEN kernel ELSE Auv2!Restart(kernel, Auv2!RestartValue))
          /\ names' = Auv2!NamesAfter(plan)
          /\ block' = IF plan = "hold" THEN Auv2!NoBlock ELSE [block EXCEPT !.events = taken, !.skip = skip_]
      BY <2>10, Zenon DEF Auv2!Restarted
    <3> HIDE DEF plan, skip_
    <3>2. /\ "voices" \in DOMAIN kernel'
          /\ kernel'.voices = IF plan \in {"hold", "none"} THEN kernel.voices ELSE {}
      BY <3>1 DEF Auv2Sounds, Auv2!Miss, Auv2!Restart
    <3>3. names' = IF plan = "hold" THEN names ELSE (IF plan = "stream" THEN {} ELSE names) \cup Auv2!Named
      BY <3>1 DEF Auv2!NamesAfter
    <3>4. CASE plan = "hold"
      BY <3>1, <3>2, <3>3, <3>4 DEF Auv2Sounds
    <3>5. CASE plan # "hold"
      <4>1. {"events", "notes", "skip"} \subseteq DOMAIN block /\ block.events \in Seq(Auv2Event) /\ block.notes \in Seq(Auv2Event)
        BY DEF Auv2Inv, Auv2Event
      <4>2. block'.events = taken /\ block'.notes = block.notes
        BY <3>1, <3>5, <4>1
      <4>3. \A i \in 1 .. Len(block.notes) : block.notes[i].kind = "on" => block.notes[i].value \in names'
        BY <3>3, <3>5, <4>1 DEF Auv2!Named, Auv2!Range
      <4>4. /\ Len(block.notes) <= 1
            /\ \A i \in 1 .. Len(block.events) : block.events[i].kind \notin {"on", "off"}
        BY <3>1 DEF Auv2Sounds
      <4> HIDE DEF taken
      <4>5. NoteLast(taken, names')
        BY <4>1, <4>3, <4>4, NotesFollow DEF taken
      <4>6. kernel'.voices \subseteq names'
        BY <3>2, <3>3, <3>5 DEF Auv2Sounds
      <4> QED BY <3>1, <3>2, <3>5, <4>2, <4>4, <4>5, <4>6 DEF Auv2Sounds
    <3> QED BY <3>4, <3>5
  <2>11. CASE Auv2!EventAt
    <3> DEFINE e == Head(block.events)
    <3>1. e.kind \in {"set", "on", "off"} /\ block.events \in Seq(Auv2Event) /\ block.events # <<>>
      <4>1. e \in Auv2Event
        BY <2>11 DEF Auv2Inv, Auv2!EventAt
      <4> QED BY <2>11, <4>1 DEF Auv2Event, Auv2Note, Auv2Inv, Auv2!EventAt
    <3>2. /\ pc = "events" /\ pc' = pc /\ block'.events = Tail(block.events) /\ block'.notes = block.notes
          /\ kernel' = CASE e.kind = "set" -> Auv2!Set(kernel, e.value)
                         [] e.kind = "on" -> Auv2!NoteOn(kernel, e.value)
                         [] e.kind = "off" -> IF e.value \in names THEN Auv2!NoteOff(kernel, e.value) ELSE kernel
          /\ names' = IF e.kind = "off" THEN names \ {e.value} ELSE names
      <4>1. {"events", "notes"} \subseteq DOMAIN block
        BY DEF Auv2Inv
      <4> QED BY <2>11, <4>1 DEF Auv2!EventAt
    <3>3. NoteLast(block.events, names)
      BY <3>2 DEF Auv2Sounds
    <3>4. /\ NoteLast(Tail(block.events), names)
          /\ e.kind = "off" => NoteLast(Tail(block.events), names')
          /\ e.kind = "on" => e.value \in names
      BY <3>1, <3>3, NotesFollow
    <3> HIDE DEF e
    <3>5. NoteLast(block'.events, names')
      BY <3>2, <3>4
    <3>6. "voices" \in DOMAIN kernel' /\ kernel'.voices \subseteq names'
      BY <3>1, <3>2, <3>4 DEF Auv2Sounds, Auv2!Set, Auv2!NoteOn, Auv2!NoteOff
    <3> QED BY <3>2, <3>5, <3>6 DEF Auv2Sounds
  <2>12. CASE Auv2!Rest
    <3>1. /\ pc = "events" /\ pc' = "finish" /\ kernel' = (IF block.skip THEN Auv2!Miss(kernel) ELSE Auv2!Hear(kernel))
          /\ block'.notes = block.notes /\ UNCHANGED names
      BY <2>12 DEF Auv2!Rest, Auv2Inv
    <3>2. "voices" \in DOMAIN kernel' /\ kernel'.voices = kernel.voices
      BY <3>1 DEF Auv2Sounds, Auv2!Miss, Auv2!Hear
    <3> QED BY <3>1, <3>2 DEF Auv2Sounds
  <2>13. CASE Auv2!Finish
    BY <2>13 DEF Auv2!Finish, Auv2Sounds
  <2>14. CASE UNCHANGED Auv2!auv2Vars
    BY <2>14, <2>1 DEF Auv2!auv2Vars
  <2> QED BY <2>2, <2>3, <2>4, <2>6, <2>7, <2>8, <2>9, <2>10, <2>11, <2>12, <2>13, <2>14
          DEF Auv2!Next, Auv2!Working
<1> QED BY <1>1, <1>2, Auv2Invariance, PTL

\* Of what waits for main, one thing at most, and it is what was chosen last.
Auv2Loads ==
    /\ pendingLoad # None => chosen = pendingLoad /\ pendingPreset = None
    /\ pendingPreset # None => chosen = pendingPreset
    /\ Auv2!LastLoadStays

LEMMA Auv2LoadsInvariance == Auv2!Init /\ [][Auv2!Next]_(Auv2!auv2Vars) => []Auv2Loads
<1>1. Auv2!Init => Auv2Loads
  BY DEF Auv2!Init, Auv2Loads, Auv2!LastLoadStays
<1>2. Auv2Loads /\ [Auv2!Next]_(Auv2!auv2Vars) => Auv2Loads'
  <2> SUFFICES ASSUME Auv2Loads, [Auv2!Next]_(Auv2!auv2Vars) PROVE Auv2Loads'
    OBVIOUS
  <2>1. ASSUME UNCHANGED Auv2!loads PROVE Auv2Loads'
    BY <2>1 DEF Auv2Loads, Auv2!LastLoadStays, Auv2!loads
  <2>2. CASE Auv2!Initialize \/ Auv2!Cleanup \/ Auv2!GetLatency \/ Auv2!TellLatency \/ Auv2!Reset \/ Auv2!SetOffline
    BY <2>1, <2>2 DEF Auv2!Initialize, Auv2!Cleanup, Auv2!GetLatency, Auv2!TellLatency, Auv2!Reset, Auv2!SetOffline
  <2>3. ASSUME NEW on \in BOOLEAN, Auv2!SetBypass(on) PROVE Auv2Loads'
    BY <2>1, <2>3 DEF Auv2!SetBypass
  <2>4. ASSUME NEW v \in Values, Auv2!SetParameter(v) \/ Auv2!Edit(v) PROVE Auv2Loads'
    BY <2>1, <2>4 DEF Auv2!SetParameter, Auv2!Edit
  <2>5. ASSUME NEW v \in Values, Auv2!LoadOnMain(v) \/ Auv2!RestoreState(v) \/ Auv2!NewFactoryPresetSet(v)
        PROVE  Auv2Loads'
    BY <2>5, NoneApart DEF Auv2!LoadOnMain, Auv2!RestoreState, Auv2!NewFactoryPresetSet, Auv2!Apply, Auv2Loads,
                           Auv2!LastLoadStays
  <2>6. CASE Auv2!ParameterStored \/ Auv2!Changed
    BY <2>1, <2>6 DEF Auv2!ParameterStored, Auv2!Changed
  <2>7. CASE Auv2!ApplyPending
    BY <2>7 DEF Auv2!ApplyPending, Auv2!Apply, Auv2Loads, Auv2!LastLoadStays
  <2>8. ASSUME NEW reached \in BOOLEAN, NEW input \in BOOLEAN, NEW notes_ \in Auv2!Notes,
               Auv2!Enter(reached, input, notes_)
        PROVE  Auv2Loads'
    BY <2>1, <2>8 DEF Auv2!Enter
  <2>9. CASE Auv2!Working
    BY <2>1, <2>9 DEF Auv2!Working, Auv2!Collect, Auv2!Restarted, Auv2!EventAt, Auv2!Rest, Auv2!Finish, Auv2!still
  <2>10. CASE UNCHANGED Auv2!auv2Vars
    BY <2>1, <2>10 DEF Auv2!auv2Vars
  <2> QED BY <2>2, <2>3, <2>4, <2>5, <2>6, <2>7, <2>8, <2>9, <2>10 DEF Auv2!Next
<1> QED BY <1>1, <1>2, PTL

\* Whoever reads the latency accepts what is proposed, a block under way or not; nothing is proposed before Initialize.
Auv2Latency ==
    /\ Handshake /\ Optional(block.proposed)
    /\ ready => bypass.max = Top /\ Answers
    /\ ~ready => pending = None /\ accepted = None

LEMMA Auv2Latencies == Auv2!Init /\ [][Auv2!Next]_(Auv2!auv2Vars) => []Auv2Latency
<1> USE DEF Auv2!Latency
<1>1. Auv2!Init => Auv2Latency
  BY DEF Auv2!Init, Auv2Latency, Handshake, Answers, Optional, Auv2!NewKernel, Auv2!NewBypass, Auv2!NoBlock
<1>2. Auv2Inv /\ Auv2Latency /\ [Auv2!Next]_(Auv2!auv2Vars) => Auv2Latency'
  <2> SUFFICES ASSUME Auv2Inv, Auv2Latency, [Auv2!Next]_(Auv2!auv2Vars) PROVE Auv2Latency'
    OBVIOUS
  <2>1. ASSUME UNCHANGED <<kernel, latency, pending, accepted, block, ready>>,
               bypass' = bypass \/ \E on : bypass' = Auv2!SetBypassed(bypass, on)
        PROVE Auv2Latency'
    BY <2>1 DEF Auv2Latency, Handshake, Answers, Optional, Auv2!SetBypassed
  <2>2. CASE Auv2!Initialize
    <3>1. /\ latency' = globals /\ kernel' = Auv2!Configure(globals) /\ UNCHANGED <<pending, accepted, block>> /\ ready'
          /\ bypass' = Auv2!BypassConfigured(bypass, Top, globals) /\ pending = None /\ accepted = None
      BY <2>2, Longest, Auv2Longest DEF Auv2Latency, Auv2!Initialize, Auv2!values
    <3>2. {"value", "latency"} \subseteq DOMAIN kernel' /\ kernel'.latency = globals
      BY <3>1 DEF Auv2!Configure
    <3>3. globals <= Top
      BY Longest, Auv2Longest, LatenciesBounded DEF Auv2Inv, Auv2Stored, Auv2Values
    <3>4. {"latency", "max"} \subseteq DOMAIN bypass' /\ bypass'.latency = globals /\ bypass'.max = Top
      BY <3>1, <3>3 DEF Auv2Latency, Handshake, Auv2!BypassConfigured, Auv2!SetLatency, Auv2!Snap
    <3> QED BY <3>1, <3>2, <3>4 DEF Auv2Latency, Handshake, Answers, Optional
  <2>3. CASE Auv2!Cleanup
    <3>1. UNCHANGED <<kernel, bypass, block>> /\ pending' = None /\ accepted' = None /\ ~ready'
      BY <2>3 DEF Auv2!Cleanup, Auv2!render
    <3> QED BY <3>1 DEF Auv2Latency, Handshake, Answers, Optional
  <2>4. CASE Auv2!GetLatency
    <3>1. UNCHANGED <<kernel, bypass, block, ready>> /\ pending' = None
      BY <2>4 DEF Auv2!GetLatency, Auv2!render
    <3>2. CASE pending = None
      BY <2>4, <3>1, <3>2 DEF Auv2!GetLatency, Auv2Latency, Handshake, Answers, Optional
    <3>3. CASE pending # None
      BY <2>4, <3>1, <3>3 DEF Auv2!GetLatency, Auv2Latency, Handshake, Answers, Optional
    <3> QED BY <3>2, <3>3
  <2>5. CASE Auv2!TellLatency \/ Auv2!Reset \/ Auv2!SetOffline
    BY <2>5, <2>1 DEF Auv2!TellLatency, Auv2!Reset, Auv2!SetOffline, Auv2!render, Auv2!handshake
  <2>6. ASSUME NEW on \in BOOLEAN, Auv2!SetBypass(on) PROVE Auv2Latency'
    BY <2>6, <2>1 DEF Auv2!SetBypass, Auv2!render, Auv2!handshake
  <2>7. ASSUME UNCHANGED Auv2!rest PROVE Auv2Latency'
    BY <2>1, <2>7 DEF Auv2!rest, Auv2!render, Auv2!handshake
  <2>8. ASSUME NEW v \in Values, \/ Auv2!SetParameter(v) \/ Auv2!Edit(v) \/ Auv2!LoadOnMain(v)
                                 \/ Auv2!RestoreState(v) \/ Auv2!NewFactoryPresetSet(v)
        PROVE Auv2Latency'
    BY <2>8, <2>7 DEF Auv2!SetParameter, Auv2!Edit, Auv2!LoadOnMain, Auv2!RestoreState, Auv2!NewFactoryPresetSet
  <2>9. CASE Auv2!ParameterStored \/ Auv2!Changed \/ Auv2!ApplyPending
    BY <2>9, <2>7 DEF Auv2!ParameterStored, Auv2!Changed, Auv2!ApplyPending
  <2>10. ASSUME NEW reached \in BOOLEAN, NEW input \in BOOLEAN, NEW notes_ \in Auv2!Notes, Auv2!Enter(reached, input, notes_)
         PROVE  Auv2Latency'
    <3>1. /\ accepted' = None /\ UNCHANGED <<latency, pending, ready>> /\ ready /\ block'.proposed = None
          /\ kernel' = (IF accepted = None THEN kernel ELSE Auv2!Adopt(kernel, accepted))
          /\ bypass' = (IF accepted = None THEN bypass ELSE Auv2!SetLatency(bypass, accepted))
      BY <2>10 DEF Auv2!Enter, Auv2!NoBlock
    <3>2. {"value", "latency"} \subseteq DOMAIN kernel' /\ kernel'.latency = latency
      BY <3>1 DEF Auv2Latency, Handshake, Answers, Auv2!Adopt
    <3>3. {"latency", "max"} \subseteq DOMAIN bypass' /\ bypass'.latency = latency /\ bypass'.max = bypass.max
      BY <3>1 DEF Auv2Latency, Handshake, Answers, Optional, Auv2!SetLatency
    <3> QED BY <3>1, <3>2, <3>3 DEF Auv2Latency, Handshake, Answers, Optional
  <2> DEFINE Same(k) == {"value", "latency"} \subseteq DOMAIN k /\ k.latency = kernel.latency
             Also(b) == {"latency", "max"} \subseteq DOMAIN b /\ b.latency = bypass.latency /\ b.max = bypass.max
  <2>11. ASSUME Same(kernel'), Also(bypass'), UNCHANGED <<latency, pending, accepted, ready>>, Optional(block'.proposed)
         PROVE Auv2Latency'
    BY <2>11 DEF Auv2Latency, Handshake, Answers, Optional
  <2>12. CASE Auv2!Collect
    <3>1. UNCHANGED <<kernel, bypass, latency, pending, accepted, ready>> /\ block'.proposed = block.proposed
      BY <2>12 DEF Auv2Inv, Auv2!Collect, Auv2!still, Auv2!handshake
    <3> QED BY <2>11, <3>1 DEF Auv2Latency, Handshake, Optional
  <2>13. CASE Auv2!Restarted
    <3> DEFINE plan == Auv2!SyncPlan(sync, Auv2!FactsOf)
               b == IF plan = "stream" THEN Auv2!Snap(bypass) ELSE bypass
    <3>1. /\ kernel' = (IF plan = "hold" THEN Auv2!Miss(kernel)
                        ELSE IF plan = "none" THEN kernel ELSE Auv2!Restart(kernel, Auv2!RestartValue))
          /\ bypass' = b /\ UNCHANGED <<latency, pending, accepted, ready>>
      BY <2>13 DEF Auv2!Restarted, Auv2!still, Auv2!handshake
    <3>2. block'.proposed \in {block.proposed, None}
      <4>1. CASE plan = "hold"
        BY <2>13, <4>1 DEF Auv2!Restarted, Auv2!NoBlock
      <4>2. CASE plan # "hold"
        <5>1. block' = [block EXCEPT !.events = @ \o block.notes, !.skip = Auv2!CanSkip(b)]
          BY <2>13, <4>2, Zenon DEF Auv2!Restarted
        <5> QED BY <5>1 DEF Auv2Inv
      <4> QED BY <4>1, <4>2
    <3>3. Also(b)
      BY DEF Auv2Latency, Handshake, Auv2!Snap
    <3> HIDE DEF plan, b
    <3>4. Same(kernel')
      BY <3>1 DEF Auv2Latency, Handshake, Auv2!Restart, Auv2!Miss
    <3>5. Optional(block'.proposed)
      BY <3>2 DEF Auv2Latency, Optional
    <3> QED BY <2>11, <3>1, <3>3, <3>4, <3>5
  <2>14. CASE Auv2!EventAt
    <3> DEFINE e == Head(block.events)
    <3>1. e \in Auv2Event
      BY <2>14 DEF Auv2Inv, Auv2!EventAt
    <3>2. Same(kernel')
      BY <2>14, <3>1 DEF Auv2Latency, Handshake, Auv2!EventAt, Auv2Event, Auv2Note, Auv2!Set, Auv2!NoteOn, Auv2!NoteOff
    <3>3. UNCHANGED <<bypass, latency, pending, accepted, ready>> /\ block'.proposed = block.proposed
      BY <2>14 DEF Auv2Inv, Auv2!EventAt, Auv2!still, Auv2!handshake
    <3> QED BY <2>11, <3>2, <3>3 DEF Auv2Latency, Handshake, Optional
  <2>15. CASE Auv2!Rest
    <3>1. Same(kernel')
      BY <2>15 DEF Auv2Latency, Handshake, Auv2!Rest, Auv2!Hear, Auv2!Miss
    <3>2. Optional(block'.proposed)
      BY <2>15 DEF Auv2Inv, Auv2Latency, Auv2!Rest, Auv2!Admits, Optional
    <3>3. UNCHANGED <<bypass, latency, pending, accepted, ready>>
      BY <2>15 DEF Auv2!Rest, Auv2!still, Auv2!handshake
    <3> QED BY <2>11, <3>1, <3>2, <3>3 DEF Auv2Latency, Handshake
  <2>16. CASE Auv2!Finish
    <3>1. Also(bypass')
      BY <2>16 DEF Auv2Latency, Handshake, Auv2!Finish, Auv2!BypassProcessed
    <3>2. Optional(pending') /\ block'.proposed = None
      BY <2>16 DEF Auv2Latency, Handshake, Auv2!Finish, Optional, Auv2!NoBlock
    <3>3. UNCHANGED <<kernel, latency, accepted, ready>> /\ ready
      BY <2>16 DEF Auv2Inv, Auv2!Finish, Auv2!still
    <3> QED BY <3>1, <3>2, <3>3 DEF Auv2Latency, Handshake, Answers, Optional
  <2>17. CASE UNCHANGED Auv2!auv2Vars
    BY <2>17, <2>1 DEF Auv2!auv2Vars, Auv2!handshake
  <2> QED BY <2>2, <2>3, <2>4, <2>5, <2>6, <2>8, <2>9, <2>10, <2>12, <2>13, <2>14, <2>15, <2>16, <2>17
          DEF Auv2!Next, Auv2!Working
<1> QED BY <1>1, <1>2, Auv2Invariance, PTL

\* What AUv2 stored last is on its way by one of the ways there are, or by a block that has it, until the processor has
\* it or something older was delivered after it; a held block drops what it had, and a restart of the stream makes up.
Auv2Waits == late \/ queue # <<>> \/ changes # None \/ needsResync \/ epoch # seen \/ main.at \in {"edit", "load"}
Auv2Settles ==
    /\ seen \in 0..1 /\ epoch \in 0..1
    /\ pc = "sync" => Writes(block.events) = DOMAIN block.events
    /\ \/ Auv2Waits \/ sync.pending
       \/ pc = "collect" /\ block.resync
       \/ pc = "sync" /\ block.events # <<>>
       \/ pc = "events" /\ Comes(block.events, kernel.value, Auv2!Meant)
       \/ pc # "events" /\ kernel.value = Auv2!Meant

LEMMA Auv2ValuesMeet == Auv2!Init /\ [][Auv2!Next]_(Auv2!auv2Vars) => []Auv2Settles
<1>1. Auv2!Init => Auv2Settles
  BY DEF Auv2!Init, Auv2Settles, Auv2!NewKernel, Auv2!Idle, Auv2!Meant
<1>2. Auv2Inv /\ Auv2Latency /\ Auv2Settles /\ [Auv2!Next]_(Auv2!auv2Vars) => Auv2Settles'
  <2> SUFFICES ASSUME Auv2Inv, Auv2Latency, Auv2Settles, [Auv2!Next]_(Auv2!auv2Vars) PROVE Auv2Settles'
    OBVIOUS
  <2>0. "value" \in DOMAIN kernel
    BY DEF Auv2Latency, Handshake
  <2>1. ASSUME UNCHANGED <<kernel, block, pc, sync, main, Auv2!values>> PROVE Auv2Settles'
    BY <2>1 DEF Auv2Settles, Auv2Waits, Auv2!values, Auv2!Meant
  <2>2. ASSUME Auv2Waits', UNCHANGED <<block, pc>>, seen' = seen, epoch' \in 0..1 PROVE Auv2Settles'
    BY <2>2 DEF Auv2Settles
  <2>3. CASE Auv2!Initialize
    <3>1. /\ pc = "idle" /\ main = Auv2!Idle /\ kernel' = Auv2!Configure(globals)
          /\ UNCHANGED <<pc, main, block, Auv2!values>>
      BY <2>3 DEF Auv2Inv, Auv2!Initialize, Auv2!MainIsFree
    <3> QED BY <3>1 DEF Auv2Settles, Auv2!Configure, Auv2!values, Auv2!Meant, Auv2!Idle
  <2>4. CASE Auv2!Cleanup \/ Auv2!GetLatency \/ Auv2!TellLatency \/ Auv2!Reset \/ Auv2!SetOffline
    BY <2>1, <2>4 DEF Auv2!Cleanup, Auv2!GetLatency, Auv2!TellLatency, Auv2!Reset, Auv2!SetOffline, Auv2!render
  <2>5. ASSUME NEW on \in BOOLEAN, Auv2!SetBypass(on) PROVE Auv2Settles'
    BY <2>1, <2>5 DEF Auv2!SetBypass, Auv2!render
  <2>6. ASSUME NEW v \in Values, Auv2!SetParameter(v) PROVE Auv2Settles'
    <3>1. UNCHANGED <<block, pc, seen>>
      BY <2>6 DEF Auv2!SetParameter, Auv2!rest, Auv2!render
    <3>2. CASE bypass.wanted
      <4>1. epoch' = 1 - seen
        BY <2>6, <3>2 DEF Auv2!SetParameter
      <4>2. epoch' # seen' /\ epoch' \in 0..1
        BY <3>1, <4>1 DEF Auv2Settles
      <4> QED BY <2>2, <3>1, <4>2 DEF Auv2Waits
    <3>3. CASE ~bypass.wanted /\ Len(queue) < MaxQueue
      <4>1. queue' = Append(queue, v) /\ epoch' = epoch
        BY <2>6, <3>3 DEF Auv2!SetParameter
      <4>2. queue \in Seq(Auv2Values) /\ v \in Auv2Values
        BY DEF Auv2Inv, Auv2Stored, Auv2Values
      <4>3. queue' # <<>>
        BY <4>1, <4>2
      <4> QED BY <2>2, <3>1, <4>1, <4>3 DEF Auv2Waits, Auv2Settles
    <3>4. CASE ~bypass.wanted /\ ~(Len(queue) < MaxQueue)
      <4>1. needsResync' /\ epoch' = epoch
        BY <2>6, <3>4 DEF Auv2!SetParameter
      <4> QED BY <2>2, <3>1, <4>1 DEF Auv2Waits, Auv2Settles
    <3> QED BY <3>2, <3>3, <3>4
  <2>7. CASE Auv2!ParameterStored
    <3>1. /\ main.at = "set" /\ main' = Auv2!Idle /\ globals' = main.value
          /\ UNCHANGED <<kernel, block, pc, sync, queue, changes, needsResync, epoch, seen, late>>
      BY <2>7 DEF Auv2!ParameterStored, Auv2!rest, Auv2!render
    <3>2. Auv2!Meant' = Auv2!Meant
      BY <3>1 DEF Auv2!Meant, Auv2!Idle
    <3> QED BY <3>1, <3>2 DEF Auv2Settles, Auv2Waits
  <2>8. ASSUME NEW v \in Values, Auv2!Edit(v) \/ Auv2!LoadOnMain(v) PROVE Auv2Settles'
    <3>1. main'.at \in {"edit", "load"} /\ UNCHANGED <<block, pc, seen, epoch>>
      BY <2>8 DEF Auv2!Edit, Auv2!LoadOnMain, Auv2!Apply, Auv2!rest, Auv2!render
    <3> QED BY <2>2, <3>1 DEF Auv2Waits, Auv2Settles
  <2>9. CASE Auv2!ApplyPending
    <3>1. main'.at \in {"edit", "load"} /\ UNCHANGED <<block, pc, seen, epoch>>
      BY <2>9 DEF Auv2!ApplyPending, Auv2!Apply, Auv2!rest, Auv2!render
    <3> QED BY <2>2, <3>1 DEF Auv2Waits, Auv2Settles
  <2>10. ASSUME NEW v \in Values, Auv2!RestoreState(v) \/ Auv2!NewFactoryPresetSet(v) PROVE Auv2Settles'
    BY <2>1, <2>10 DEF Auv2!RestoreState, Auv2!NewFactoryPresetSet, Auv2!rest, Auv2!render
  <2>11. CASE Auv2!Changed
    <3>1. changes' = main.value /\ main # Auv2!Idle /\ UNCHANGED <<block, pc, seen, epoch>>
      BY <2>11 DEF Auv2!Changed, Auv2!Idle, Auv2!rest, Auv2!render
    <3>2. changes' # None
      BY <3>1, NoneApart, LatenciesBounded DEF Auv2Inv, Auv2Stored, Auv2Values
    <3> QED BY <2>2, <3>1, <3>2 DEF Auv2Waits, Auv2Settles
  <2>12. ASSUME NEW reached \in BOOLEAN, NEW input \in BOOLEAN, NEW notes_ \in Auv2!Notes,
                Auv2!Enter(reached, input, notes_)
         PROVE  Auv2Settles'
    <3>1. /\ pc = "idle" /\ pc' = "collect" /\ seen' = epoch
          /\ block'.resync = (needsResync \/ epoch # seen)
          /\ kernel' = (IF accepted = None THEN kernel ELSE Auv2!Adopt(kernel, accepted))
          /\ UNCHANGED <<sync, main, globals, queue, changes, epoch, late>>
      BY <2>12 DEF Auv2!Enter, Auv2!NoBlock
    <3>2. kernel'.value = kernel.value
      BY <2>0, <3>1 DEF Auv2!Adopt
    <3> QED BY <3>1, <3>2 DEF Auv2Settles, Auv2Waits, Auv2!Meant
  <2>13. CASE Auv2!Collect
    <3> DEFINE sets == Auv2!Sets(Auv2!Collected)
    <3>1. /\ pc = "collect" /\ pc' = "sync" /\ block'.events = sets
          /\ UNCHANGED <<kernel, sync, main, globals, needsResync, epoch, seen, late>>
      BY <2>13 DEF Auv2Inv, Auv2!Collect, Auv2!still
    <3>2. Writes(sets) = DOMAIN sets
      BY DEF Writes, Auv2!Sets
    <3>3. sets = <<>> => ~block.resync /\ queue = <<>> /\ changes = None
      <4>1. Auv2!Collected \in Seq(Auv2Values)
        BY Auv2Collects DEF Auv2Inv
      <4>2. sets = <<>> => Auv2!Collected = <<>>
        BY <4>1 DEF Auv2!Sets
      <4>3. Auv2!Collected = <<>> => ~block.resync
        BY DEF Auv2!Collected
      <4>4. queue \in Seq(Auv2Values) /\ (changes = None \/ changes \in Auv2Values)
        BY DEF Auv2Inv, Auv2Stored
      <4>5. changes # None => Auv2!One(changes) \o queue # <<>>
        BY <4>4 DEF Auv2!One
      <4>6. changes = None => Auv2!One(changes) \o queue = queue
        BY <4>4 DEF Auv2!One
      <4> QED BY <4>2, <4>3, <4>5, <4>6 DEF Auv2!Collected
    <3> HIDE DEF sets
    <3> QED BY <3>1, <3>2, <3>3 DEF Auv2Settles, Auv2Waits, Auv2!Meant
  <2>14. CASE Auv2!Restarted
    <3> DEFINE f == Auv2!FactsOf
               to == Auv2!SyncNext(sync, f)
               plan == Auv2!SyncPlan(sync, f)
               final == IF block.events # <<>> THEN Auv2!Last(block.events).value
                        ELSE IF plan \in {"stream", "resume"} THEN globals ELSE kernel.value
    <3>1. /\ plan \in {"none", "resume", "stream", "hold"}
          /\ plan = "none" => ~sync.pending
          /\ plan = "hold" => to.pending
      <4>1. SyncFields \subseteq DOMAIN sync /\ (sync.holding => sync.pending)
        BY DEF Auv2Inv, Fielded
      <4>2. to = Stream!SyncNext(sync, f) /\ plan = Stream!SyncPlan(sync, f)
        BY Auv2Stream, Zenon
      <4> HIDE DEF f, to, plan
      <4> QED BY <4>1, <4>2, StreamGoesOn
    <3>2. /\ pc = "sync" /\ sync' = to /\ (pc' = IF plan = "hold" THEN "idle" ELSE "events")
          /\ kernel' = IF plan = "hold" THEN Auv2!Miss(kernel)
                       ELSE IF plan = "none" THEN kernel ELSE Auv2!Restart(kernel, Auv2!RestartValue)
          /\ late' = (IF block.events = <<>> /\ plan = "none" THEN late ELSE final # Auv2!Meant)
          /\ UNCHANGED <<main, globals, queue, changes, needsResync, epoch, seen>>
      BY <2>14 DEF Auv2!Restarted, Auv2!still
    <3>3. plan # "hold" => block'.events = block.events \o block.notes
      BY <2>14 DEF Auv2!Restarted, Auv2Inv
    <3>4. /\ Listed(block.events) /\ Listed(block.notes)
          /\ Writes(block.events) = DOMAIN block.events /\ Writes(block.notes) = {}
      <4>1. block.events \in Seq(Auv2Event) /\ block.notes \in Seq(Auv2Note)
        BY DEF Auv2Inv
      <4>2. \A i \in DOMAIN block.notes : block.notes[i] \in Auv2Note
        BY <4>1
      <4>3. Writes(block.notes) = {}
        BY <4>2 DEF Writes, Auv2Note
      <4> QED BY <3>2, <4>1, <4>3, SequencesList DEF Auv2Settles
    <3>5. block.events # <<>> => Auv2!Last(block.events) = block.events[Len(block.events)]
      BY DEF Auv2!Last
    <3>6. Auv2!Meant' = Auv2!Meant
      BY <3>2 DEF Auv2!Meant
    <3> HIDE DEF plan, to, f
    <3>7. CASE plan = "hold"
      BY <3>1, <3>2, <3>7 DEF Auv2Settles
    <3>8. CASE plan # "hold" /\ block.events # <<>>
      <4>1. ~late' => Comes(block'.events, kernel'.value, Auv2!Meant)
        BY <3>2, <3>3, <3>4, <3>5, <3>8, ComesLast
      <4> QED BY <3>2, <3>6, <3>8, <4>1 DEF Auv2Settles, Auv2Waits
    <3>9. CASE plan \in {"stream", "resume"} /\ block.events = <<>>
      <4>1. kernel'.value = globals /\ (~late' => globals = Auv2!Meant)
        BY <2>0, <3>2, <3>9 DEF Auv2!Restart, Auv2!RestartValue
      <4>2. Comes(block'.events, kernel'.value, kernel'.value)
        BY <3>3, <3>4, <3>9, ComesLast
      <4> QED BY <3>2, <3>6, <3>9, <4>1, <4>2 DEF Auv2Settles, Auv2Waits
    <3>10. CASE plan = "none" /\ block.events = <<>>
      <4>1. kernel' = kernel /\ late' = late /\ ~sync.pending
        BY <3>1, <3>2, <3>10
      <4>2. Comes(block'.events, kernel'.value, kernel'.value)
        BY <3>3, <3>4, <3>10, ComesLast
      <4>3. Auv2Waits \/ kernel.value = Auv2!Meant
        BY <3>2, <3>10, <4>1 DEF Auv2Settles
      <4>4. Auv2Waits => Auv2Waits'
        BY <3>2, <4>1 DEF Auv2Waits
      <4> QED BY <3>2, <3>6, <3>10, <4>1, <4>2, <4>3, <4>4 DEF Auv2Settles
    <3> QED BY <3>1, <3>7, <3>8, <3>9, <3>10
  <2>15. CASE Auv2!EventAt
    <3> DEFINE e == Head(block.events)
               was == IF e.kind \in {"set", "ramp"} THEN e.value ELSE kernel.value
    <3>1. e \in Auv2Event /\ Listed(block.events)
      BY <2>15, SequencesList DEF Auv2Inv, Auv2!EventAt
    <3>2. kernel'.value = was
      BY <2>0, <2>15, <3>1 DEF Auv2!EventAt, Auv2Event, Auv2Note, Auv2!Set, Auv2!NoteOn, Auv2!NoteOff
    <3>3. /\ block.events # <<>> /\ block'.events = Tail(block.events) /\ pc = "events" /\ pc' = "events"
          /\ UNCHANGED <<main, sync, Auv2!values>>
      BY <2>15 DEF Auv2!EventAt, Auv2!still, Auv2Inv
    <3>4. ASSUME Comes(block.events, kernel.value, Auv2!Meant) PROVE Comes(block'.events, kernel'.value, Auv2!Meant)
      BY <3>1, <3>2, <3>3, <3>4, ComesOn
    <3>5. Auv2!Meant' = Auv2!Meant
      BY <3>3 DEF Auv2!Meant, Auv2!values
    <3> HIDE DEF e, was
    <3> QED BY <3>3, <3>4, <3>5 DEF Auv2Settles, Auv2Waits, Auv2!values
  <2>16. CASE Auv2!Rest
    <3>1. /\ pc = "events" /\ pc' = "finish" /\ block.events = <<>> /\ UNCHANGED <<main, sync, Auv2!values>>
          /\ kernel' = IF block.skip THEN Auv2!Miss(kernel) ELSE Auv2!Hear(kernel)
      BY <2>16 DEF Auv2!Rest, Auv2!still
    <3>2. kernel'.value = kernel.value
      BY <2>0, <3>1 DEF Auv2!Miss, Auv2!Hear
    <3>3. Comes(block.events, kernel.value, Auv2!Meant) => kernel.value = Auv2!Meant
      BY <3>1, Lists, ComesOn
    <3>4. Auv2!Meant' = Auv2!Meant
      BY <3>1 DEF Auv2!Meant, Auv2!values
    <3> QED BY <3>1, <3>2, <3>3, <3>4 DEF Auv2Settles, Auv2Waits, Auv2!values
  <2>17. CASE Auv2!Finish
    <3>1. pc = "finish" /\ pc' = "idle" /\ UNCHANGED <<kernel, main, sync, Auv2!values>>
      BY <2>17 DEF Auv2!Finish, Auv2!still
    <3> QED BY <3>1 DEF Auv2Settles, Auv2Waits, Auv2!values, Auv2!Meant
  <2>18. CASE UNCHANGED Auv2!auv2Vars
    BY <2>18, <2>1 DEF Auv2!auv2Vars
  <2> QED BY <2>3, <2>4, <2>5, <2>6, <2>7, <2>8, <2>9, <2>10, <2>11, <2>12, <2>13, <2>14, <2>15, <2>16, <2>17, <2>18
          DEF Auv2!Next, Auv2!Working
<1> QED BY <1>1, <1>2, Auv2Invariance, Auv2Latencies, PTL

-----------------------------------------------------------------------------
(* Proofs about AUv3.                                                        *)

Auv3 == INSTANCE Auv3 WITH Budgets <- Auv3Plans

\* It goes by the one Stream_sync.
LEMMA Auv3Stream ==
    ASSUME NEW s, NEW f
    PROVE  Auv3!SyncNext(s, f) = Stream!SyncNext(s, f) /\ Auv3!SyncPlan(s, f) = Stream!SyncPlan(s, f)
BY Zenon DEF Stream!SyncNext, Stream!SyncPlan, Stream!SyncAfter, Stream!SyncSees, Stream!PlanOf, Stream!HoldsOn,
             Stream!Discontinuous, Stream!ModeOf, Auv3!SyncNext, Auv3!SyncPlan, Auv3!SyncAfter, Auv3!SyncSees,
             Auv3!PlanOf, Auv3!HoldsOn, Auv3!Discontinuous, Auv3!ModeOf

\* Its longest latency is the longest one.
LEMMA Auv3Longest == Auv3!MaxLatency = Top
BY Zenon DEF Top, Stream!MaxLatency, Auv3!MaxLatency

\* The same of AUv3, a render at a time, unless the bypass changed between the slices of one.
Auv3Inv ==
    /\ Fielded(sync, kernel, bypass) /\ ~sync.holdOffline /\ ~sync.holding
    /\ {"at", "events", "skip"} \subseteq DOMAIN block /\ block.events \in Seq(Auv3!Event3)
    /\ block.at \in 0 .. Auv3!BlockFrames /\ block.skip \in BOOLEAN
    /\ pc # "idle" => ready
    /\ kernel.past = "stale" => sync.wasSkipped \/ switched
    /\ pc = "slice" /\ ~switched => /\ block.skip => sync.wasSkipped \/ kernel.past = "none"
                                    /\ block.at < Auv3!BlockFrames => /\ block.skip <=> Auv3!CanSkip(bypass)
                                                                      /\ kernel.past = "stale" => block.skip

LEMMA Auv3Invariance == Auv3!Init /\ [][Auv3!Next]_(Auv3!auv3Vars) => []Auv3Inv
<1>1. Auv3!Init => Auv3Inv
  <2> SUFFICES ASSUME Auv3!Init PROVE Auv3Inv
    OBVIOUS
  <2>1. Fielded(sync, kernel, bypass) /\ ~sync.holdOffline /\ ~sync.holding /\ kernel.past = "none"
    BY DEF Auv3!Init, Fielded, SyncFields, Auv3!NewSync, Auv3!NewKernel, Auv3!NewBypass
  <2>2. /\ {"at", "events", "skip"} \subseteq DOMAIN block /\ block.events = <<>> /\ pc = "idle"
        /\ block.at \in 0 .. Auv3!BlockFrames /\ block.skip \in BOOLEAN
    BY DEF Auv3!Init, Auv3!NoBlock, Auv3!BlockFrames
  <2> QED BY <2>1, <2>2 DEF Auv3Inv
<1>2. Auv3Inv /\ [Auv3!Next]_(Auv3!auv3Vars) => Auv3Inv'
  <2> SUFFICES ASSUME Auv3Inv, [Auv3!Next]_(Auv3!auv3Vars) PROVE Auv3Inv'
    OBVIOUS
  <2>1. ASSUME UNCHANGED <<kernel, sync, block, pc, switched>>, pc # "idle" => ready',
               bypass' = bypass \/ \E on : bypass' = Auv3!SetBypassed(bypass, on)
        PROVE Auv3Inv'
    BY <2>1 DEF Auv3Inv, Fielded, Auv3!SetBypassed, Auv3!CanSkip
  <2>2. CASE Auv3!Allocate
    <3>1. pc = "idle" /\ UNCHANGED <<pc, block>>
      BY <2>2 DEF Auv3Inv, Auv3!Allocate
    <3>2. kernel'.past = "none" /\ Fielded(sync, kernel, bypass)' /\ ~sync'.holdOffline /\ ~sync'.holding
      BY <2>2 DEF Auv3!Allocate, Auv3!Initialized, Auv3Inv, Fielded, SyncFields, Auv3!Configure, Auv3!SyncConfigured,
                  Auv3!BypassConfigured, Auv3!SetLatency, Auv3!Snap
    <3> QED BY <3>1, <3>2 DEF Auv3Inv
  <2>3. CASE Auv3!Deallocate
    BY <2>3, <2>1 DEF Auv3!Deallocate
  <2>4. CASE Auv3!TellLatency \/ Auv3!ReadLatency \/ Auv3!Reset \/ Auv3!SetRenderingOffline
    BY <2>4, <2>1 DEF Auv3Inv, Auv3!TellLatency, Auv3!ReadLatency, Auv3!Reset, Auv3!SetRenderingOffline, Auv3!render
  <2>5. ASSUME NEW on \in BOOLEAN, Auv3!SetBypass(on) PROVE Auv3Inv'
    BY <2>5, <2>1 DEF Auv3Inv, Auv3!SetBypass, Auv3!render
  <2>6. ASSUME UNCHANGED Auv3!rest PROVE Auv3Inv'
    BY <2>1, <2>6 DEF Auv3Inv, Auv3!rest, Auv3!render
  <2>7. ASSUME NEW v \in Values, Auv3!SetParameter(v) \/ Auv3!LoadOnMain(v) \/ Auv3!SetFullState(v) PROVE Auv3Inv'
    BY <2>7, <2>6 DEF Auv3!SetParameter, Auv3!LoadOnMain, Auv3!SetFullState
  <2>8. CASE Auv3!ParameterStored \/ Auv3!ApplyPending
    BY <2>8, <2>6 DEF Auv3!ParameterStored, Auv3!ApplyPending
  <2>9. ASSUME NEW events_ \in {<<>>} \cup {<<e>> : e \in Auv3!Event3}, Auv3!BeginBlock(events_) PROVE Auv3Inv'
    <3> DEFINE f == Auv3!Facts3
               to == Auv3!SyncNext(sync, f)
               plan == Auv3!SyncPlan(sync, f)
               k1 == IF accepted = None THEN kernel ELSE Auv3!Adopt(kernel, accepted)
               k2 == IF changes = None THEN k1 ELSE Auv3!Set(k1, changes)
               k3 == IF plan = "none" THEN k2 ELSE Auv3!Restart(k2, Auv3!RestartValue(events_))
               b1 == IF accepted = None THEN bypass ELSE Auv3!SetLatency(bypass, accepted)
               b2 == IF plan = "stream" THEN Auv3!Snap(b1) ELSE b1
    <3>1. /\ SyncFields \subseteq DOMAIN to /\ ~to.holdOffline /\ ~to.holding
          /\ plan \in {"none", "resume", "stream"}
          /\ plan = "stream" \/ (to.wasSkipped <=> Auv3!CanSkip(bypass))
          /\ plan = "none" /\ sync.wasSkipped => Auv3!CanSkip(bypass)
      <4>1. SyncFields \subseteq DOMAIN sync /\ ~sync.holdOffline /\ ~sync.holding
        BY DEF Auv3Inv, Fielded
      <4>2. to = Stream!SyncNext(sync, f) /\ plan = Stream!SyncPlan(sync, f)
        BY Auv3Stream, Zenon
      <4>3. f.skipping = Auv3!CanSkip(bypass)
        BY DEF Auv3!Facts3
      <4> HIDE DEF f, to, plan
      <4> QED BY <4>1, <4>2, <4>3, StreamGoesOn
    <3>2. /\ ready /\ UNCHANGED ready /\ pc' = "slice" /\ sync' = to /\ kernel' = k3 /\ bypass' = b2
          /\ block' = [at |-> 0, events |-> events_, skip |-> Auv3!CanSkip(b2)]
          /\ switched' = (switched /\ plan = "none")
      BY <2>9, Zenon DEF Auv3!BeginBlock
    <3>3. events_ \in Seq(Auv3!Event3)
      <4>1. ASSUME NEW e \in Auv3!Event3 PROVE <<e>> \in Seq(Auv3!Event3)
        OBVIOUS
      <4>2. <<>> \in Seq(Auv3!Event3)
        OBVIOUS
      <4> QED BY <4>1, <4>2, Zenon
    <3>4. "past" \in DOMAIN k2 /\ k2.past = kernel.past
      BY DEF Auv3Inv, Fielded, Auv3!Adopt, Auv3!Set
    <3>5. {"now", "fade"} \subseteq DOMAIN b1 /\ (Auv3!CanSkip(b1) <=> Auv3!CanSkip(bypass))
      BY DEF Auv3Inv, Fielded, Auv3!SetLatency, Auv3!CanSkip
    <3>6. /\ {"at", "events", "skip"} \subseteq DOMAIN block' /\ block'.events = events_ /\ (block'.skip <=> Auv3!CanSkip(b2))
          /\ block'.at \in 0 .. Auv3!BlockFrames /\ block'.skip \in BOOLEAN
      <4>1. Auv3!CanSkip(b2) \in BOOLEAN
        BY DEF Auv3!CanSkip
      <4> HIDE DEF b2
      <4> QED BY <3>2, <4>1 DEF Auv3!BlockFrames
    <3>7. /\ k3 = IF plan = "none" THEN k2 ELSE Auv3!Restart(k2, Auv3!RestartValue(events_))
          /\ b2 = IF plan = "stream" THEN Auv3!Snap(b1) ELSE b1
      OBVIOUS
    <3> HIDE DEF f, to, plan, k1, k2, k3, b1, b2
    <3>8. CASE plan = "none"
      BY <3>1, <3>2, <3>3, <3>4, <3>5, <3>6, <3>7, <3>8 DEF Auv3Inv, Fielded
    <3>9. CASE plan = "resume"
      BY <3>1, <3>2, <3>3, <3>4, <3>5, <3>6, <3>7, <3>9 DEF Auv3Inv, Fielded, Auv3!Restart
    <3>10. CASE plan = "stream"
      BY <3>1, <3>2, <3>3, <3>4, <3>5, <3>6, <3>7, <3>10 DEF Auv3Inv, Fielded, Auv3!Restart, Auv3!Snap
    <3> QED BY <3>1, <3>8, <3>9, <3>10
  <2>10. CASE Auv3!ProcessSlice
    <3> DEFINE until == Auv3!NextTime
               over == Auv3!BypassProcessed(bypass, TRUE)
    <3>1. /\ pc = "slice" /\ block.at < until /\ UNCHANGED <<pc, sync, ready>>
          /\ kernel' = (IF Auv3!CanSkip(bypass) THEN Auv3!Miss(kernel) ELSE Auv3!Hear(kernel)) /\ bypass' = over
          /\ switched' = (switched \/ (until < Auv3!BlockFrames /\ Auv3!CanSkip(over) # block.skip))
          /\ block' = [block EXCEPT !.at = until]
      BY <2>10 DEF Auv3!ProcessSlice, Auv3!Slice, Auv3!still
    <3>2. until \in 0 .. Auv3!BlockFrames
      <4>1. CASE block.events = <<>>
        BY <4>1 DEF Auv3!NextTime, Auv3!BlockFrames
      <4>2. CASE block.events # <<>>
        <5>1. Head(block.events) \in Auv3!Event3
          BY <4>2 DEF Auv3Inv
        <5>2. Head(block.events).time \in 0 .. 1
          BY <5>1 DEF Auv3!Event3
        <5> QED BY <4>2, <5>2 DEF Auv3!NextTime, Auv3!BlockFrames
      <4> QED BY <4>1, <4>2
    <3>3. "past" \in DOMAIN kernel' /\ {"now", "fade"} \subseteq DOMAIN over
      BY <3>1 DEF Auv3Inv, Fielded, Auv3!Miss, Auv3!Hear, Auv3!BypassProcessed
    <3>4. IF Auv3!CanSkip(bypass) THEN kernel'.past = (IF kernel.past = "live" THEN "stale" ELSE kernel.past)
                                  ELSE kernel'.past = (IF kernel.past = "none" THEN "live" ELSE kernel.past)
      BY <3>1 DEF Auv3Inv, Fielded, Auv3!Miss, Auv3!Hear
    <3> HIDE DEF over, until
    <3>5. kernel'.past = "stale" => kernel.past = "stale" \/ Auv3!CanSkip(bypass)
      BY <3>4
    <3>6. /\ {"at", "events", "skip"} \subseteq DOMAIN block' /\ block'.at = until
          /\ block'.skip = block.skip /\ block'.events = block.events
      BY <3>1 DEF Auv3Inv
    <3>7. block.at < Auv3!BlockFrames
      BY <3>1, <3>2 DEF Auv3Inv, Auv3!BlockFrames
    <3>8. ~switched' => ~switched /\ (until < Auv3!BlockFrames => (block.skip <=> Auv3!CanSkip(over)))
      BY <3>1 DEF Auv3Inv, Auv3!CanSkip
    <3> QED BY <3>1, <3>2, <3>3, <3>4, <3>5, <3>6, <3>7, <3>8 DEF Auv3Inv, Fielded
  <2>11. CASE Auv3!HandleEvent
    <3> DEFINE e == Head(block.events)
    <3>1. e \in Auv3!Event3 /\ Tail(block.events) \in Seq(Auv3!Event3)
      BY <2>11 DEF Auv3Inv, Auv3!HandleEvent
    <3>2. "past" \in DOMAIN kernel' /\ kernel'.past = kernel.past
      BY <2>11, <3>1 DEF Auv3Inv, Fielded, Auv3!HandleEvent, Auv3!Event3, Auv3!Set, Auv3!NoteOn, Auv3!NoteOff
    <3>3. UNCHANGED <<pc, sync, bypass, ready, switched>> /\ block' = [block EXCEPT !.events = Tail(@)]
      BY <2>11 DEF Auv3!HandleEvent, Auv3!still
    <3> HIDE DEF e
    <3> QED BY <3>1, <3>2, <3>3 DEF Auv3Inv, Fielded
  <2>12. CASE Auv3!EndBlock
    <3>1. /\ {"at", "events", "skip"} \subseteq DOMAIN block' /\ block'.events = <<>>
          /\ block'.at \in 0 .. Auv3!BlockFrames /\ block'.skip \in BOOLEAN
      BY <2>12 DEF Auv3!EndBlock, Auv3!NoBlock, Auv3!BlockFrames
    <3>2. pc' = "idle" /\ UNCHANGED <<kernel, sync, bypass, switched>>
      BY <2>12 DEF Auv3!EndBlock
    <3> QED BY <3>1, <3>2 DEF Auv3Inv, Fielded
  <2>13. CASE UNCHANGED Auv3!auv3Vars
    BY <2>13, <2>1 DEF Auv3Inv, Auv3!auv3Vars
  <2> QED BY <2>2, <2>3, <2>4, <2>5, <2>7, <2>8, <2>9, <2>10, <2>11, <2>12, <2>13
          DEF Auv3!Next, Auv3!Working
<1> QED BY <1>1, <1>2, PTL

\* While it renders, what AUv3's processor sounds has a name.
Auv3Sounds == "voices" \in DOMAIN kernel /\ (ready => kernel.voices \subseteq names)

\* Every step keeps it so.
LEMMA Auv3SoundsOn == Auv3!Init /\ [][Auv3!Next]_(Auv3!auv3Vars) => []Auv3Sounds
<1>1. Auv3!Init => Auv3Sounds
  BY DEF Auv3!Init, Auv3Sounds, Auv3!NewKernel
<1>2. Auv3Inv /\ Auv3Sounds /\ [Auv3!Next]_(Auv3!auv3Vars) => Auv3Sounds'
  <2> SUFFICES ASSUME Auv3Inv, Auv3Sounds, [Auv3!Next]_(Auv3!auv3Vars) PROVE Auv3Sounds'
    OBVIOUS
  <2>1. ASSUME UNCHANGED <<kernel, ready, names>> PROVE Auv3Sounds'
    BY <2>1 DEF Auv3Sounds
  <2>2. CASE Auv3!Allocate
    BY <2>2 DEF Auv3!Allocate, Auv3!Initialized, Auv3!Configure, Auv3Sounds
  <2>3. CASE Auv3!Deallocate
    BY <2>3 DEF Auv3!Deallocate, Auv3!DeInitialized, Auv3Sounds
  <2>4. CASE Auv3!TellLatency \/ Auv3!ReadLatency \/ Auv3!Reset \/ Auv3!SetRenderingOffline
    BY <2>4, <2>1 DEF Auv3!TellLatency, Auv3!ReadLatency, Auv3!Reset, Auv3!SetRenderingOffline, Auv3!render
  <2>5. ASSUME NEW on \in BOOLEAN, Auv3!SetBypass(on) PROVE Auv3Sounds'
    BY <2>5, <2>1 DEF Auv3!SetBypass, Auv3!render
  <2>6. ASSUME UNCHANGED Auv3!rest PROVE Auv3Sounds'
    BY <2>1, <2>6 DEF Auv3!rest, Auv3!render
  <2>7. ASSUME NEW v \in Values, Auv3!SetParameter(v) \/ Auv3!LoadOnMain(v) \/ Auv3!SetFullState(v) PROVE Auv3Sounds'
    BY <2>7, <2>6 DEF Auv3!SetParameter, Auv3!LoadOnMain, Auv3!SetFullState
  <2>8. CASE Auv3!ParameterStored \/ Auv3!ApplyPending
    BY <2>8, <2>6 DEF Auv3!ParameterStored, Auv3!ApplyPending
  <2>9. ASSUME NEW events_, Auv3!BeginBlock(events_) PROVE Auv3Sounds'
    <3> DEFINE plan == Auv3!SyncPlan(sync, Auv3!Facts3)
               k1 == IF accepted = None THEN kernel ELSE Auv3!Adopt(kernel, accepted)
               k2 == IF changes = None THEN k1 ELSE Auv3!Set(k1, changes)
               k3 == IF plan = "none" THEN k2 ELSE Auv3!Restart(k2, Auv3!RestartValue(events_))
    <3>1. kernel' = k3 /\ names' = (IF plan = "stream" THEN {} ELSE names) /\ UNCHANGED ready
      BY <2>9, Zenon DEF Auv3!BeginBlock
    <3>2. "voices" \in DOMAIN k2 /\ k2.voices = kernel.voices
      BY DEF Auv3Sounds, Auv3!Adopt, Auv3!Set
    <3>3. k3 = IF plan = "none" THEN k2 ELSE Auv3!Restart(k2, Auv3!RestartValue(events_))
      OBVIOUS
    <3> HIDE DEF plan, k1, k2, k3
    <3>4. "voices" \in DOMAIN k3 /\ (IF plan = "none" THEN k3.voices = kernel.voices ELSE k3.voices = {})
      BY <3>2, <3>3 DEF Auv3!Restart
    <3> QED BY <3>1, <3>4 DEF Auv3Sounds
  <2>10. CASE Auv3!ProcessSlice
    BY <2>10 DEF Auv3!ProcessSlice, Auv3!Slice, Auv3!still, Auv3!Miss, Auv3!Hear, Auv3Sounds
  <2>11. CASE Auv3!HandleEvent
    <3> DEFINE e == Head(block.events)
    <3>1. e.kind \in {"set", "ramp", "on", "off"}
      <4>1. e \in Auv3!Event3
        BY <2>11 DEF Auv3Inv, Auv3!HandleEvent
      <4> QED BY <4>1 DEF Auv3!Event3
    <3>2. /\ kernel' = CASE e.kind \in {"set", "ramp"} -> Auv3!Set(kernel, e.value)
                         [] e.kind = "on" -> Auv3!NoteOn(kernel, e.value)
                         [] e.kind = "off" -> IF e.value \in names THEN Auv3!NoteOff(kernel, e.value) ELSE kernel
          /\ names' = CASE e.kind = "on" -> names \cup {e.value} [] e.kind = "off" -> names \ {e.value}
                        [] OTHER -> names
          /\ UNCHANGED ready
      BY <2>11, Zenon DEF Auv3!HandleEvent, Auv3!still
    <3> HIDE DEF e
    <3>3. CASE e.kind \in {"set", "ramp"}
      BY <3>2, <3>3 DEF Auv3Sounds, Auv3!Set
    <3>4. CASE e.kind = "on"
      BY <3>2, <3>4 DEF Auv3Sounds, Auv3!NoteOn
    <3>5. CASE e.kind = "off"
      BY <3>2, <3>5 DEF Auv3Sounds, Auv3!NoteOff
    <3> QED BY <3>1, <3>3, <3>4, <3>5
  <2>12. CASE Auv3!EndBlock
    BY <2>12, <2>1 DEF Auv3!EndBlock, Auv3!still
  <2>13. CASE UNCHANGED Auv3!auv3Vars
    BY <2>13, <2>1 DEF Auv3!auv3Vars
  <2> QED BY <2>2, <2>3, <2>4, <2>5, <2>7, <2>8, <2>9, <2>10, <2>11, <2>12, <2>13
          DEF Auv3!Next, Auv3!Working
<1> QED BY <1>1, <1>2, Auv3Invariance, PTL

\* What waits is what was chosen last.
Auv3Loads == (pendingLoad # None => chosen = pendingLoad) /\ Auv3!LastLoadStays

LEMMA Auv3LoadsInvariance == Auv3!Init /\ [][Auv3!Next]_(Auv3!auv3Vars) => []Auv3Loads
<1>1. Auv3!Init => Auv3Loads
  BY DEF Auv3!Init, Auv3Loads, Auv3!LastLoadStays
<1>2. Auv3Loads /\ [Auv3!Next]_(Auv3!auv3Vars) => Auv3Loads'
  <2> SUFFICES ASSUME Auv3Loads, [Auv3!Next]_(Auv3!auv3Vars) PROVE Auv3Loads'
    OBVIOUS
  <2>1. ASSUME UNCHANGED Auv3!loads PROVE Auv3Loads'
    BY <2>1 DEF Auv3Loads, Auv3!LastLoadStays, Auv3!loads
  <2>2. CASE \/ Auv3!Allocate \/ Auv3!Deallocate \/ Auv3!TellLatency \/ Auv3!ReadLatency \/ Auv3!Reset
             \/ Auv3!SetRenderingOffline
    BY <2>1, <2>2 DEF Auv3!Allocate, Auv3!Deallocate, Auv3!TellLatency, Auv3!ReadLatency, Auv3!Reset,
                      Auv3!SetRenderingOffline
  <2>3. ASSUME NEW on \in BOOLEAN, Auv3!SetBypass(on) PROVE Auv3Loads'
    BY <2>1, <2>3 DEF Auv3!SetBypass
  <2>4. ASSUME NEW v \in Values, Auv3!SetParameter(v) PROVE Auv3Loads'
    BY <2>1, <2>4 DEF Auv3!SetParameter
  <2>5. ASSUME NEW v \in Values, Auv3!LoadOnMain(v) \/ Auv3!SetFullState(v) PROVE Auv3Loads'
    BY <2>5, NoneApart DEF Auv3!LoadOnMain, Auv3!SetFullState, Auv3Loads, Auv3!LastLoadStays
  <2>6. CASE Auv3!ParameterStored
    BY <2>1, <2>6 DEF Auv3!ParameterStored
  <2>7. CASE Auv3!ApplyPending
    BY <2>7 DEF Auv3!ApplyPending, Auv3Loads, Auv3!LastLoadStays
  <2>8. ASSUME NEW events_ \in {<<>>} \cup {<<e>> : e \in Auv3!Event3}, Auv3!BeginBlock(events_) PROVE Auv3Loads'
    BY <2>1, <2>8 DEF Auv3!BeginBlock
  <2>9. CASE Auv3!Working
    BY <2>1, <2>9 DEF Auv3!Working, Auv3!ProcessSlice, Auv3!HandleEvent, Auv3!EndBlock, Auv3!still
  <2>10. CASE UNCHANGED Auv3!auv3Vars
    BY <2>1, <2>10 DEF Auv3!auv3Vars
  <2> QED BY <2>2, <2>3, <2>4, <2>5, <2>6, <2>7, <2>8, <2>9, <2>10 DEF Auv3!Next
<1> QED BY <1>1, <1>2, PTL

\* The same of AUv3, whose slices propose within a render.
Auv3Latency ==
    /\ Handshake /\ hostValue \in Values
    /\ main = Auv3!Idle \/ main.value \in Values
    /\ pendingLoad = None \/ pendingLoad \in Values
    /\ ready => bypass.max = Top /\ Answers
    /\ ~ready => pending = None /\ accepted = None

LEMMA Auv3Latencies == Auv3!Init /\ [][Auv3!Next]_(Auv3!auv3Vars) => []Auv3Latency
<1> USE DEF Auv3!Latency
<1>1. Auv3!Init => Auv3Latency
  BY LatenciesBounded DEF Auv3!Init, Auv3Latency, Handshake, Answers, Optional, Auv3!NewKernel, Auv3!NewBypass
<1>2. Auv3Inv /\ Auv3Latency /\ [Auv3!Next]_(Auv3!auv3Vars) => Auv3Latency'
  <2> SUFFICES ASSUME Auv3Inv, Auv3Latency, [Auv3!Next]_(Auv3!auv3Vars) PROVE Auv3Latency'
    OBVIOUS
  <2> DEFINE Typed == /\ hostValue \in Values /\ (main = Auv3!Idle \/ main.value \in Values)
                      /\ pendingLoad = None \/ pendingLoad \in Values
  <2>1. ASSUME UNCHANGED <<kernel, latency, pending, accepted, ready>>, Typed',
               bypass' = bypass \/ \E on : bypass' = Auv3!SetBypassed(bypass, on)
        PROVE Auv3Latency'
    BY <2>1 DEF Auv3Latency, Handshake, Answers, Optional, Auv3!SetBypassed
  <2>2. ASSUME UNCHANGED <<hostValue, main, pendingLoad>> PROVE Typed'
    BY <2>2 DEF Auv3Latency
  <2> HIDE DEF Typed
  <2>3. CASE Auv3!Allocate
    <3>1. /\ latency' = hostValue /\ kernel' = Auv3!Configure(hostValue) /\ UNCHANGED <<pending, accepted>> /\ ready'
          /\ bypass' = Auv3!BypassConfigured(bypass, Top, hostValue) /\ pending = None /\ accepted = None
          /\ UNCHANGED <<hostValue, main, pendingLoad>>
      BY <2>3, Longest, Auv3Longest DEF Auv3Latency, Auv3!Allocate, Auv3!Initialized, Auv3!values, Auv3!loads
    <3>2. {"value", "latency"} \subseteq DOMAIN kernel' /\ kernel'.latency = hostValue
      BY <3>1 DEF Auv3!Configure
    <3>3. hostValue <= Top
      BY Longest, Auv3Longest DEF Auv3Latency
    <3>4. {"latency", "max"} \subseteq DOMAIN bypass' /\ bypass'.latency = hostValue /\ bypass'.max = Top
      BY <3>1, <3>3 DEF Auv3Latency, Handshake, Auv3!BypassConfigured, Auv3!SetLatency, Auv3!Snap
    <3> QED BY <3>1, <3>2, <3>4 DEF Auv3Latency, Handshake, Answers, Optional
  <2>4. CASE Auv3!Deallocate
    <3>1. UNCHANGED <<kernel, bypass, hostValue, main, pendingLoad>> /\ pending' = None /\ accepted' = None /\ ~ready'
      BY <2>4 DEF Auv3!Deallocate, Auv3!DeInitialized, Auv3!values, Auv3!loads
    <3> QED BY <3>1 DEF Auv3Latency, Handshake, Answers, Optional
  <2>5. CASE Auv3!ReadLatency
    <3>1. UNCHANGED <<kernel, bypass, ready, hostValue, main, pendingLoad>> /\ pending' = None
      BY <2>5 DEF Auv3!ReadLatency, Auv3!render, Auv3!values, Auv3!loads
    <3>2. CASE pending = None
      BY <2>5, <3>1, <3>2 DEF Auv3!ReadLatency, Auv3Latency, Handshake, Answers, Optional
    <3>3. CASE pending # None
      BY <2>5, <3>1, <3>3 DEF Auv3!ReadLatency, Auv3Latency, Handshake, Answers, Optional
    <3> QED BY <3>2, <3>3
  <2>6. CASE Auv3!TellLatency \/ Auv3!Reset \/ Auv3!SetRenderingOffline
    BY <2>6, <2>1, <2>2 DEF Auv3!TellLatency, Auv3!Reset, Auv3!SetRenderingOffline, Auv3!render, Auv3!handshake,
                            Auv3!values, Auv3!loads
  <2>7. ASSUME NEW on \in BOOLEAN, Auv3!SetBypass(on) PROVE Auv3Latency'
    BY <2>7, <2>1, <2>2 DEF Auv3!SetBypass, Auv3!render, Auv3!handshake, Auv3!values, Auv3!loads
  <2>8. ASSUME NEW v \in Values, Auv3!SetParameter(v) \/ Auv3!LoadOnMain(v) \/ Auv3!SetFullState(v) PROVE Auv3Latency'
    <3>1. UNCHANGED Auv3!rest /\ Typed'
      BY <2>8 DEF Auv3!SetParameter, Auv3!LoadOnMain, Auv3!SetFullState, Auv3!Change, Auv3!values, Auv3!loads, Auv3Latency, Typed
    <3> QED BY <2>1, <3>1 DEF Auv3!rest, Auv3!render, Auv3!handshake
  <2>9. CASE Auv3!ParameterStored \/ Auv3!ApplyPending
    <3>1. UNCHANGED Auv3!rest
      BY <2>9 DEF Auv3!ParameterStored, Auv3!ApplyPending
    <3>2. ASSUME Auv3!ParameterStored PROVE Typed'
      <4>1. main # Auv3!Idle /\ main' = Auv3!Idle /\ hostValue' = main.value /\ UNCHANGED pendingLoad
        <5>1. Auv3!Idle.at # main.at
          BY <3>2 DEF Auv3!ParameterStored, Auv3!Idle
        <5> QED BY <3>2, <5>1 DEF Auv3!ParameterStored, Auv3!loads
      <4>2. hostValue' \in Values /\ main' = Auv3!Idle
        BY <4>1 DEF Auv3Latency
      <4>3. pendingLoad' = None \/ pendingLoad' \in Values
        BY <4>1 DEF Auv3Latency
      <4> QED BY <4>2, <4>3 DEF Typed
    <3>3. ASSUME Auv3!ApplyPending PROVE Typed'
      <4>1. /\ pendingLoad # None /\ main' = [at |-> "set", value |-> pendingLoad] /\ pendingLoad' = None
            /\ UNCHANGED hostValue
        BY <3>3 DEF Auv3!ApplyPending, Auv3!Change
      <4>2. pendingLoad \in Values /\ hostValue \in Values
        BY <4>1 DEF Auv3Latency
      <4>3. hostValue' \in Values /\ main'.value \in Values
        BY <4>1, <4>2
      <4> QED BY <4>1, <4>3 DEF Typed
    <3> QED BY <2>1, <2>9, <3>1, <3>2, <3>3 DEF Auv3!rest, Auv3!render, Auv3!handshake
  <2>10. ASSUME NEW events_ \in {<<>>} \cup {<<e>> : e \in Auv3!Event3}, Auv3!BeginBlock(events_) PROVE Auv3Latency'
    <3> DEFINE plan == Auv3!SyncPlan(sync, Auv3!Facts3)
               k1 == IF accepted = None THEN kernel ELSE Auv3!Adopt(kernel, accepted)
               k2 == IF changes = None THEN k1 ELSE Auv3!Set(k1, changes)
               k3 == IF plan = "none" THEN k2 ELSE Auv3!Restart(k2, Auv3!RestartValue(events_))
               b1 == IF accepted = None THEN bypass ELSE Auv3!SetLatency(bypass, accepted)
               b2 == IF plan = "stream" THEN Auv3!Snap(b1) ELSE b1
    <3>1. /\ kernel' = k3 /\ bypass' = b2 /\ ready /\ accepted' = None
          /\ UNCHANGED <<latency, pending, ready, hostValue, main, pendingLoad>>
      BY <2>10 DEF Auv3!BeginBlock, Auv3!loads
    <3>2. {"value", "latency"} \subseteq DOMAIN k1 /\ k1.latency = latency
      BY <3>1 DEF Auv3Latency, Handshake, Answers, Auv3!Adopt
    <3>3. {"latency", "max"} \subseteq DOMAIN b1 /\ b1.latency = latency /\ b1.max = bypass.max
      BY <3>1 DEF Auv3Latency, Handshake, Answers, Optional, Auv3!SetLatency
    <3> HIDE DEF k1, b1, plan
    <3>4. {"value", "latency"} \subseteq DOMAIN k3 /\ k3.latency = latency
      BY <3>2 DEF Auv3!Set, Auv3!Restart
    <3>5. {"latency", "max"} \subseteq DOMAIN b2 /\ b2.latency = latency /\ b2.max = bypass.max
      BY <3>3 DEF Auv3!Snap
    <3> HIDE DEF k3, b2
    <3> QED BY <3>1, <3>4, <3>5 DEF Auv3Latency, Handshake, Answers, Optional
  <2> DEFINE Same(k) == {"value", "latency"} \subseteq DOMAIN k /\ k.latency = kernel.latency
  <2>11. CASE Auv3!ProcessSlice
    <3> DEFINE proposed == IF Auv3!CanSkip(bypass) THEN None ELSE Auv3!Proposal(kernel)
               tells == proposed \notin {None, reported} /\ Auv3!Admits(bypass, proposed)
    <3>1. /\ kernel' = (IF Auv3!CanSkip(bypass) THEN Auv3!Miss(kernel) ELSE Auv3!Hear(kernel))
          /\ bypass' = Auv3!BypassProcessed(bypass, TRUE) /\ pending' = (IF tells THEN proposed ELSE pending)
          /\ UNCHANGED <<latency, accepted, ready, hostValue, main, pendingLoad>>
      BY <2>11, Zenon DEF Auv3!ProcessSlice, Auv3!Slice, Auv3!still, Auv3!values, Auv3!loads
    <3>2. ready /\ bypass.max = Top
      BY <2>11 DEF Auv3Inv, Auv3Latency, Auv3!ProcessSlice
    <3>3. tells => proposed <= Top
      BY <3>2 DEF Auv3!Admits
    <3>4. Same(kernel')
      BY <3>1 DEF Auv3Latency, Handshake, Auv3!Miss, Auv3!Hear
    <3>5. {"latency", "max"} \subseteq DOMAIN bypass' /\ bypass'.latency = bypass.latency /\ bypass'.max = bypass.max
      BY <3>1 DEF Auv3Latency, Handshake, Auv3!BypassProcessed
    <3> HIDE DEF proposed, tells
    <3>6. Optional(pending')
      BY <3>1, <3>3 DEF Auv3Latency, Handshake, Optional
    <3> QED BY <3>1, <3>2, <3>4, <3>5, <3>6 DEF Auv3Latency, Handshake, Answers, Optional
  <2>12. CASE Auv3!HandleEvent
    <3> DEFINE e == Head(block.events)
    <3>1. e \in Auv3!Event3
      BY <2>12 DEF Auv3Inv, Auv3!HandleEvent
    <3>2. Same(kernel')
      BY <2>12, <3>1 DEF Auv3Latency, Handshake, Auv3!HandleEvent, Auv3!Event3, Auv3!Set, Auv3!NoteOn, Auv3!NoteOff
    <3>3. UNCHANGED <<bypass, latency, pending, accepted, ready, main, pendingLoad>>
      BY <2>12 DEF Auv3!HandleEvent, Auv3!still, Auv3!loads, Auv3!handshake
    <3>4. hostValue' \in Values
      BY <2>12, <3>1 DEF Auv3Latency, Auv3!HandleEvent, Auv3!Event3
    <3> QED BY <3>2, <3>3, <3>4 DEF Auv3Latency, Handshake, Answers, Optional
  <2>13. CASE Auv3!EndBlock
    BY <2>13, <2>1, <2>2 DEF Auv3!EndBlock, Auv3!still, Auv3!values, Auv3!loads, Auv3!handshake
  <2>14. CASE UNCHANGED Auv3!auv3Vars
    BY <2>14, <2>1, <2>2 DEF Auv3!auv3Vars, Auv3!values, Auv3!loads, Auv3!handshake
  <2> QED BY <2>3, <2>4, <2>5, <2>6, <2>7, <2>8, <2>9, <2>10, <2>11, <2>12, <2>13, <2>14 DEF Auv3!Next, Auv3!Working
<1> QED BY <1>1, <1>2, Auv3Invariance, PTL

\* Until a change waits, or what was delivered last was not stored last, AUv3's processor has the value meant.
Auv3Values == late \/ changes # None \/ kernel.value = Auv3!Meant

LEMMA Auv3ValuesMeet == Auv3!Init /\ [][Auv3!Next]_(Auv3!auv3Vars) => []Auv3Values
<1>1. Auv3!Init => Auv3Values
  BY DEF Auv3!Init, Auv3Values, Auv3!Meant, Auv3!NewKernel, Auv3!Idle
<1>2. Auv3Inv /\ Auv3Latency /\ Auv3Values /\ [Auv3!Next]_(Auv3!auv3Vars) => Auv3Values'
  <2> SUFFICES ASSUME Auv3Inv, Auv3Latency, Auv3Values, [Auv3!Next]_(Auv3!auv3Vars) PROVE Auv3Values'
    OBVIOUS
  <2>1. ASSUME UNCHANGED <<kernel, main, Auv3!values>> PROVE Auv3Values'
    BY <2>1 DEF Auv3Values, Auv3!Meant, Auv3!values
  <2>2. CASE Auv3!Allocate
    <3>1. kernel' = Auv3!Configure(hostValue) /\ main = Auv3!Idle /\ UNCHANGED <<main, hostValue>>
      BY <2>2 DEF Auv3!Allocate, Auv3!Initialized, Auv3!MainIsFree, Auv3!values
    <3> QED BY <3>1 DEF Auv3Values, Auv3!Meant, Auv3!Idle, Auv3!Configure
  <2>3. CASE Auv3!Deallocate \/ Auv3!TellLatency \/ Auv3!ReadLatency \/ Auv3!Reset \/ Auv3!SetRenderingOffline
    BY <2>3, <2>1 DEF Auv3!Deallocate, Auv3!TellLatency, Auv3!ReadLatency, Auv3!Reset, Auv3!SetRenderingOffline
  <2>4. ASSUME NEW on \in BOOLEAN, Auv3!SetBypass(on) PROVE Auv3Values'
    BY <2>4, <2>1 DEF Auv3!SetBypass
  <2>5. ASSUME NEW v \in Values, Auv3!SetParameter(v) \/ Auv3!LoadOnMain(v) \/ Auv3!SetFullState(v) PROVE Auv3Values'
    <3>1. CASE Auv3!SetParameter(v) \/ Auv3!LoadOnMain(v)
      BY <3>1, NoneApart DEF Auv3!SetParameter, Auv3!LoadOnMain, Auv3!Change, Auv3Values
    <3>2. CASE Auv3!SetFullState(v)
      BY <3>2, <2>1 DEF Auv3!SetFullState, Auv3!rest
    <3> QED BY <2>5, <3>1, <3>2
  <2>6. CASE Auv3!ParameterStored
    <3>1. /\ main.at = "set" /\ main' = Auv3!Idle /\ hostValue' = main.value /\ UNCHANGED <<kernel, changes, late>>
      BY <2>6 DEF Auv3!ParameterStored, Auv3!rest
    <3> QED BY <3>1 DEF Auv3Values, Auv3!Meant, Auv3!Idle
  <2>7. CASE Auv3!ApplyPending
    BY <2>7 DEF Auv3!ApplyPending, Auv3!Change, Auv3Values
  <2>8. ASSUME NEW events_, Auv3!BeginBlock(events_) PROVE Auv3Values'
    <3> DEFINE plan == Auv3!SyncPlan(sync, Auv3!Facts3)
               k1 == IF accepted = None THEN kernel ELSE Auv3!Adopt(kernel, accepted)
               k2 == IF changes = None THEN k1 ELSE Auv3!Set(k1, changes)
               k3 == IF plan = "none" THEN k2 ELSE Auv3!Restart(k2, Auv3!RestartValue(events_))
    <3>1. /\ kernel' = k3 /\ UNCHANGED <<main, hostValue>>
          /\ late' = (IF changes = None /\ plan = "none" THEN late ELSE k3.value # Auv3!Meant)
      BY <2>8, Zenon DEF Auv3!BeginBlock, Auv3!loads
    <3>2. k1.value = kernel.value
      BY DEF Auv3!Adopt
    <3>3. changes = None /\ plan = "none" => k3 = k1
      OBVIOUS
    <3> HIDE DEF plan, k1, k2, k3
    <3>4. Auv3!Meant' = Auv3!Meant
      BY <3>1 DEF Auv3!Meant
    <3> QED BY <3>1, <3>2, <3>3, <3>4, Zenon DEF Auv3Values
  <2>9. CASE Auv3!ProcessSlice
    <3>1. UNCHANGED <<main, Auv3!values>> /\ kernel' = (IF Auv3!CanSkip(bypass) THEN Auv3!Miss(kernel) ELSE Auv3!Hear(kernel))
      BY <2>9, Zenon DEF Auv3!ProcessSlice, Auv3!Slice, Auv3!still
    <3>2. kernel'.value = kernel.value
      BY <3>1 DEF Auv3!Miss, Auv3!Hear
    <3> QED BY <3>1, <3>2 DEF Auv3Values, Auv3!Meant, Auv3!values
  <2>10. CASE Auv3!HandleEvent
    <3> DEFINE e == Head(block.events)
    <3>1. e \in Auv3!Event3
      BY <2>10 DEF Auv3Inv, Auv3!HandleEvent
    <3>2. CASE e.kind \in {"set", "ramp"}
      <4>1. /\ kernel'.value = e.value /\ hostValue' = e.value /\ main' = main
            /\ late' = (main.at = "set" /\ main.value # e.value)
        BY <2>10, <3>2 DEF Auv3!HandleEvent, Auv3!still, Auv3!Set, Auv3Latency, Handshake
      <4> HIDE DEF e
      <4> QED BY <4>1 DEF Auv3Values, Auv3!Meant
    <3>3. CASE e.kind \notin {"set", "ramp"}
      <4>1. UNCHANGED <<main, Auv3!values>>
        BY <2>10, <3>3 DEF Auv3!HandleEvent, Auv3!still, Auv3!values
      <4>2. kernel'.value = kernel.value
        BY <2>10, <3>1, <3>3 DEF Auv3!HandleEvent, Auv3!Event3, Auv3!NoteOn, Auv3!NoteOff
      <4> QED BY <4>1, <4>2 DEF Auv3Values, Auv3!Meant, Auv3!values
    <3> QED BY <3>2, <3>3
  <2>11. CASE Auv3!EndBlock
    BY <2>11, <2>1 DEF Auv3!EndBlock, Auv3!still
  <2>12. CASE UNCHANGED Auv3!auv3Vars
    BY <2>12, <2>1 DEF Auv3!auv3Vars
  <2> QED BY <2>2, <2>3, <2>4, <2>5, <2>6, <2>7, <2>8, <2>9, <2>10, <2>11, <2>12 DEF Auv3!Next, Auv3!Working
<1> QED BY <1>1, <1>2, Auv3Invariance, Auv3Latencies, PTL

-----------------------------------------------------------------------------
(* Sessions, which are not proved about.                                     *)

\* Three parameters, the second one of the interface.
Saved == INSTANCE Session WITH Params <- 1 .. 3, Budget <- StateBudget, Budgets <- SessionPlans

----------------------------------------------------------------------------
(* What a behaviour is not about is absent from it.                          *)

NoNative == /\ kernel = None /\ sync = None /\ bypass = None /\ needsClear = None /\ offline = None /\ latency = None
            /\ reported = None /\ pending = None /\ accepted = None /\ names = None /\ pc = None /\ block = None
            /\ told = None /\ asked = None /\ late = None /\ quietly = None
NoClap == rate = None /\ fromFlush = None /\ fromLoad = None /\ fromUi = None /\ view = None /\ touched = None
NoVst3 == /\ running = None /\ loaded = None /\ wasMoving = None /\ didPeek = None /\ control = None
          /\ gestured = None /\ ui = None /\ uiQueue = None /\ half = None /\ toProcessor = None /\ query = None
          /\ swallowed = None
NoAuv2 == globals = None /\ queue = None /\ epoch = None /\ seen = None /\ pendingPreset = None
NoAuv3 == answer = None /\ switched = None
NoAax == /\ params = None /\ mirror = None /\ revision = None /\ dirty = None /\ segment = None /\ runtime = None
         /\ runtimeDirty = None /\ coefs = None /\ runtimePort = None /\ alg = None /\ ring = None /\ signal = None
         /\ notices = None /\ awaited = None /\ direct = None /\ cached = None /\ saver = None /\ counted = None
         /\ crossed = None
NoWeb == /\ linked = None /\ down = None /\ posts = None /\ landing = None /\ inbound = None /\ outbound = None
         /\ upPosts = None /\ toMain = None /\ processor = None /\ lostDown = None /\ lostUp = None
NoLoads == pendingLoad = None /\ chosen = None
NoChanges == ready = None /\ changes = None /\ applied = None

NoNotes == /\ held = None /\ next = None /\ inbox = None /\ bend = None /\ allOff = None /\ wasBypassed = None
           /\ passing = None /\ bypassed = None /\ skipped = None /\ outbox = None /\ slice = None /\ now = None
           /\ skipping = None /\ voices = None /\ toSend = None /\ sounding = None /\ events = None /\ blocks = None
           /\ turns = None /\ reset = None /\ spilled = None

NoSession == format = None /\ session = None /\ kept = None /\ load = None

ClapInit == /\ Clap!Init /\ NoVst3 /\ NoAuv2 /\ NoAuv3 /\ NoAax /\ NoWeb /\ NoLoads /\ NoChanges
            /\ posted = None /\ raced = None /\ host = None
Vst3Init == /\ Vst3!Init /\ NoClap /\ NoAuv2 /\ NoAuv3 /\ NoAax /\ NoWeb /\ NoLoads /\ NoChanges
            /\ needsResync = None /\ shown = None
Auv2Init == /\ Auv2!Init /\ NoClap /\ NoVst3 /\ NoAuv3 /\ NoAax /\ NoWeb
            /\ hostValue = None /\ active = None /\ shown = None /\ raced = None /\ host = None
Auv3Init == /\ Auv3!Init /\ NoClap /\ NoVst3 /\ NoAuv2 /\ NoAax /\ NoWeb
            /\ needsResync = None /\ active = None /\ shown = None /\ host = None
AaxInit == /\ Aax!Init /\ NoNative /\ NoClap /\ NoVst3 /\ NoAuv2 /\ NoAuv3 /\ NoWeb /\ NoChanges
           /\ hostValue = None /\ needsResync = None /\ active = None /\ shown = None /\ raced = None /\ host = None
WebInit == /\ Web!Init /\ NoNative /\ NoClap /\ NoVst3 /\ NoAuv2 /\ NoAuv3 /\ NoAax /\ NoLoads /\ NoChanges
           /\ main = None /\ posted = None /\ hostValue = None /\ needsResync = None /\ active = None /\ raced = None
NotesInit == /\ Note!Init /\ NoNative /\ NoClap /\ NoVst3 /\ NoAuv2 /\ NoAuv3 /\ NoAax /\ NoWeb /\ NoLoads /\ NoChanges
             /\ left = None /\ main = None /\ posted = None /\ hostValue = None /\ needsResync = None /\ active = None
             /\ shown = None /\ raced = None /\ host = None
SessionInit == /\ Saved!Init /\ NoNative /\ NoClap /\ NoVst3 /\ NoAuv2 /\ NoAuv3 /\ NoAax /\ NoWeb /\ NoLoads /\ NoChanges
               /\ main = None /\ posted = None /\ hostValue = None /\ needsResync = None /\ active = None
               /\ shown = None /\ raced = None /\ host = None

Init == /\ subject \in Subjects
        /\ \/ subject = "clap" /\ ClapInit /\ NoNotes /\ NoSession
           \/ subject = "vst3" /\ Vst3Init /\ NoNotes /\ NoSession
           \/ subject = "auv2" /\ Auv2Init /\ NoNotes /\ NoSession
           \/ subject = "auv3" /\ Auv3Init /\ NoNotes /\ NoSession
           \/ subject = "aax" /\ AaxInit /\ NoNotes /\ NoSession
           \/ subject = "web" /\ WebInit /\ NoNotes /\ NoSession
           \/ subject = "notes" /\ NotesInit /\ NoSession
           \/ subject = "session" /\ SessionInit /\ NoNotes

ClapOnly == subject = "clap" /\ UNCHANGED <<subject, notes, instance, posted, pendingLoad, chosen, ready, changes, applied, raced, host, vst3, auv2, auv3, aax, web>>
Vst3Only == subject = "vst3" /\ UNCHANGED <<subject, notes, instance, pendingLoad, chosen, ready, changes, applied, needsResync, shown, clap, auv2, auv3, aax, web>>
Auv2Only == subject = "auv2" /\ UNCHANGED <<subject, notes, instance, hostValue, active, shown, raced, host, clap, vst3, auv3, aax, web>>
Auv3Only == subject = "auv3" /\ UNCHANGED <<subject, notes, instance, needsResync, active, shown, host, clap, vst3, auv2, aax, web>>
AaxOnly == subject = "aax" /\ UNCHANGED <<subject, notes, instance, native, hostValue, ready, changes, applied, needsResync, active, shown, raced, host, clap, vst3,
                             auv2, auv3, web>>
WebOnly == subject = "web" /\ UNCHANGED <<subject, notes, instance, main, native, posted, pendingLoad, chosen, hostValue, ready, changes, applied, needsResync,
                             active, raced, clap, vst3, auv2, auv3, aax>>
NotesOnly == subject = "notes" /\ UNCHANGED <<subject, left, wrappers, instance>>
SessionOnly == subject = "session" /\ UNCHANGED <<subject, wrappers, notes>>

Next == \/ ClapOnly /\ Clap!Next
        \/ Vst3Only /\ Vst3!Next
        \/ Auv2Only /\ Auv2!Next
        \/ Auv3Only /\ Auv3!Next
        \/ AaxOnly /\ Aax!Next
        \/ WebOnly /\ Web!Next
        \/ NotesOnly /\ Note!Next
        \/ SessionOnly /\ Saved!Next

\* The fairness of each wrapper's Spec: as a behaviour is about one of them, one condition says it for all.
Steadily1 == \/ ClapOnly /\ Clap!Audio
             \/ Vst3Only /\ Vst3!Working
             \/ Auv2Only /\ Auv2!Working
             \/ Auv3Only /\ Auv3!Working
             \/ AaxOnly /\ Aax!UpdateStep
             \/ WebOnly /\ Web!Render(FALSE)
Steadily2 == \/ ClapOnly /\ Clap!Main
             \/ Vst3Only /\ Vst3!HostCalls
             \/ Auv2Only /\ Auv2!ParameterStored
             \/ Auv3Only /\ Auv3!ParameterStored
             \/ AaxOnly /\ Aax!AwaitAnswer
             \/ WebOnly /\ Web!Tick
Steadily3 == \/ Vst3Only /\ Vst3!TellLatency
             \/ Auv2Only /\ Auv2!Changed
             \/ Auv3Only /\ Auv3!Allocate
             \/ AaxOnly /\ Aax!DrainReturns
             \/ WebOnly /\ Web!PumpDown
Steadily4 == \/ Auv2Only /\ Auv2!Initialize
             \/ Auv3Only /\ Auv3!ReadLatency
             \/ AaxOnly /\ Aax!Deliver
             \/ WebOnly /\ Web!PumpUp
Steadily5 == \/ Auv2Only /\ Auv2!TellLatency
             \/ AaxOnly /\ Aax!SignalLatencyChanged
             \/ WebOnly /\ Web!PostDown
Steadily6 == \/ Auv2Only /\ Auv2!GetLatency
             \/ AaxOnly /\ Aax!Render(None)
             \/ WebOnly /\ Web!Land
Steadily7 == \/ AaxOnly /\ Aax!FirstInit
             \/ WebOnly /\ Web!PostUp
Steadily8 == WebOnly /\ Web!LandUp
Again1 == \/ ClapOnly /\ Clap!HostRestarts
          \/ Vst3Only /\ Vst3!Starts
          \/ Auv2Only /\ Auv2!Blocks
          \/ Auv3Only /\ Auv3!BeginBlock(<<>>)
          \/ AaxOnly /\ Aax!TimerWakeup
Again2 == \/ Vst3Only /\ Vst3!GetLatency
          \/ Auv2Only /\ Auv2!ApplyPending
          \/ Auv3Only /\ Auv3!ApplyPending
          \/ AaxOnly /\ Aax!GenerateCoefficients
Again3 == \/ Vst3Only /\ Vst3!TakesDown
          \/ Auv3Only /\ Auv3!TellLatency
Again4 == Vst3Only /\ Vst3!TakesUp

Spec == /\ Init /\ [][Next]_hostVars
        /\ WF_hostVars(Steadily1) /\ WF_hostVars(Steadily2) /\ WF_hostVars(Steadily3) /\ WF_hostVars(Steadily4)
        /\ WF_hostVars(Steadily5) /\ WF_hostVars(Steadily6) /\ WF_hostVars(Steadily7) /\ WF_hostVars(Steadily8)
        /\ SF_hostVars(Again1) /\ SF_hostVars(Again2) /\ SF_hostVars(Again3) /\ SF_hostVars(Again4)

----------------------------------------------------------------------------

HostsTyped ==
    /\ subject = "clap" => Clap!TypeOK
    /\ subject = "vst3" => Vst3!TypeOK
    /\ subject = "auv2" => Auv2!TypeOK
    /\ subject = "auv3" => Auv3!TypeOK
    /\ subject = "aax" => Aax!TypeOK
    /\ subject = "web" => Web!TypeOK
    /\ subject = "notes" => Note!TypeOK
    /\ subject = "session" => Saved!TypeOK

\* Host, editor and processor agree on a parameter's value once what was said of it has arrived, whichever
\* of them set it, and whatever was restarted, skipped or loaded on the way.
ValuesAgree ==
    /\ subject = "clap" => Clap!ValuesAgree
    /\ subject = "vst3" => Vst3!ValuesAgree /\ Vst3!EditorShows
    /\ subject = "auv2" => Auv2!ValuesAgree
    /\ subject = "auv3" => Auv3!ValuesAgree
    /\ subject = "aax" => Aax!ValuesAgree
    /\ subject = "web" => Web!ValuesAgree

\* The processor, the dry signal beside it and the host go by one latency while blocks are processed.
LatencyAgrees ==
    /\ subject = "clap" => Clap!LatencyAgrees
    /\ subject = "vst3" => Vst3!LatencyAgrees
    /\ subject = "auv2" => Auv2!LatencyAgrees
    /\ subject = "auv3" => Auv3!LatencyAgrees
    /\ subject = "aax" => Aax!LatencyAgrees
    /\ subject = "web" => Web!LatencyAgrees

\* After a gap it did not hear (a skip, a hold, a reset), the processor restarts before it runs.
NoStaleRun ==
    /\ subject = "clap" => Clap!NoStaleRun
    /\ subject = "vst3" => Vst3!NoStaleRun
    /\ subject = "auv2" => Auv2!NoStaleRun
    /\ subject = "auv3" => Auv3!NoStaleRun
    /\ subject = "aax" => Aax!NoStaleRun
    /\ subject = "web" => Web!NoStaleRun

\* Whatever the host, the editor and the bypass do, every voice is one the processor can be made to end, and a note
\* that sounds further down will be released; a member channel's bend is its notes'.  Through any wrapper, no note
\* sounds that its host cannot end, across restarts, resumes and deactivations.
NotesEnd ==
    /\ subject = "notes" => Note!VoicesNamed /\ Note!NothingHangs /\ Note!NotesBend
    /\ subject = "vst3" => Vst3!NotesHeld
    /\ subject = "auv2" => Auv2!NotesHeld
    /\ subject = "auv3" => Auv3!NotesHeld
    /\ subject = "aax" => Aax!NotesHeld
    /\ subject = "web" => Web!NotesHeld

\* The editor's notes and the host's never end each other.
SourcesApart == [][subject = "notes" => Note!SourcesApart]_hostVars

\* Loads that wait for main, and the chunks made of them: the load asked for last stays, and a cached
\* chunk is what the parameters say, and a save after a load answers with it.
LoadsStay ==
    /\ subject = "auv2" => Auv2!LastLoadStays
    /\ subject = "auv3" => Auv3!LastLoadStays
    /\ subject = "aax" => Aax!CacheHonest /\ Aax!SaveAfterLoad /\ Aax!LastLoadStays

\* Loading a session, of this build or another, whole or damaged, through any wrapper: both halves of the plug-in come
\* to hold it, one saved here returns as it was saved, nothing is left of the one before, and it is one step to undo.
SessionReturns ==
    subject = "session" =>
        /\ Saved!HalvesAgree /\ Saved!RestoresWhatItSaved /\ Saved!NothingLeftOver
        /\ Saved!OneStep /\ Saved!StepsMeet /\ Saved!CompareLightOff

\* A latency the processor wants is taken up in the end, and the host goes by it.
LatencyLands ==
    <>[](/\ subject = "clap" => Clap!LatencyLanded
         /\ subject = "vst3" => Vst3!LatencyLanded
         /\ subject = "auv2" => Auv2!LatencyLanded
         /\ subject = "auv3" => Auv3!LatencyLanded
         /\ subject = "aax" => Aax!LatencyLanded
         /\ subject = "web" => Web!LatencyLanded)

\* An offline render's processor, held until the host reaches the start, does start, even if it never does.
HoldEnds == []<>(subject = "auv2" => ~sync.holding)

\* What the wrappers owe their hosts arrives: the latency, and the start of an offline render.
Settles == LatencyLands /\ HoldEnds

-----------------------------------------------------------------------------
(* Proofs about all of them: a behaviour is of one, whose invariants it has. *)

\* The wrapper a behaviour is about.
About(wrapper) == subject = wrapper

\* A behaviour is about one wrapper, and is that wrapper's.
LEMMA EachOnly ==
    /\ Init => /\ (subject = "clap" => Clap!Init)
            /\ (subject = "vst3" => Vst3!Init)
            /\ (subject = "auv2" => Auv2!Init)
            /\ (subject = "auv3" => Auv3!Init)
            /\ (subject = "aax" => Aax!Init)
            /\ (subject = "web" => Web!Init)
            /\ (subject = "notes" => Note!Init)
    /\ [Next]_hostVars =>
          /\ subject' = subject
          /\ (subject = "clap" => [Clap!Next]_(Clap!clapVars))
          /\ (subject = "vst3" => [Vst3!Next]_(Vst3!vst3Vars))
          /\ (subject = "auv2" => [Auv2!Next]_(Auv2!auv2Vars))
          /\ (subject = "auv3" => [Auv3!Next]_(Auv3!auv3Vars))
          /\ (subject = "aax" => [Aax!Next]_(Aax!aaxVars))
          /\ (subject = "web" => [Web!Next]_(Web!webVars))
          /\ (subject = "notes" => [Note!Next]_(Note!nvars))
<1>1. Init => /\ (subject = "clap" => Clap!Init)
              /\ (subject = "vst3" => Vst3!Init)
              /\ (subject = "auv2" => Auv2!Init)
              /\ (subject = "auv3" => Auv3!Init)
              /\ (subject = "aax" => Aax!Init)
              /\ (subject = "web" => Web!Init)
              /\ (subject = "notes" => Note!Init)
  BY DEF Init, ClapInit, Vst3Init, Auv2Init, Auv3Init, AaxInit, WebInit, NotesInit
<1>2. ASSUME Next
      PROVE  /\ subject' = subject
             /\ (subject = "clap" => Clap!Next)
             /\ (subject = "vst3" => Vst3!Next)
             /\ (subject = "auv2" => Auv2!Next)
             /\ (subject = "auv3" => Auv3!Next)
             /\ (subject = "aax" => Aax!Next)
             /\ (subject = "web" => Web!Next)
             /\ (subject = "notes" => Note!Next)
  BY <1>2 DEF Next, ClapOnly, Vst3Only, Auv2Only, Auv3Only, AaxOnly, WebOnly, NotesOnly, SessionOnly
<1>3. ASSUME UNCHANGED hostVars
      PROVE  /\ subject' = subject
             /\ UNCHANGED Clap!clapVars /\ UNCHANGED Vst3!vst3Vars /\ UNCHANGED Auv2!auv2Vars
             /\ UNCHANGED Auv3!auv3Vars /\ UNCHANGED Aax!aaxVars /\ UNCHANGED Web!webVars
             /\ UNCHANGED Note!nvars
  <2> USE <1>3 DEF hostVars, wrappers, native, clap, vst3, auv2, auv3, aax, web
  <2>1. UNCHANGED Clap!clapVars
    BY DEF Clap!clapVars, Clap!values, Clap!handshake, Clap!hosted
  <2>2. UNCHANGED Vst3!vst3Vars
    BY DEF Vst3!vst3Vars, Vst3!values, Vst3!handshake, Vst3!hosted, Vst3!editor
  <2>3. UNCHANGED Auv2!auv2Vars
    BY DEF Auv2!auv2Vars, Auv2!values, Auv2!loads, Auv2!handshake
  <2>4. UNCHANGED Auv3!auv3Vars
    BY DEF Auv3!auv3Vars, Auv3!values, Auv3!loads, Auv3!handshake
  <2>5. UNCHANGED Aax!aaxVars
    BY DEF Aax!aaxVars, Aax!model, Aax!ports, Aax!latencies, Aax!chunks
  <2>6. UNCHANGED Web!webVars
    BY DEF Web!webVars, Web!downward, Web!upward
  <2>7. UNCHANGED Note!nvars
    BY DEF notes, Note!nvars
  <2> QED BY <2>1, <2>2, <2>3, <2>4, <2>5, <2>6, <2>7
<1> QED BY <1>1, <1>2, <1>3

\* A behaviour about one wrapper is one of that wrapper's, from beginning to end; the same of each.
LEMMA ClapBehaves == Spec => []~About("clap") \/ (Clap!Init /\ [][Clap!Next]_(Clap!clapVars))
<1>1. Init /\ About("clap") => Clap!Init
  BY EachOnly DEF About
<1>2. About("clap") /\ [Next]_hostVars => About("clap")' /\ [Clap!Next]_(Clap!clapVars)
  BY EachOnly DEF About
<1>3. ~About("clap") /\ [Next]_hostVars => ~About("clap")'
  BY EachOnly DEF About
<1> QED BY <1>1, <1>2, <1>3, PTL DEF Spec

LEMMA Vst3Behaves == Spec => []~About("vst3") \/ (Vst3!Init /\ [][Vst3!Next]_(Vst3!vst3Vars))
<1>1. Init /\ About("vst3") => Vst3!Init
  BY EachOnly DEF About
<1>2. About("vst3") /\ [Next]_hostVars => About("vst3")' /\ [Vst3!Next]_(Vst3!vst3Vars)
  BY EachOnly DEF About
<1>3. ~About("vst3") /\ [Next]_hostVars => ~About("vst3")'
  BY EachOnly DEF About
<1> QED BY <1>1, <1>2, <1>3, PTL DEF Spec

LEMMA Auv2Behaves == Spec => []~About("auv2") \/ (Auv2!Init /\ [][Auv2!Next]_(Auv2!auv2Vars))
<1>1. Init /\ About("auv2") => Auv2!Init
  BY EachOnly DEF About
<1>2. About("auv2") /\ [Next]_hostVars => About("auv2")' /\ [Auv2!Next]_(Auv2!auv2Vars)
  BY EachOnly DEF About
<1>3. ~About("auv2") /\ [Next]_hostVars => ~About("auv2")'
  BY EachOnly DEF About
<1> QED BY <1>1, <1>2, <1>3, PTL DEF Spec

LEMMA Auv3Behaves == Spec => []~About("auv3") \/ (Auv3!Init /\ [][Auv3!Next]_(Auv3!auv3Vars))
<1>1. Init /\ About("auv3") => Auv3!Init
  BY EachOnly DEF About
<1>2. About("auv3") /\ [Next]_hostVars => About("auv3")' /\ [Auv3!Next]_(Auv3!auv3Vars)
  BY EachOnly DEF About
<1>3. ~About("auv3") /\ [Next]_hostVars => ~About("auv3")'
  BY EachOnly DEF About
<1> QED BY <1>1, <1>2, <1>3, PTL DEF Spec

LEMMA AaxBehaves == Spec => []~About("aax") \/ (Aax!Init /\ [][Aax!Next]_(Aax!aaxVars))
<1>1. Init /\ About("aax") => Aax!Init
  BY EachOnly DEF About
<1>2. About("aax") /\ [Next]_hostVars => About("aax")' /\ [Aax!Next]_(Aax!aaxVars)
  BY EachOnly DEF About
<1>3. ~About("aax") /\ [Next]_hostVars => ~About("aax")'
  BY EachOnly DEF About
<1> QED BY <1>1, <1>2, <1>3, PTL DEF Spec

LEMMA WebBehaves == Spec => []~About("web") \/ (Web!Init /\ [][Web!Next]_(Web!webVars))
<1>1. Init /\ About("web") => Web!Init
  BY EachOnly DEF About
<1>2. About("web") /\ [Next]_hostVars => About("web")' /\ [Web!Next]_(Web!webVars)
  BY EachOnly DEF About
<1>3. ~About("web") /\ [Next]_hostVars => ~About("web")'
  BY EachOnly DEF About
<1> QED BY <1>1, <1>2, <1>3, PTL DEF Spec

\* What the invariants are for.
LEMMA NoneRunsStale ==
    /\ ClapInv => Clap!NoStaleRun
    /\ Vst3Inv => Vst3!NoStaleRun
    /\ Auv2Inv => Auv2!NoStaleRun
    /\ Auv3Inv => Auv3!NoStaleRun
    /\ AaxInv => Aax!NoStaleRun
    /\ WebInv => Web!NoStaleRun
<1>1. ClapInv => Clap!NoStaleRun
  BY DEF ClapInv, Clap!NoStaleRun, Clap!CanSkip, Clap!Runs, Clap!Branch
<1>2. Vst3Inv => Vst3!NoStaleRun
  BY DEF Vst3Inv, Vst3!NoStaleRun, Vst3!CanSkip, Vst3!Runs, Vst3!Branch
<1>3. Auv2Inv => Auv2!NoStaleRun
  BY DEF Auv2Inv, Auv2!NoStaleRun, Auv2!CanSkip, Auv2!Branch
<1>4. Auv3Inv => Auv3!NoStaleRun
  BY DEF Auv3Inv, Auv3!NoStaleRun, Auv3!CanSkip
<1>5. AaxInv => Aax!NoStaleRun
  BY DEF AaxInv
<1>6. WebInv => Web!NoStaleRun
  BY DEF WebInv
<1> QED BY <1>1, <1>2, <1>3, <1>4, <1>5, <1>6

\* Whatever the host does, in every format a processor that missed something (a block the bypass skipped,
\* an offline render's head, a reset) is restarted before it runs.
THEOREM ProcessorsRestart == Spec => []NoStaleRun
<1>1. Spec => [](About("clap") => ClapInv)
  BY ClapBehaves, ClapInvariance, PTL
<1>2. Spec => [](About("vst3") => Vst3Inv)
  BY Vst3Behaves, Vst3Invariance, PTL
<1>3. Spec => [](About("auv2") => Auv2Inv)
  BY Auv2Behaves, Auv2Invariance, PTL
<1>4. Spec => [](About("auv3") => Auv3Inv)
  BY Auv3Behaves, Auv3Invariance, PTL
<1>5. Spec => [](About("aax") => AaxInv)
  BY AaxBehaves, AaxInvariance, PTL
<1>6. Spec => [](About("web") => WebInv)
  BY WebBehaves, WebInvariance, PTL
<1>7. /\ (About("clap") => ClapInv)
      /\ (About("vst3") => Vst3Inv)
      /\ (About("auv2") => Auv2Inv)
      /\ (About("auv3") => Auv3Inv)
      /\ (About("aax") => AaxInv)
      /\ (About("web") => WebInv)
      => NoStaleRun
  BY NoneRunsStale DEF About, NoStaleRun
<1> QED BY <1>1, <1>2, <1>3, <1>4, <1>5, <1>6, <1>7, PTL

\* What was loaded, and what is saved.
LEMMA AaxLoadsStay == AaxLoads => Aax!CacheHonest /\ Aax!SaveAfterLoad /\ Aax!LastLoadStays
<1> SUFFICES ASSUME AaxLoads PROVE Aax!CacheHonest /\ Aax!SaveAfterLoad /\ Aax!LastLoadStays
  OBVIOUS
<1>1. Aax!CacheHonest
  <2> SUFFICES ASSUME Aax!MainIsFree, cached # None, cached.key = revision PROVE cached.image = mirror
    BY DEF Aax!CacheHonest
  <2>1. counted = mirror /\ Kept(mirror) /\ Between(cached.image)
    BY DEF AaxLoads, AaxCached
  <2> QED BY <2>1 DEF Between, Kept
<1>2. Aax!LastLoadStays
  BY AaxHoldsChosen DEF Aax!LastLoadStays, AaxLoads, AaxChosen
<1> QED BY <1>1, <1>2 DEF AaxLoads, AaxSaved

\* Whatever loads, presets, edits and saves come in whatever order, on main and off it, the load asked for last is
\* the one that stays; a cached chunk that is still answered with is what the parameters say; a save that main moves
\* nothing under answers with the last load, and one it does with values the state had meanwhile.
THEOREM LastLoadIsKept == Spec => []LoadsStay
<1>1. Spec => [](About("auv2") => Auv2Loads)
  BY Auv2Behaves, Auv2LoadsInvariance, PTL
<1>2. Spec => [](About("auv3") => Auv3Loads)
  BY Auv3Behaves, Auv3LoadsInvariance, PTL
<1>3. Spec => [](About("aax") => AaxLoads)
  BY AaxBehaves, AaxLoadsInvariance, PTL
<1>4. (About("auv2") => Auv2Loads) /\ (About("auv3") => Auv3Loads) /\ (About("aax") => AaxLoads) => LoadsStay
  BY AaxLoadsStay DEF About, LoadsStay, Auv2Loads, Auv3Loads
<1> QED BY <1>1, <1>2, <1>3, <1>4, PTL

\* Each of them says one latency.
LEMMA EachSaysOne ==
    /\ ClapInv /\ ClapLatency => Clap!LatencyAgrees
    /\ Vst3Inv /\ Vst3Latency => Vst3!LatencyAgrees
    /\ Auv2Inv /\ Auv2Latency => Auv2!LatencyAgrees
    /\ Auv3Inv /\ Auv3Latency => Auv3!LatencyAgrees
    /\ AaxLatency => Aax!LatencyAgrees
    /\ WebLatency => Web!LatencyAgrees
<1>1. ClapInv /\ ClapLatency => Clap!LatencyAgrees
  BY DEF ClapInv, ClapLatency, Handshake, Answers, Clap!LatencyAgrees
<1>2. Vst3Inv /\ Vst3Latency => Vst3!LatencyAgrees
  BY DEF Vst3Inv, Vst3Latency, Handshake, Answers, Vst3!LatencyAgrees
<1>3. Auv2Inv /\ Auv2Latency => Auv2!LatencyAgrees
  BY DEF Auv2Inv, Auv2Latency, Handshake, Answers, Auv2!LatencyAgrees
<1>4. Auv3Inv /\ Auv3Latency => Auv3!LatencyAgrees
  BY DEF Auv3Inv, Auv3Latency, Handshake, Answers, Auv3!LatencyAgrees
<1> QED BY <1>1, <1>2, <1>3, <1>4, AaxSaysOne, WebSaysOne

\* Whatever latencies the processor proposes, and however late or often the host answers, the processor and the dry
\* signal beside it are delayed alike, and the host (or the page) holds that latency once no answer is on its way.
THEOREM OneLatencyHolds == Spec => []LatencyAgrees
<1>1. Spec => [](About("clap") => ClapInv /\ ClapLatency)
  BY ClapBehaves, ClapLatencies, ClapInvariance, PTL
<1>2. Spec => [](About("vst3") => Vst3Inv /\ Vst3Latency)
  BY Vst3Behaves, Vst3Latencies, Vst3Invariance, PTL
<1>3. Spec => [](About("auv2") => Auv2Inv /\ Auv2Latency)
  BY Auv2Behaves, Auv2Latencies, Auv2Invariance, PTL
<1>4. Spec => [](About("auv3") => Auv3Inv /\ Auv3Latency)
  BY Auv3Behaves, Auv3Latencies, Auv3Invariance, PTL
<1>5. Spec => [](About("aax") => AaxLatency)
  BY AaxBehaves, AaxLatencies, PTL
<1>6. Spec => [](About("web") => WebLatency)
  BY WebBehaves, WebLatencies, PTL
<1>7. /\ (About("clap") => ClapInv /\ ClapLatency)
      /\ (About("vst3") => Vst3Inv /\ Vst3Latency)
      /\ (About("auv2") => Auv2Inv /\ Auv2Latency)
      /\ (About("auv3") => Auv3Inv /\ Auv3Latency)
      /\ (About("aax") => AaxLatency)
      /\ (About("web") => WebLatency)
      => LatencyAgrees
  BY EachSaysOne DEF About, LatencyAgrees
<1> QED BY <1>1, <1>2, <1>3, <1>4, <1>5, <1>6, <1>7, PTL

\* Each of them has one value once what was stored has arrived.
LEMMA EachMeets ==
    /\ ClapLatency /\ ClapValues => Clap!ValuesAgree
    /\ Vst3Values => Vst3!ValuesAgree /\ Vst3!EditorShows
    /\ Auv2Settles => Auv2!ValuesAgree
    /\ Auv3Values => Auv3!ValuesAgree
    /\ AaxSent /\ AaxTaken => Aax!ValuesAgree
    /\ WebValues => Web!ValuesAgree
<1>1. ClapLatency /\ ClapValues => Clap!ValuesAgree
  BY NoneApart DEF ClapLatency, ClapValues, Clap!ValuesAgree, Clap!Settled, Clap!UiOnItsWay, Clap!FlushOnItsWay,
                   Clap!LoadOnItsWay
<1>2. Vst3Values => Vst3!ValuesAgree /\ Vst3!EditorShows
  BY DEF Vst3Values, Vst3!ValuesAgree, Vst3!Settled, Vst3!MainIsFree, Vst3!Idle, Vst3!EditorShows
<1>3. Auv2Settles => Auv2!ValuesAgree
  BY DEF Auv2Settles, Auv2Waits, Auv2!Meant, Auv2!ValuesAgree, Auv2!Settled, Auv2!MainIsFree, Auv2!Idle
<1>4. Auv3Values => Auv3!ValuesAgree
  BY DEF Auv3Values, Auv3!Meant, Auv3!ValuesAgree, Auv3!Settled, Auv3!MainIsFree, Auv3!Idle
<1> QED BY <1>1, <1>2, <1>3, <1>4, AaxGoesBy, WebTakesIt

\* Whichever of the host, the editor and a load sets the value, and whatever is restarted, skipped or crosses it on
\* the way, the processor renders with what the wrapper holds once nothing is under way, and the VST3 editor shows it.
THEOREM ValuesMeet == Spec => []ValuesAgree
<1>1. Spec => [](About("clap") => ClapLatency /\ ClapValues)
  BY ClapBehaves, ClapLatencies, ClapValuesMeet, PTL
<1>2. Spec => [](About("vst3") => Vst3Values)
  BY Vst3Behaves, Vst3ValuesMeet, PTL
<1>3. Spec => [](About("auv2") => Auv2Settles)
  BY Auv2Behaves, Auv2ValuesMeet, PTL
<1>4. Spec => [](About("auv3") => Auv3Values)
  BY Auv3Behaves, Auv3ValuesMeet, PTL
<1>5. Spec => [](About("aax") => AaxSent /\ AaxTaken)
  BY AaxBehaves, AaxValuesMeet, PTL
<1>6. Spec => [](About("web") => WebValues)
  BY WebBehaves, WebValuesMeet, PTL
<1>7. /\ (About("clap") => ClapLatency /\ ClapValues)
      /\ (About("vst3") => Vst3Values)
      /\ (About("auv2") => Auv2Settles)
      /\ (About("auv3") => Auv3Values)
      /\ (About("aax") => AaxSent /\ AaxTaken)
      /\ (About("web") => WebValues)
      => ValuesAgree
  BY EachMeets DEF About, ValuesAgree
<1> QED BY <1>1, <1>2, <1>3, <1>4, <1>5, <1>6, <1>7, PTL

\* The same of the notes, whose behaviours no wrapper has a part in.
LEMMA NotesInvariant == Spec => [](About("notes") => NoteInv)
<1>1. Init /\ About("notes") => Note!Init
  BY EachOnly DEF About
<1>2. About("notes") /\ [Next]_hostVars => About("notes")' /\ [Note!Next]_(Note!nvars)
  BY EachOnly DEF About
<1>3. ~About("notes") /\ [Next]_hostVars => ~About("notes")'
  BY EachOnly DEF About
<1> QED BY <1>1, <1>2, <1>3, NotesInvariance, PTL DEF Spec

\* However the editor's notes, the host's, its wildcards and bends, the bypass, the resets and the slices of a block
\* follow one another, every voice can be ended, and every note sent on will be; and through any wrapper, with its
\* restarts, resumes, skips and deactivations, the processor sounds only what the host can end.
THEOREM EveryNoteEnds == Spec => []NotesEnd
<1>1. Spec => [](About("vst3") => Vst3Sounds)
  BY Vst3Behaves, Vst3SoundsOn, PTL
<1>2. Spec => [](About("auv2") => Auv2Sounds)
  BY Auv2Behaves, Auv2SoundsOn, PTL
<1>3. Spec => [](About("auv3") => Auv3Sounds)
  BY Auv3Behaves, Auv3SoundsOn, PTL
<1>4. Spec => [](About("aax") => AaxSounds)
  BY AaxBehaves, AaxSoundsOn, PTL
<1>5. Spec => [](About("web") => WebSounds)
  BY WebBehaves, WebSoundsOn, PTL
<1>6. /\ (About("notes") => NoteInv)
      /\ (About("vst3") => Vst3Sounds)
      /\ (About("auv2") => Auv2Sounds)
      /\ (About("auv3") => Auv3Sounds)
      /\ (About("aax") => AaxSounds)
      /\ (About("web") => WebSounds)
      => NotesEnd
  <2>1. Vst3Sounds => Vst3!NotesHeld
    BY DEF Vst3Sounds, Vst3!NotesHeld
  <2>2. Auv2Sounds => Auv2!NotesHeld
    BY DEF Auv2Sounds, Auv2!NotesHeld
  <2>3. Auv3Sounds => Auv3!NotesHeld
    BY DEF Auv3Sounds, Auv3!NotesHeld
  <2>4. AaxSounds => Aax!NotesHeld
    BY DEF AaxSounds, AaxNamed, Aax!NotesHeld
  <2>5. WebSounds => Web!NotesHeld
    BY DEF WebSounds, WebNamed, Web!NotesHeld
  <2> QED BY <2>1, <2>2, <2>3, <2>4, <2>5, NotesCanEnd DEF About, NotesEnd
<1> QED BY <1>1, <1>2, <1>3, <1>4, <1>5, <1>6, NotesInvariant, PTL

\* A note the editor plays and one the host plays never end each other, on whatever channel and key, unless the
\* stream is reset.
THEOREM SourcesStayApart == Spec => SourcesApart
<1>1. (About("notes") => NoteInv) /\ [Next]_hostVars => [subject = "notes" => Note!SourcesApart]_hostVars
  BY EachOnly, NotesApart DEF About
<1> QED BY <1>1, NotesInvariant, PTL DEF Spec, SourcesApart
=============================================================================
