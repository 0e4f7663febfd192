---------------------------- MODULE MC_Processor ----------------------------
(* What a processor's block exchanges with the editor: its state, the meters *)
(* and the blocks it shows; and the rings and stores that carry them where    *)
(* the two share no memory.  A behaviour is about one of these.  What the     *)
(* requester and the processor write matters little here: one patch, one load *)
(* and one write are told apart by their history numbers.                     *)
EXTENDS ProcessorSide, SequenceTheorems, TLAPS

CONSTANTS c1, c2, x, y,
          MaxLevel, Room, MaxMeterBlocks, MaxMoves,
          MaxFrames, MaxPublishes, MaxBounces, MaxMessages,
          Capacity, Sizes, MaxEntries, Words, MaxCopies, MaxWipes

VARIABLES subject,
          policy, route, scratch, previous, heldPeak, wire, hostLast, slot, lastPost, seen, posting, taking, shown,
          rendered, moves, owedPeak, credit,
          way, staging, pending, outgoing, fetched, relay, messages, port, frame, isNew, publishes, bounces, transmitted,
          news,
          ringPath, cells, written, unread, filling, draining, tried, pushed, heard,
          storePath, sequence, halves, storing, copying, accepted, given, lastSeen, published, wipes

Meter == INSTANCE Meters WITH MaxBlocks <- MaxMeterBlocks, reading <- taking
Frame == INSTANCE Blocks WITH MaxEdits <- MaxFrames, outbox <- outgoing, fresh <- isNew
Ring == INSTANCE ByteRing WITH Kinds <- {"main", "work"}, path <- ringPath, data <- cells, write <- written,
                               read <- unread
Stored == INSTANCE BlockStore WITH MaxPublishes <- MaxCopies, path <- storePath, seq <- sequence, slots <- halves,
                                   filling <- storing, got <- accepted, seen <- lastSeen

Doc(in1, in2) == [c \in {c1, c2} |-> IF c = c1 THEN in1 ELSE in2]

LoadsAndMerge == {[op |-> "reset", desired |-> Doc(y, y), seq |-> 0, apply |-> "Overwrite"],
                  [op |-> "patch", expected |-> Doc(x, x), desired |-> Doc(x, y), seq |-> 1,
                   apply |-> "Merge", seen |-> 0]}
OneWrite == {<<c1, y>>}

meterVars == <<policy, route, scratch, previous, heldPeak, wire, hostLast, slot, lastPost, seen, posting, taking, shown,
           rendered, moves, owedPeak, credit>>
blockVars == <<way, staging, pending, outgoing, fetched, relay, messages, port, frame, isNew, publishes, bounces,
           transmitted, news>>

ringVars == <<ringPath, cells, written, unread, filling, draining, tried, pushed, heard>>
storeVars == <<storePath, sequence, halves, storing, copying, accepted, given, lastSeen, published, wipes>>
wireVars == <<ringVars, storeVars>>

MCInit == /\ PInit /\ Meter!Init /\ Frame!Init /\ Ring!Init /\ Stored!Init
          /\ subject \in {"state", "meter", "block", "ring", "store"}
          \* What a behaviour is not about starts in one way.
          /\ subject = "meter" \/ (policy = "peak" /\ route = "direct")
          /\ subject = "block" \/ way = "post"
          /\ subject = "ring" \/ ringPath = "split"
          /\ subject = "store" \/ storePath = "direct"

MCNext == /\ UNCHANGED subject
          /\ \/ subject = "state" /\ PNext /\ UNCHANGED <<meterVars, blockVars, wireVars>>
             \/ subject = "meter" /\ Meter!Next /\ UNCHANGED <<pvars, blockVars, wireVars>>
             \/ subject = "block" /\ Frame!Next /\ UNCHANGED <<pvars, meterVars, wireVars>>
             \/ subject = "ring" /\ Ring!Next /\ UNCHANGED <<pvars, meterVars, blockVars, storeVars>>
             \/ subject = "store" /\ Stored!Next /\ UNCHANGED <<pvars, meterVars, blockVars, ringVars>>

mcvars == <<subject, pvars, meterVars, blockVars, wireVars>>

\* Blocks come and run on, calls return, a timer or the pump's thread wakes, the editor draws and the worker cycles, and
\* what is on its way moves on.
Carries == \/ subject = "meter" /\ Meter!Carries /\ UNCHANGED <<subject, pvars, blockVars, wireVars>>
           \/ subject = "block" /\ Frame!Carries /\ UNCHANGED <<subject, pvars, meterVars, wireVars>>
           \/ subject = "ring" /\ (Ring!Fills \/ Ring!Drains("near") \/ Ring!Pumps)
              /\ UNCHANGED <<subject, pvars, meterVars, blockVars, storeVars>>
           \/ subject = "store" /\ (Stored!Fills \/ \E s \in Stored!Stores : Stored!Fetches(s))
              /\ UNCHANGED <<subject, pvars, meterVars, blockVars, ringVars>>
Draws == \/ subject = "meter" /\ Meter!Draws /\ UNCHANGED <<subject, pvars, blockVars, wireVars>>
         \/ subject = "block" /\ Frame!Draw /\ UNCHANGED <<subject, pvars, meterVars, wireVars>>
         \/ subject = "ring" /\ (\E k \in {"main", "work"} : Ring!Drains(k))
            /\ UNCHANGED <<subject, pvars, meterVars, blockVars, storeVars>>
Measures == subject = "meter" /\ Meter!Goes /\ moves' = moves /\ UNCHANGED <<subject, pvars, blockVars, wireVars>>

MCSpec == /\ MCInit /\ [][MCNext]_mcvars
          /\ BlockRunsOn /\ CallsRunOn /\ Pumped
          /\ WF_mcvars(Carries) /\ WF_mcvars(Draws) /\ WF_mcvars(Measures)

\* The type invariants of the five.
ProcessorTyped == PTypeOK /\ Meter!TypeOK /\ Frame!TypeOK /\ Ring!TypeOK /\ Stored!TypeOK

\* What a snapshot, a draw or a ring's entry carries is what it was sent for: the change its tag counts, every peak at
\* its height, a trigger or a frame once at most; and no byte of a ring is overwritten before it was read.
CarriesWhatWas == CarriesItsChange /\ Meter!PeaksKept /\ Meter!TriggersOnce /\ Frame!NewsOnce /\ Ring!WholeInOrder

\* However often a wire refuses, the editor comes by the last of it: each change no session load has overtaken, the
\* value a stream meter was left at, the frame transmitted last, every entry a ring took.  And never by an older frame
\* after a newer: a store's remote reader takes whole frames, each the latest when it was taken.
LatestArrives == /\ EverythingSent
                 /\ [][Frame!NeverOlder]_mcvars
                 /\ Stored!Refines
                 /\ <>[](/\ (subject = "meter" => Meter!StreamRests)
                        /\ (subject = "block" => Frame!LatestRests)
                        /\ (subject = "ring" => Ring!AllHeard)
                        /\ (subject = "store" => Stored!LastArrives))

-----------------------------------------------------------------------------
(***************************************************************************)
(* Proofs.  The store and its side: for every set of cells and contents,   *)
(* whatever is requested, written and read, it is well typed, its three    *)
(* slots stay three, nobody shares the staged pair, and its outbound half  *)
(* is a latest-value register.  Processor_side is such a store, and what   *)
(* its pump sends holds every change its counter has counted.              *)
(***************************************************************************)

(* Type correctness *)

\* A patch merged into a document gives a document.
LEMMA MergeDoc ==
    ASSUME NEW dst \in Docs, NEW base \in Docs, NEW next \in Docs
    PROVE  Merge(dst, base, next) \in Docs
BY DEF Docs, Merge, Moved

\* The same for the history of what a cell was set to.
LEMMA MergeMoves ==
    ASSUME NEW dst \in [Cells -> Contents \cup {None}], NEW base \in Docs, NEW next \in Docs
    PROVE  Merge(dst, base, next) \in [Cells -> Contents \cup {None}]
BY DEF Docs, Merge, Moved

\* An Overwrite under way has a replacement left to count.
Counted == request # None => (request.apply = "Overwrite" => eras < MaxEra)

Typed == TypeOK /\ Counted

LEMMA BlankType == BlankPublished \in Published
BY StoreAssumption DEF BlankPublished, Published, BlankDoc, Docs, Seqs

LEMMA InitTyped == Init => Typed
<1> SUFFICES ASSUME Init PROVE Typed
  OBVIOUS
<1>1. BlankDoc \in Docs /\ BlankDoc \in [Cells -> Contents \cup {None}]
  BY StoreAssumption DEF BlankDoc, Docs
<1>2. staged \in Staged
  BY <1>1, StoreAssumption DEF Init, Staged, Seqs, Applies, Always
<1>n. {0, 1, 2} \subseteq 0 .. 2 /\ 0 \in 0 .. MaxEra
  BY StoreAssumption
<1>3. SlotsOK
  <2>1. storage \in [0 .. 2 -> Published]
    BY BlankType DEF Init
  <2> QED BY <1>n, <2>1, Zenon DEF Init, SlotsOK
<1>4. InboxOK
  BY <1>2 DEF Init, InboxOK
<1>5. AudioOK
  BY <1>n, Zenon DEF Init, AudioOK
<1>6. RequesterOK
  BY StoreAssumption DEF Init, RequesterOK, Seqs
<1>7. ReaderOK
  <2>1. saved \in [value : Docs, era : 0 .. MaxEra]
    BY <1>1, <1>n DEF Init
  <2> QED BY <1>n, <2>1, BlankType, Zenon DEF Init, ReaderOK
<1>8. Counted
  BY DEF Init, Counted
<1> QED BY <1>3, <1>4, <1>5, <1>6, <1>7, <1>8, Zenon DEF Typed, TypeOK

\* A part of the state that a step leaves alone stays well typed.
LEMMA Kept ==
    ASSUME Typed
    PROVE  /\ UNCHANGED slots => SlotsOK'
           /\ UNCHANGED inbox => InboxOK'
           /\ UNCHANGED audio => AudioOK'
           /\ UNCHANGED requester => RequesterOK' /\ Counted'
           /\ UNCHANGED reader => ReaderOK'
<1> USE DEF Typed, TypeOK
<1>1. ASSUME UNCHANGED slots PROVE SlotsOK'
  BY <1>1 DEF SlotsOK, slots
<1>2. ASSUME UNCHANGED inbox PROVE InboxOK'
  BY <1>2 DEF InboxOK, inbox
<1>3. ASSUME UNCHANGED audio PROVE AudioOK'
  BY <1>3 DEF AudioOK, audio
<1>4. ASSUME UNCHANGED requester PROVE RequesterOK' /\ Counted'
  BY <1>4 DEF RequesterOK, Counted, requester
<1>5. ASSUME UNCHANGED reader PROVE ReaderOK'
  BY <1>5 DEF ReaderOK, reader
<1> QED BY <1>1, <1>2, <1>3, <1>4, <1>5

\* The parts of Typed', put together.
LEMMA Together == SlotsOK' /\ InboxOK' /\ AudioOK' /\ RequesterOK' /\ Counted' /\ ReaderOK' => Typed'
BY DEF Typed, TypeOK

\* What a step of the audio thread leaves in the slot it writes is a record.
LEMMA ConsumeTyped ==
    ASSUME Typed, NEW record \in Published, Consume(record)
    PROVE  Typed'
<1>1. SlotsOK'
  BY DEF Consume, SlotsOK, Typed, TypeOK
<1>2. AudioOK'
  BY DEF Consume, AudioOK, Typed, TypeOK
<1>3. UNCHANGED <<inbox, requester, reader>>
  BY DEF Consume
<1> QED BY <1>1, <1>2, <1>3, Kept, Together

LEMMA FillTyped ==
    ASSUME Typed, NEW filled \in Staged, EndFill(filled)
    PROVE  Typed'
<1>1. request \in Patches \cup Resets
  BY StoreAssumption DEF EndFill, Typed, TypeOK, RequesterOK
<1>2. sent' \in Seqs
  BY <1>1, StoreAssumption DEF EndFill, Typed, TypeOK, RequesterOK, Patches, Resets, Seqs
<1>3. RequesterOK' /\ Counted'
  BY <1>2 DEF EndFill, RequesterOK, Counted, Typed, TypeOK, Staged
<1>4. InboxOK'
  BY DEF EndFill, InboxOK
<1>5. UNCHANGED <<slots, audio, reader>>
  BY DEF EndFill
<1> QED BY <1>3, <1>4, <1>5, Kept, Together

\* What the requester's call under way carries.
LEMMA RequestType ==
    ASSUME Typed, IsPatch
    PROVE  /\ request.expected \in Docs /\ request.desired \in Docs /\ request.seq \in Seqs
           /\ request.apply \in Applies /\ request.seen \in 0 .. Always
<1>1. request \in Patches
  BY StoreAssumption DEF IsPatch, Typed, TypeOK, RequesterOK, Resets
<1> QED BY <1>1, StoreAssumption DEF Patches, Seqs, Always

LEMMA ReplaceTyped ==
    ASSUME Typed, FillReplace
    PROVE  Typed'
<1>1. request \in Patches \cup Resets /\ request.apply = "Overwrite" /\ request # None
  BY StoreAssumption DEF FillReplace, Typed, TypeOK, RequesterOK
<1>2. request.desired \in Docs /\ request.seq \in Seqs
  BY <1>1, StoreAssumption DEF Patches, Resets, Seqs
<1>3. eras + 1 \in 0 .. MaxEra
  BY <1>1, StoreAssumption DEF Typed, TypeOK, Counted, RequesterOK
<1>4. request.desired \in [Cells -> Contents \cup {None}]
  BY <1>2 DEF Docs
<1> DEFINE filled == [desired |-> request.desired, expected |-> None, seq |-> request.seq,
                      apply |-> "Overwrite", seen |-> Always, era |-> eras + 1,
                      moves |-> request.desired]
<1>5. filled \in Staged
  BY <1>2, <1>3, <1>4, StoreAssumption DEF Staged, Applies, Always
<1>6. EndFill(filled)
  BY DEF FillReplace
<1> HIDE DEF filled
<1> QED BY <1>5, <1>6, FillTyped

\* What coalescing leaves staged is a staged patch.
LEMMA CoalesceTyped ==
    ASSUME Typed, FillCoalesce
    PROVE  Typed'
<1> DEFINE filled == [staged EXCEPT !.desired = Merge(@, request.expected, request.desired),
                                    !.seq = request.seq,
                                    !.apply = Stricter(@, request.apply),
                                    !.seen = IF request.seen < @ THEN request.seen ELSE @,
                                    !.moves = Merge(@, request.expected, request.desired)]
<1>1. IsPatch /\ EndFill(filled)
  BY DEF FillCoalesce
<1>2. /\ request.expected \in Docs /\ request.desired \in Docs /\ request.seq \in Seqs
      /\ request.apply \in Applies /\ request.seen \in 0 .. Always
  BY <1>1, RequestType
<1>3. staged \in Staged
  BY DEF Typed, TypeOK, InboxOK
<1>4. Merge(staged.desired, request.expected, request.desired) \in Docs
  BY <1>2, <1>3, MergeDoc DEF Staged
<1>5. Merge(staged.moves, request.expected, request.desired) \in [Cells -> Contents \cup {None}]
  BY <1>2, <1>3, MergeMoves DEF Staged
<1>6. Stricter(staged.apply, request.apply) \in Applies
  BY DEF Stricter, Applies
<1>7. filled \in Staged
  BY <1>2, <1>3, <1>4, <1>5, <1>6 DEF Staged
<1> HIDE DEF filled
<1> QED BY <1>1, <1>7, FillTyped

LEMMA SupersedeTyped ==
    ASSUME Typed, FillSupersede
    PROVE  Typed'
<1>1. IsPatch
  BY DEF FillSupersede
<1>2. /\ request.expected \in Docs /\ request.desired \in Docs /\ request.seq \in Seqs
      /\ request.apply \in Applies /\ request.seen \in 0 .. Always
  BY <1>1, RequestType
<1> DEFINE moved == [c \in Cells |-> IF c \in Moved(request.expected, request.desired)
                                     THEN request.desired[c] ELSE None]
           filled == [desired |-> request.desired, expected |-> request.expected,
                      seq |-> request.seq, apply |-> request.apply, seen |-> request.seen,
                      era |-> eras, moves |-> moved]
<1>3. moved \in [Cells -> Contents \cup {None}]
  BY <1>2 DEF Docs
<1>4. EndFill(filled)
  BY DEF FillSupersede
<1>5. eras \in 0 .. MaxEra
  BY DEF Typed, TypeOK, RequesterOK
<1> HIDE DEF moved
<1>6. filled \in Staged
  BY <1>2, <1>3, <1>5 DEF Staged
<1> HIDE DEF filled
<1> QED BY <1>4, <1>6, FillTyped

LEMMA AcquireTyped ==
    ASSUME Typed, Acquire
    PROVE  Typed'
<1>t. storage[back] \in Published /\ staged \in Staged
  BY DEF Typed, TypeOK, SlotsOK, InboxOK
<1>q. Acked(storage[back].applied) \in Seqs
  BY <1>t DEF Acked, Staged, Published
<1>a. CASE AcquireNothing
  <2>1. AudioOK'
    BY <1>a DEF AcquireNothing, AudioOK, Typed, TypeOK
  <2>2. UNCHANGED <<slots, inbox, requester, reader>>
    BY <1>a DEF AcquireNothing
  <2> QED BY <2>1, <2>2, Kept, Together
<1>b. CASE AcquireStaged
  <2>1. AudioOK'
    BY <1>b DEF AcquireStaged, AudioOK, Typed, TypeOK
  <2>2. InboxOK'
    BY <1>b DEF AcquireStaged, InboxOK, Typed, TypeOK
  <2>3. UNCHANGED <<slots, requester, reader>>
    BY <1>b DEF AcquireStaged
  <2> QED BY <2>1, <2>2, <2>3, Kept, Together
<1>c. CASE ApplyReplace
  <2>1. [storage[back] EXCEPT !.value = staged.desired, !.applied = Acked(@), !.era = staged.era]
            \in Published
    BY <1>t, <1>q DEF Staged, Published
  <2> QED BY <1>c, <2>1, ConsumeTyped DEF ApplyReplace
<1>d. CASE ApplyStale
  BY <1>d, <1>t, ConsumeTyped DEF ApplyStale
<1>e. CASE Refuse
  <2>1. [storage[back] EXCEPT !.rejected = staged.seq] \in Published
    BY <1>t DEF Staged, Published
  <2> QED BY <1>e, <2>1, ConsumeTyped DEF Refuse
<1>f. CASE ApplyMerge
  <2>1. staged.expected \in Docs
    BY <1>f, <1>t DEF ApplyMerge, IsReplace, Staged
  <2>2. Merge(storage[back].value, staged.expected, staged.desired) \in Docs
    BY <1>t, <2>1, MergeDoc DEF Staged, Published
  <2>3. [storage[back] EXCEPT !.value = Merge(@, staged.expected, staged.desired),
                              !.applied = Acked(@)] \in Published
    BY <1>t, <1>q, <2>2 DEF Published
  <2> QED BY <1>f, <2>3, ConsumeTyped DEF ApplyMerge
<1> QED BY <1>a, <1>b, <1>c, <1>d, <1>e, <1>f DEF Acquire

LEMMA MutateTyped ==
    ASSUME Typed, NEW w \in Writes, Mutate(w[1], w[2])
    PROVE  Typed'
<1>1. w[1] \in Cells /\ w[2] \in Contents
  BY StoreAssumption
<1>2. storage \in [0 .. 2 -> Published] /\ storage[back] \in Published
  BY DEF Typed, TypeOK, SlotsOK
<1>3. [storage[back] EXCEPT !.value[w[1]] = w[2]] \in Published
  BY <1>1, <1>2 DEF Published, Docs
<1>4. storage' \in [0 .. 2 -> Published]
  BY <1>2, <1>3 DEF Mutate
<1>5. SlotsOK'
  BY <1>4 DEF Mutate, SlotsOK, Typed, TypeOK
<1>6. AudioOK'
  BY DEF Mutate, AudioOK, Typed, TypeOK
<1>7. UNCHANGED <<inbox, requester, reader>>
  BY DEF Mutate
<1> QED BY <1>5, <1>6, <1>7, Kept, Together

LEMMA PublishTyped ==
    ASSUME Typed, Publish
    PROVE  Typed'
<1> USE DEF Typed, TypeOK
<1>a. CASE FinishClean
  <2>1. AudioOK' /\ UNCHANGED <<slots, inbox, requester, reader>>
    BY <1>a DEF FinishClean, AudioOK
  <2> QED BY <2>1, Kept, Together
<1>b. CASE PublishExchange
  <2>1. AudioOK' /\ UNCHANGED <<inbox, requester, reader>>
    BY <1>b DEF PublishExchange, AudioOK, SlotsOK
  <2>2. SlotsOK'
    BY <1>b DEF PublishExchange, SlotsOK
  <2> QED BY <2>1, <2>2, Kept, Together
<1>c. CASE PublishRecycle
  <2>1. AudioOK' /\ UNCHANGED <<inbox, requester, reader>>
    BY <1>c DEF PublishRecycle, AudioOK
  <2>2. SlotsOK'
    BY <1>c DEF PublishRecycle, SlotsOK, AudioOK
  <2> QED BY <2>1, <2>2, Kept, Together
<1>d. CASE Release
  <2>1. AudioOK' /\ UNCHANGED <<slots, requester, reader>>
    BY <1>d DEF Release, AudioOK
  <2>2. InboxOK'
    BY <1>d DEF Release, InboxOK
  <2> QED BY <2>1, <2>2, Kept, Together
<1> QED BY <1>a, <1>b, <1>c, <1>d DEF Publish

LEMMA RequestTyped ==
    ASSUME Typed, Request
    PROVE  Typed'
<1>1. PICK r \in Requests : (r.apply = "Overwrite" => eras < MaxEra) /\ BeginFill(r)
  BY DEF Request
<1>2. InboxOK'
  BY <1>1 DEF BeginFill, InboxOK, Typed, TypeOK
<1>3. RequesterOK' /\ Counted'
  BY <1>1 DEF BeginFill, RequesterOK, InboxOK, Counted, Typed, TypeOK
<1>4. UNCHANGED <<slots, audio, reader>>
  BY <1>1 DEF BeginFill
<1> QED BY <1>2, <1>3, <1>4, Kept, Together

LEMMA ReadTyped ==
    ASSUME Typed, Reader
    PROVE  Typed'
<1> USE DEF Typed, TypeOK
<1>t. staged \in Staged /\ storage[front] \in Published
  BY DEF SlotsOK, InboxOK
<1>a. CASE SaveStaged
  <2>1. InboxOK' /\ UNCHANGED <<slots, audio, requester>>
    BY <1>a DEF SaveStaged, InboxOK
  <2>2. ReaderOK'
    BY <1>a DEF SaveStaged, ReaderOK, RequesterOK
  <2> QED BY <2>1, <2>2, Kept, Together
<1>b. CASE SaveStagedEnd
  <2>1. InboxOK' /\ UNCHANGED <<slots, audio, requester>>
    BY <1>b DEF SaveStagedEnd, InboxOK
  <2>2. [value |-> staged.desired, era |-> staged.era] \in [value : Docs, era : 0 .. MaxEra]
    BY <1>t DEF Staged
  <2>3. ReaderOK'
    BY <1>b, <2>2 DEF SaveStagedEnd, ReaderOK
  <2> QED BY <2>1, <2>3, Kept, Together
<1>c. CASE SavePublished \/ Read \/ RotateLoad
  <2>1. UNCHANGED <<slots, inbox, audio, requester>>
    BY <1>c DEF SavePublished, Read, RotateLoad
  <2>2. ReaderOK'
    BY <1>c DEF SavePublished, Read, RotateLoad, ReaderOK, RequesterOK
  <2> QED BY <2>1, <2>2, Kept, Together
<1>d. CASE RotateExchange
  <2>1. SlotsOK' /\ UNCHANGED <<inbox, audio, requester>>
    BY <1>d DEF RotateExchange, SlotsOK
  <2>2. ReaderOK'
    BY <1>d DEF RotateExchange, ReaderOK
  <2> QED BY <2>1, <2>2, Kept, Together
<1>e. CASE Copy
  <2>1. got' \in Published
    BY <1>e, <1>t DEF Copy
  <2>2. saved' \in [value : Docs, era : 0 .. MaxEra]
    BY <1>e, <2>1 DEF Copy, Published, ReaderOK
  <2>3. ReaderOK' /\ UNCHANGED <<slots, inbox, audio, requester>>
    BY <1>e, <2>1, <2>2 DEF Copy, ReaderOK
  <2> QED BY <2>3, Kept, Together
<1> QED BY <1>a, <1>b, <1>c, <1>d, <1>e DEF Reader

LEMMA NextTyped == Typed /\ [Next]_vars => Typed'
<1> SUFFICES ASSUME Typed, [Next]_vars PROVE Typed'
  OBVIOUS
<1>1. CASE Fill
  BY <1>1, ReplaceTyped, CoalesceTyped, SupersedeTyped DEF Fill
<1>2. CASE UNCHANGED vars
  BY <1>2, Kept, Together DEF vars
<1> QED BY <1>1, <1>2, AcquireTyped, MutateTyped, PublishTyped, RequestTyped, ReadTyped DEF Next, Audio

\* The store is well typed, whatever is requested, written and read.
THEOREM TypeCorrect == Spec => []TypeOK
<1>1. Init => Typed
  BY InitTyped
<1>2. Typed /\ [Next]_vars => Typed'
  BY NextTyped
<1>3. Typed => TypeOK
  BY DEF Typed
<1> QED BY <1>1, <1>2, <1>3, PTL DEF Spec

-----------------------------------------------------------------------------
(* The slots and the staged pair *)

\* Where the three slots are.  Between its exchange and the end of its copy the
\* audio thread owns the slot it got back, and the one it just published is
\* whichever of the two words the reader has left it in.
Apart ==
    /\ block # "recycling" => back # ready /\ back # front
    /\ block = "recycling" => /\ prev # ready /\ prev # front
                              /\ back = IF fresh THEN ready ELSE front
    /\ ready # front
    /\ reading = "exchange" => fresh

\* The audio thread is between taking the pair and giving it back.
AudioIn == block = "applying" \/ (block \in {"open", "recycling", "published"} /\ applied)

\* What the word says of who is inside: "Taking" is the audio thread or a save,
\* and only one of them; "Filling" is the requester.
Inside ==
    /\ stage = "Taking" <=> AudioIn \/ reading = "staged"
    /\ ~(AudioIn /\ reading = "staged")
    /\ stage = "Filling" <=> request # None
    /\ block = "open" /\ applied => touched

IInv == Typed /\ Apart /\ Inside

LEMMA InitInv == Init => IInv
<1>1. Init => Apart /\ Inside
  BY DEF Init, Apart, Inside, AudioIn
<1> QED BY <1>1, InitTyped DEF IInv

\* Filling the pair moves no slot; afterwards the requester is out of it.
LEMMA FillInside ==
    ASSUME IInv, NEW filled, EndFill(filled)
    PROVE  Apart' /\ Inside'
<1>1. Apart'
  BY DEF IInv, Apart, EndFill, slots, audio, reader
<1>2. Inside'
  BY DEF IInv, Inside, AudioIn, EndFill, slots, audio, reader
<1> QED BY <1>1, <1>2

\* Applying the pair moves no slot and stays inside it.
LEMMA ConsumeInside ==
    ASSUME IInv, NEW record, Consume(record)
    PROVE  Apart' /\ Inside'
<1>1. Apart'
  BY DEF IInv, Apart, Consume, inbox, requester, reader
<1>2. Inside'
  BY DEF IInv, Inside, AudioIn, Consume, inbox, requester, reader
<1> QED BY <1>1, <1>2

LEMMA NextInside == IInv /\ [Next]_vars => Apart' /\ Inside'
<1> SUFFICES ASSUME IInv, [Next]_vars PROVE Apart' /\ Inside'
  OBVIOUS
<1> USE DEF IInv
<1>a. CASE AcquireNothing
  <2>1. Apart'
    BY <1>a DEF Apart, AcquireNothing, slots, inbox, requester, reader
  <2>2. Inside'
    BY <1>a DEF Inside, AudioIn, AcquireNothing, slots, inbox, requester, reader
  <2> QED BY <2>1, <2>2
<1>b. CASE AcquireStaged
  <2>1. Apart'
    BY <1>b DEF Apart, AcquireStaged, slots, requester, reader
  <2>2. Inside'
    BY <1>b DEF Inside, AudioIn, AcquireStaged, slots, requester, reader
  <2> QED BY <2>1, <2>2
<1>c. CASE ApplyReplace \/ ApplyStale \/ Refuse \/ ApplyMerge
  <2>1. PICK record : Consume(record)
    BY <1>c DEF ApplyReplace, ApplyStale, Refuse, ApplyMerge
  <2> QED BY <2>1, ConsumeInside
<1>d. ASSUME NEW w \in Writes, Mutate(w[1], w[2]) PROVE Apart' /\ Inside'
  <2>1. Apart'
    BY <1>d DEF Apart, Mutate, inbox, requester, reader
  <2>2. Inside'
    BY <1>d DEF Inside, AudioIn, Mutate, inbox, requester, reader
  <2> QED BY <2>1, <2>2
<1>e. CASE FinishClean
  <2>1. Apart'
    BY <1>e DEF Apart, FinishClean, slots, inbox, requester, reader
  <2>2. Inside'
    BY <1>e DEF Inside, AudioIn, FinishClean, slots, inbox, requester, reader
  <2> QED BY <2>1, <2>2
<1>f. CASE PublishExchange
  <2>1. Apart'
    BY <1>f DEF Apart, PublishExchange, inbox, requester, reader
  <2>2. Inside'
    BY <1>f DEF Inside, AudioIn, PublishExchange, inbox, requester, reader
  <2> QED BY <2>1, <2>2
<1>g. CASE PublishRecycle
  <2>1. Apart'
    BY <1>g DEF Apart, PublishRecycle, inbox, requester, reader
  <2>2. Inside'
    BY <1>g DEF Inside, AudioIn, PublishRecycle, inbox, requester, reader
  <2> QED BY <2>1, <2>2
<1>h. CASE Release
  <2>1. Apart'
    BY <1>h DEF Apart, Release, slots, requester, reader
  <2>2. Inside'
    BY <1>h DEF Inside, AudioIn, Release, slots, requester, reader
  <2> QED BY <2>1, <2>2
<1>i. CASE Request
  <2>1. PICK r \in Requests : BeginFill(r)
    BY <1>i DEF Request
  <2>2. r # None
    BY StoreAssumption
  <2>3. Apart'
    BY <2>1 DEF Apart, BeginFill, slots, audio, reader
  <2>4. Inside'
    BY <2>1, <2>2 DEF Inside, AudioIn, BeginFill, slots, audio, reader
  <2> QED BY <2>3, <2>4
<1>j. CASE Fill
  <2>1. PICK filled : EndFill(filled)
    BY <1>j DEF Fill, FillReplace, FillCoalesce, FillSupersede
  <2> QED BY <2>1, FillInside
<1>k. CASE SaveStaged
  <2>1. Apart'
    BY <1>k DEF Apart, SaveStaged, slots, audio, requester
  <2>2. Inside'
    BY <1>k DEF Inside, AudioIn, SaveStaged, slots, audio, requester
  <2> QED BY <2>1, <2>2
<1>l. CASE SaveStagedEnd
  <2>1. Apart'
    BY <1>l DEF Apart, SaveStagedEnd, slots, audio, requester
  <2>2. Inside'
    BY <1>l DEF Inside, AudioIn, SaveStagedEnd, slots, audio, requester
  <2> QED BY <2>1, <2>2
<1>m. CASE SavePublished \/ Read
  <2>1. Apart'
    BY <1>m DEF Apart, SavePublished, Read, slots, inbox, audio, requester
  <2>2. Inside'
    BY <1>m DEF Inside, AudioIn, SavePublished, Read, slots, inbox, audio, requester
  <2> QED BY <2>1, <2>2
<1>n. CASE RotateLoad
  <2>1. Apart'
    BY <1>n DEF Apart, RotateLoad, slots, inbox, audio, requester
  <2>2. Inside'
    BY <1>n DEF Inside, AudioIn, RotateLoad, slots, inbox, audio, requester
  <2> QED BY <2>1, <2>2
<1>o. CASE RotateExchange
  <2>1. Apart'
    BY <1>o DEF Apart, RotateExchange, inbox, audio, requester
  <2>2. Inside'
    BY <1>o DEF Inside, AudioIn, RotateExchange, inbox, audio, requester
  <2> QED BY <2>1, <2>2
<1>p. CASE Copy
  <2>1. Apart'
    BY <1>p DEF Apart, Copy, slots, inbox, audio, requester
  <2>2. Inside'
    BY <1>p DEF Inside, AudioIn, Copy, slots, inbox, audio, requester
  <2> QED BY <2>1, <2>2
<1>q. CASE UNCHANGED vars
  BY <1>q DEF Apart, Inside, AudioIn, vars, slots, inbox, audio, requester, reader
<1> QED BY <1>a, <1>b, <1>c, <1>d, <1>e, <1>f, <1>g, <1>h, <1>i, <1>j, <1>k, <1>l, <1>m,
           <1>n, <1>o, <1>p, <1>q
        DEF Next, Audio, Acquire, Publish, Reader

LEMMA Invariance == Spec => []IInv
<1>1. IInv /\ [Next]_vars => IInv'
  BY NextTyped, NextInside DEF IInv
<1> QED BY <1>1, InitInv, PTL DEF Spec

\* However the two exchanges fall, no slot is written while it is published or
\* being copied.
THEOREM ThreeSlots == Spec => []SlotsApart
<1>1. IInv => SlotsApart
  BY DEF IInv, Apart, SlotsApart, Writing
<1> QED BY <1>1, Invariance, PTL

\* The audio thread, the requester and a save are never inside the pair together.
THEOREM OneInThePair == Spec => []StagedApart
<1>1. IInv => StagedApart
  BY DEF IInv, Inside, AudioIn, StagedApart
<1> QED BY <1>1, Invariance, PTL

-----------------------------------------------------------------------------
(* The outbound half implements the latest-value register *)

\* A step that writes at most the audio thread's own slot shows the reader nothing.
LEMMA Hidden ==
    ASSUME Typed, NEW i \in 0 .. 2, i # ready, i # front, NEW record,
           storage' = [storage EXCEPT ![i] = record], UNCHANGED <<ready, fresh, front, got>>
    PROVE  UNCHANGED Outbound!lvvars
BY DEF Typed, TypeOK, SlotsOK, Newest, Outbound!lvvars

LEMMA StepRefines == IInv /\ IInv' /\ [Next]_vars => [Outbound!LVNext]_Outbound!lvvars
<1> SUFFICES ASSUME IInv, IInv', [Next]_vars PROVE [Outbound!LVNext]_Outbound!lvvars
  OBVIOUS
<1>t. Typed /\ Typed' /\ back \in 0 .. 2 /\ ready \in 0 .. 2 /\ front \in 0 .. 2 /\ prev \in 0 .. 2
      /\ storage \in [0 .. 2 -> Published] /\ storage' \in [0 .. 2 -> Published]
  BY DEF IInv, Typed, TypeOK, SlotsOK, AudioOK
<1>q. ASSUME UNCHANGED <<slots, got>> PROVE UNCHANGED Outbound!lvvars
  BY <1>q DEF slots, Newest, Outbound!lvvars
<1>a. CASE Acquire
  <2>1. CASE UNCHANGED <<slots, got>>
    BY <2>1, <1>q
  <2>2. CASE \E record : Consume(record)
    <3>1. PICK record : Consume(record)
      BY <2>2
    <3>2. back # ready /\ back # front /\ UNCHANGED got
      BY <3>1 DEF Consume, IInv, Apart, reader
    <3>3. storage' = [storage EXCEPT ![back] = record] /\ UNCHANGED <<ready, fresh, front>>
      BY <3>1 DEF Consume
    <3> QED BY <3>2, <3>3, <1>t, Hidden
  <2> QED BY <1>a, <2>1, <2>2
          DEF Acquire, AcquireNothing, AcquireStaged, ApplyReplace, ApplyStale, Refuse, ApplyMerge, reader
<1>b. ASSUME NEW w \in Writes, Mutate(w[1], w[2]) PROVE UNCHANGED Outbound!lvvars
  <2>1. back # ready /\ back # front /\ UNCHANGED got
    BY <1>b DEF Mutate, IInv, Apart, reader
  <2>2. UNCHANGED <<ready, fresh, front>>
        /\ storage' = [storage EXCEPT ![back] = [storage[back] EXCEPT !.value[w[1]] = w[2]]]
    BY <1>b, <1>t DEF Mutate
  <2> QED BY <2>1, <2>2, <1>t, Hidden
<1>c. CASE FinishClean \/ Release
  BY <1>c, <1>q DEF FinishClean, Release, reader
<1>d. CASE PublishExchange
  <2>1. Newest' = storage[back] /\ UNCHANGED <<storage, front, got>>
    BY <1>d DEF PublishExchange, Newest, reader
  <2>2. Outbound!Publish
    BY <2>1, <1>t DEF Outbound!Publish
  <2> QED BY <2>2 DEF Outbound!LVNext
<1>e. CASE PublishRecycle
  <2>1. prev # ready /\ prev # front /\ UNCHANGED got
    BY <1>e DEF PublishRecycle, IInv, Apart, reader
  <2>2. storage' = [storage EXCEPT ![prev] = storage[back]] /\ UNCHANGED <<ready, fresh, front>>
    BY <1>e DEF PublishRecycle
  <2> QED BY <2>1, <2>2, <1>t, Hidden
<1>f. CASE Request \/ Fill
  BY <1>f, <1>q DEF Request, BeginFill, Fill, FillReplace, FillCoalesce, FillSupersede, EndFill, reader
<1>g. CASE SaveStaged \/ SaveStagedEnd \/ SavePublished \/ Read \/ RotateLoad
  BY <1>g, <1>q DEF SaveStaged, SaveStagedEnd, SavePublished, Read, RotateLoad
<1>h. CASE RotateExchange
  <2>1. fresh
    BY <1>h DEF RotateExchange, IInv, Apart
  <2>2. Newest' = Newest /\ storage'[front'] = Newest /\ UNCHANGED got
    BY <1>h, <2>1 DEF RotateExchange, Newest
  <2>3. Outbound!Take
    BY <2>2 DEF Outbound!Take
  <2> QED BY <2>3 DEF Outbound!LVNext
<1>i. CASE Copy
  <2>1. Newest' = Newest /\ UNCHANGED <<storage, front>> /\ got' = storage[front]
    BY <1>i DEF Copy, Newest, slots
  <2>2. Outbound!Deliver
    BY <2>1 DEF Outbound!Deliver
  <2> QED BY <2>2 DEF Outbound!LVNext
<1>j. CASE UNCHANGED vars
  BY <1>j, <1>q DEF vars, reader
<1> QED BY <1>a, <1>b, <1>c, <1>d, <1>e, <1>f, <1>g, <1>h, <1>i, <1>j DEF Next, Audio, Publish, Reader

\* The triple buffer is a latest-value register of {value, applied, rejected}:
\* an ack never runs ahead of the bytes it describes.
THEOREM RefinesRegister == Spec => Refines
<1>1. Init => Outbound!LVInit
  BY DEF Init, Outbound!LVInit, Newest
<1> QED BY <1>1, StepRefines, Invariance, PTL DEF Spec, Refines, Outbound!LVSpec

-----------------------------------------------------------------------------
(* What a block applies is what was moved. *)

\* What is staged is what its authors set each cell to; a patch has its base in the others.
Authored ==
    \A c \in Cells :
        staged.desired[c] = IF ~IsReplace(staged) /\ staged.moves[c] = None
                            THEN staged.expected[c] ELSE staged.moves[c]

LEMMA InitAuthored == Init => Authored
BY StoreAssumption DEF Init, Authored, IsReplace, BlankDoc

\* Coalescing adds the same moves to the document and to its history.
LEMMA CoalesceAuthored ==
    ASSUME Typed, Authored, FillCoalesce
    PROVE  Authored'
<1> DEFINE e == request.expected
           d == request.desired
<1>1. e \in Docs /\ d \in Docs /\ staged \in Staged
  BY RequestType DEF FillCoalesce, Typed, TypeOK, InboxOK
<1>2. /\ staged'.desired = Merge(staged.desired, e, d) /\ staged'.moves = Merge(staged.moves, e, d)
      /\ staged'.expected = staged.expected /\ staged'.apply = Stricter(staged.apply, request.apply)
      /\ request.apply # "Overwrite"
  BY <1>1 DEF FillCoalesce, EndFill, IsPatch, Staged
<1>3. IsReplace(staged') <=> IsReplace(staged)
  BY <1>2 DEF IsReplace, Stricter
<1> HIDE DEF e, d
<1>4. ASSUME NEW c \in Cells
      PROVE  /\ staged'.desired[c] = IF e[c] # d[c] THEN d[c] ELSE staged.desired[c]
             /\ staged'.moves[c] = IF e[c] # d[c] THEN d[c] ELSE staged.moves[c]
             /\ d[c] # None
  <2>1. DOMAIN staged.desired = Cells /\ DOMAIN staged.moves = Cells /\ DOMAIN e = Cells
    BY <1>1 DEF Staged, Docs
  <2>2. d[c] \in Contents
    BY <1>1 DEF Docs
  <2> QED BY <1>2, <2>1, <2>2, StoreAssumption DEF Merge, Moved
<1> QED BY <1>2, <1>3, <1>4 DEF Authored

LEMMA SupersedeAuthored ==
    ASSUME Typed, FillSupersede
    PROVE  Authored'
<1> DEFINE e == request.expected
           d == request.desired
<1>1. e \in Docs /\ d \in Docs
  BY RequestType DEF FillSupersede
<1>2. /\ staged'.desired = d /\ staged'.expected = e /\ staged'.apply = request.apply
      /\ staged'.moves = [c \in Cells |-> IF c \in Moved(e, d) THEN d[c] ELSE None]
      /\ request.apply # "Overwrite"
  BY DEF FillSupersede, EndFill, IsPatch
<1>3. e # None
  BY <1>1, StoreAssumption
<1> HIDE DEF e, d
<1>4. ~IsReplace(staged')
  BY <1>2, <1>3 DEF IsReplace
<1>5. \A c \in Cells : d[c] # None /\ c \in DOMAIN e
  BY <1>1, StoreAssumption DEF Docs
<1> QED BY <1>2, <1>4, <1>5 DEF Authored, Moved

LEMMA NextAuthored ==
    ASSUME Typed, Authored, [Next]_vars
    PROVE  Authored'
<1>1. CASE FillReplace
  BY <1>1 DEF FillReplace, EndFill, Authored, IsReplace
<1>2. CASE FillCoalesce
  BY <1>2, CoalesceAuthored
<1>3. CASE FillSupersede
  BY <1>3, SupersedeAuthored
<1>4. CASE staged' = staged
  BY <1>4 DEF Authored
<1>5. Fill \/ staged' = staged
  <2>1. Audio => staged' = staged
    BY DEF Audio, Acquire, AcquireNothing, AcquireStaged, ApplyReplace, ApplyStale, Refuse, ApplyMerge, Consume,
           Mutate, Publish, FinishClean, PublishExchange, PublishRecycle, Release, inbox
  <2>2. Request \/ Reader => staged' = staged
    BY DEF Request, BeginFill, Reader, SaveStaged, SaveStagedEnd, SavePublished, Read, RotateLoad,
           RotateExchange, Copy, inbox
  <2> QED BY <2>1, <2>2 DEF Next, vars, inbox
<1> QED BY <1>1, <1>2, <1>3, <1>4, <1>5 DEF Fill

\* A block that applies a patch sets the cells its authors moved to what they set them to, and leaves
\* the processor's writes to the others alone, whatever was coalesced before it.
THEOREM AppliesMoves == Spec => AppliesWhatWasMoved
<1>1. ASSUME Typed, Authored, ApplyReplace \/ ApplyMerge, NEW c \in Cells
      PROVE  IF staged.moves[c] = None
             THEN storage'[back].value[c] = storage[back].value[c]
             ELSE \/ storage'[back].value[c] = staged.moves[c]
                  \/ ~IsReplace(staged) /\ staged.expected[c] = staged.moves[c]
  <2>1. /\ storage[back] \in Published /\ staged \in Staged /\ back \in 0 .. 2
        /\ DOMAIN storage = 0 .. 2 /\ DOMAIN storage[back].value = Cells
    <3>1. storage \in [0 .. 2 -> Published] /\ back \in 0 .. 2 /\ staged \in Staged
      BY <1>1 DEF Typed, TypeOK, SlotsOK, InboxOK
    <3>2. storage[back] \in Published
      BY <3>1
    <3>3. storage[back].value \in Docs
      BY <3>2 DEF Published
    <3>4. DOMAIN storage[back].value = Cells
      BY <3>3 DEF Docs
    <3> QED BY <3>1, <3>2, <3>4
  <2>2. CASE ApplyReplace
    <3>1. storage'[back].value = staged.desired /\ IsReplace(staged)
      BY <2>1, <2>2 DEF ApplyReplace, Consume, Published
    <3>2. staged.desired[c] \in Contents
      BY <2>1 DEF Staged, Docs
    <3> QED BY <3>1, <3>2, <1>1, StoreAssumption DEF Authored
  <2>3. CASE ApplyMerge
    <3>1. storage'[back].value = Merge(storage[back].value, staged.expected, staged.desired) /\ ~IsReplace(staged)
      BY <2>1, <2>3 DEF ApplyMerge, Consume, Published
    <3>2. DOMAIN staged.expected = Cells
      BY <2>1, <3>1 DEF Staged, Docs, IsReplace
    <3> QED BY <2>1, <3>1, <3>2, <1>1 DEF Authored, Merge, Moved
  <2> QED BY <1>1, <2>2, <2>3
<1>2. Typed /\ Authored /\ [Next]_vars =>
        [ApplyReplace \/ ApplyMerge =>
          LET before == storage[back].value
              after == storage'[back].value
          IN  \A c \in Cells :
                 IF staged.moves[c] = None
                 THEN after[c] = before[c]
                 ELSE \/ after[c] = staged.moves[c]
                      \/ ~IsReplace(staged) /\ staged.expected[c] = staged.moves[c]]_vars
  BY <1>1
<1> QED BY <1>2, InitTyped, NextTyped, InitAuthored, NextAuthored, PTL DEF Spec, AppliesWhatWasMoved

-----------------------------------------------------------------------------
(* Processor_side *)

\* Every step of Processor_side is a step of the store in it, or leaves it alone.
LEMMA SideSteps == [PNext]_pvars => [Next]_vars
<1> SUFFICES ASSUME [PNext]_pvars PROVE [Next]_vars
  OBVIOUS
<1>a. CASE BlockNext
  <2>1. Audio \/ UNCHANGED vars
    BY <1>a DEF BlockNext, BeginBlock, ApplyBlock, WriteBlock, EndClean, PublishBlock, RecycleBlock,
                FinishBlock, Bump, Audio, Acquire, Publish
  <2> QED BY <2>1 DEF Next
<1>b. CASE OnEdit \/ EditStaged \/ LoadNext
  <2>1. Request \/ Fill \/ UNCHANGED vars
    BY <1>b DEF OnEdit, EditStaged, LoadNext, OnSessionLoad, LoadBegin, LoadStaged, LoadEnd, Fill
  <2> QED BY <2>1 DEF Next
<1>c. CASE ReadNext
  <2>1. Reader \/ UNCHANGED vars
    BY <1>c DEF ReadNext, PumpBegin, SnapshotBegin, ReadStep, SnapshotEnd, PumpRefused, PumpSent, Reader
  <2> QED BY <2>1 DEF Next
<1>d. CASE UNCHANGED pvars
  BY <1>d DEF pvars
<1> QED BY <1>a, <1>b, <1>c, <1>d DEF PNext

\* Whatever the locks and the counter do, what is proved of the store is true of
\* the one inside Processor_side.
THEOREM SideIsStore == PSpec => Spec
<1>1. PInit => Init
  BY DEF PInit
<1> QED BY <1>1, SideSteps, PTL DEF PSpec, Spec

\* A publication the counter has not heard of.
Unbumped == owed \/ block \in {"recycling", "published"}

\* The counter is behind by the block under way only, and the slot to be read
\* next holds the last publication.
Numbered ==
    /\ Unbumped => pubs = edits + 1
    /\ ~Unbumped => pubs = edits
    /\ owed => block = "closed"
    /\ block \in {"applying", "open"} => pubs < MaxEdits
    /\ stamp[IF fresh THEN ready ELSE front] = pubs

\* A pump that is done rotating copies from a slot no older than its tag.
PumpAhead ==
    call = "pumping" =>
        /\ tag <= edits
        /\ reading # "staged"
        /\ reading \in {"idle", "copy"} => tag <= stamp[front]

OuterTyped ==
    /\ edits \in 0 .. MaxEdits /\ lastSent \in 0 .. MaxEdits /\ tag \in 0 .. MaxEdits
    /\ owed \in BOOLEAN
    /\ call \in {"none", "loading", "filling", "pumping", "saving"}
    /\ pubs \in 0 .. MaxEdits /\ stamp \in [0 .. 2 -> 0 .. MaxEdits]
    /\ out \in [gen : 0 .. MaxEdits, pub : 0 .. MaxEdits]
    /\ endedAt \in 0 .. MaxEdits

SideInv == OuterTyped /\ Numbered /\ PumpAhead /\ CarriesItsChange

LEMMA SideInit == PInit => SideInv
<1> SUFFICES ASSUME PInit PROVE SideInv
  OBVIOUS
<1>0. 0 \in 0 .. MaxEdits
  BY ProcessorAssumption
<1>1. OuterTyped
  BY <1>0, Zenon DEF PInit, OuterTyped
<1>2. block = "closed" /\ fresh = FALSE /\ front = 2 /\ call = "none"
  BY DEF PInit, Init
<1>3. Numbered /\ PumpAhead /\ CarriesItsChange
  BY <1>2 DEF PInit, Numbered, Unbumped, PumpAhead, CarriesItsChange
<1> QED BY <1>1, <1>3 DEF SideInv

\* What a step of the store that moves no slot, leaves the reader where it is and
\* publishes nothing keeps.
LEMMA SideKept ==
    ASSUME SideInv, UNCHANGED outer, UNCHANGED <<ready, fresh, front, reading>>,
           block' \in {"recycling", "published"} <=> block \in {"recycling", "published"},
           owed => block' = "closed",
           block' \in {"applying", "open"} => pubs < MaxEdits
    PROVE  SideInv'
<1> USE DEF SideInv, outer, counters, locked, history
<1>1. OuterTyped' /\ CarriesItsChange'
  BY DEF OuterTyped, CarriesItsChange
<1>2. Numbered'
  BY DEF Numbered, Unbumped
<1>3. PumpAhead'
  BY DEF PumpAhead
<1> QED BY <1>1, <1>2, <1>3

\* The audio thread.
LEMMA BlockKeeps ==
    ASSUME SideInv, IInv, BlockNext
    PROVE  SideInv'
<1> USE DEF SideInv
<1>s. back \in 0 .. 2 /\ ready \in 0 .. 2 /\ front \in 0 .. 2 /\ fresh \in BOOLEAN
  BY DEF IInv, Typed, TypeOK, SlotsOK
<1>a. CASE BeginBlock
  BY <1>a, SideKept DEF BeginBlock, AcquireNothing, AcquireStaged, Numbered, Unbumped, slots, reader
<1>b. CASE ApplyBlock
  <2>1. PICK record : Consume(record)
    BY <1>b DEF ApplyBlock, ApplyReplace, ApplyStale, Refuse, ApplyMerge
  <2> QED BY <1>b, <2>1, SideKept DEF ApplyBlock, Consume, Numbered, reader
<1>c. ASSUME NEW w \in Writes, WriteBlock(w[1], w[2]) PROVE SideInv'
  BY <1>c, SideKept DEF WriteBlock, Mutate, Numbered, reader
<1>d. CASE EndClean
  BY <1>d, SideKept DEF EndClean, FinishClean, Numbered, slots, reader
<1>e. CASE PublishBlock
  <2>1. /\ block = "open" /\ block' = "recycling" /\ ready' = back /\ fresh' = TRUE
        /\ UNCHANGED <<front, reading, edits, lastSent, owed, call, tag, out, endedAt>>
        /\ pubs' = pubs + 1 /\ stamp' = [stamp EXCEPT ![back] = pubs']
    BY <1>e DEF PublishBlock, PublishExchange, reader, counters, locked
  <2>2. pubs < MaxEdits /\ pubs = edits
    BY <2>1 DEF Numbered, Unbumped
  <2>3. pubs' \in 0 .. MaxEdits /\ pubs' = edits + 1
    BY <2>1, <2>2, ProcessorAssumption DEF OuterTyped
  <2>4. back # front
    BY <2>1 DEF IInv, Apart
  <2>5. OuterTyped' /\ CarriesItsChange'
    BY <2>1, <2>3, <1>s DEF OuterTyped, CarriesItsChange
  <2>6. stamp'[back] = pubs' /\ stamp'[front] = stamp[front]
    BY <2>1, <2>4, <1>s DEF OuterTyped
  <2>7. Numbered'
    BY <2>1, <2>3, <2>6 DEF Numbered, Unbumped
  <2>8. PumpAhead'
    BY <2>1, <2>6 DEF PumpAhead
  <2> QED BY <2>5, <2>7, <2>8
<1>f. CASE RecycleBlock
  BY <1>f, SideKept DEF RecycleBlock, PublishRecycle, Numbered, reader
<1>g. CASE FinishBlock
  <2>1. /\ block = "published" /\ block' = "closed" /\ owed' = TRUE
        /\ UNCHANGED <<ready, fresh, front, reading, edits, lastSent, call, tag, pubs, stamp, out, endedAt>>
    BY <1>g DEF FinishBlock, Release, slots, reader, locked, history
  <2>2. OuterTyped' /\ CarriesItsChange' /\ PumpAhead'
    BY <2>1 DEF OuterTyped, CarriesItsChange, PumpAhead
  <2>3. Numbered'
    BY <2>1 DEF Numbered, Unbumped
  <2> QED BY <2>2, <2>3
<1>h. CASE Bump
  <2>1. /\ owed /\ owed' = FALSE /\ edits' = edits + 1
        /\ UNCHANGED <<block, ready, fresh, front, reading, lastSent, call, tag, pubs, stamp, out, endedAt>>
    BY <1>h DEF Bump, vars, slots, audio, reader, locked, history
  <2>2. block = "closed" /\ pubs = edits + 1
    BY <2>1 DEF Numbered, Unbumped
  <2>3. OuterTyped'
    BY <2>1, <2>2, ProcessorAssumption DEF OuterTyped
  <2>4. CarriesItsChange' /\ PumpAhead'
    BY <2>1 DEF OuterTyped, CarriesItsChange, PumpAhead
  <2>5. Numbered'
    BY <2>1, <2>2 DEF Numbered, Unbumped
  <2> QED BY <2>3, <2>4, <2>5
<1> QED BY <1>a, <1>b, <1>c, <1>d, <1>e, <1>f, <1>g, <1>h DEF BlockNext

\* The requester: edits and session loads.
LEMMA RequesterKeeps ==
    ASSUME SideInv, OnEdit \/ EditStaged \/ LoadNext
    PROVE  SideInv'
<1> USE DEF SideInv
<1>a. CASE OnEdit
  <2>1. PICK r \in Requests : BeginFill(r)
    BY <1>a DEF OnEdit, Request
  <2> QED BY <1>a, <2>1, SideKept DEF OnEdit, BeginFill, Numbered, slots, audio, reader
<1>b. CASE EditStaged \/ LoadStaged
  <2>1. PICK filled : EndFill(filled)
    BY <1>b DEF EditStaged, LoadStaged, Fill, FillReplace, FillCoalesce, FillSupersede
  <2> QED BY <1>b, <2>1, SideKept DEF EditStaged, LoadStaged, EndFill, Numbered, slots, audio, reader
<1>c. CASE OnSessionLoad \/ LoadBegin \/ LoadEnd
  <2>1. /\ call' \in {"none", "loading", "filling"}
        /\ lastSent' \in {lastSent, edits} /\ endedAt' \in {endedAt, pubs}
        /\ UNCHANGED <<block, ready, fresh, front, edits, owed, tag, pubs, stamp, out>>
    BY <1>c DEF OnSessionLoad, LoadBegin, LoadEnd, Request, BeginFill, vars, slots, audio, counters, history
  <2>2. OuterTyped' /\ CarriesItsChange' /\ PumpAhead'
    BY <2>1 DEF OuterTyped, CarriesItsChange, PumpAhead
  <2>3. Numbered'
    BY <2>1 DEF Numbered, Unbumped
  <2> QED BY <2>2, <2>3
<1> QED BY <1>a, <1>b, <1>c DEF LoadNext

\* The readers: pump and snapshot.
LEMMA ReaderKeeps ==
    ASSUME SideInv, IInv, ReadNext
    PROVE  SideInv'
<1> USE DEF SideInv
<1>s. ready \in 0 .. 2 /\ front \in 0 .. 2 /\ fresh \in BOOLEAN
  BY DEF IInv, Typed, TypeOK, SlotsOK
<1>a. CASE PumpBegin
  <2>1. /\ call' = "pumping" /\ tag' = edits /\ reading' = "rotate"
        /\ UNCHANGED <<block, ready, fresh, front, edits, lastSent, owed, pubs, stamp, out, endedAt>>
    BY <1>a DEF PumpBegin, Read, slots, audio, counters, history
  <2>2. OuterTyped' /\ CarriesItsChange' /\ PumpAhead'
    BY <2>1 DEF OuterTyped, CarriesItsChange, PumpAhead
  <2>3. Numbered'
    BY <2>1 DEF Numbered, Unbumped
  <2> QED BY <2>2, <2>3
<1>b. CASE SnapshotBegin \/ SnapshotEnd \/ PumpRefused
  <2>1. /\ call' \in {"saving", "none"}
        /\ UNCHANGED <<block, ready, fresh, front, edits, lastSent, owed, tag, pubs, stamp, out, endedAt>>
    BY <1>b DEF SnapshotBegin, SnapshotEnd, PumpRefused, SaveStaged, SavePublished, vars, slots, audio,
                counters, history
  <2>2. OuterTyped' /\ CarriesItsChange' /\ PumpAhead'
    BY <2>1 DEF OuterTyped, CarriesItsChange, PumpAhead
  <2>3. Numbered'
    BY <2>1 DEF Numbered, Unbumped
  <2> QED BY <2>2, <2>3
<1>c. CASE ReadStep
  <2>1. UNCHANGED <<block, edits, lastSent, owed, call, tag, pubs, stamp, out, endedAt>>
    BY <1>c DEF ReadStep, RotateLoad, RotateExchange, Copy, SaveStagedEnd, audio, outer, counters,
                locked, history
  <2>2. OuterTyped' /\ CarriesItsChange'
    BY <2>1 DEF OuterTyped, CarriesItsChange
  <2>3. edits <= pubs
    BY DEF Numbered, Unbumped, OuterTyped
  <2>4. CASE RotateLoad \/ Copy \/ SaveStagedEnd
    <3>1. UNCHANGED <<ready, fresh, front>>
      BY <2>4 DEF RotateLoad, Copy, SaveStagedEnd, slots
    <3>2. Numbered'
      BY <2>1, <3>1 DEF Numbered, Unbumped
    <3>3. PumpAhead'
      BY <2>1, <2>3, <2>4, <3>1 DEF PumpAhead, Numbered, OuterTyped, RotateLoad, Copy, SaveStagedEnd
    <3> QED BY <2>2, <3>2, <3>3
  <2>5. CASE RotateExchange
    <3>1. fresh /\ front' = ready /\ fresh' = FALSE /\ reading' = "copy"
      BY <2>5 DEF RotateExchange, IInv, Apart
    <3>2. stamp[front'] = pubs
      BY <3>1 DEF Numbered
    <3>3. Numbered'
      BY <2>1, <3>1, <3>2 DEF Numbered, Unbumped
    <3>4. PumpAhead'
      BY <2>1, <2>3, <3>1, <3>2 DEF PumpAhead, OuterTyped
    <3> QED BY <2>2, <3>3, <3>4
  <2> QED BY <1>c, <2>4, <2>5 DEF ReadStep
<1>d. CASE PumpSent
  <2>1. /\ call = "pumping" /\ reading = "idle" /\ call' = "none" /\ lastSent' = tag
        /\ out' = [gen |-> tag, pub |-> stamp[front]]
        /\ UNCHANGED <<block, ready, fresh, front, edits, owed, tag, pubs, stamp, endedAt>>
    BY <1>d DEF PumpSent, vars, slots, audio
  <2>2. tag <= stamp[front] /\ stamp[front] \in 0 .. MaxEdits
    BY <2>1, <1>s DEF PumpAhead, OuterTyped
  <2>3. OuterTyped' /\ CarriesItsChange' /\ PumpAhead'
    BY <2>1, <2>2 DEF OuterTyped, CarriesItsChange, PumpAhead
  <2>4. Numbered'
    BY <2>1 DEF Numbered, Unbumped
  <2> QED BY <2>3, <2>4
<1> QED BY <1>a, <1>b, <1>c, <1>d DEF ReadNext

LEMMA SideInvariance == PSpec => [](IInv /\ SideInv)
<1>1. SideInv /\ IInv /\ [PNext]_pvars => SideInv'
  <2> SUFFICES ASSUME SideInv, IInv, [PNext]_pvars PROVE SideInv'
    OBVIOUS
  <2>1. CASE UNCHANGED pvars
    BY <2>1 DEF SideInv, OuterTyped, Numbered, Unbumped, PumpAhead, CarriesItsChange,
                pvars, vars, slots, audio, reader, outer, counters, locked, history
  <2> QED BY <2>1, BlockKeeps, RequesterKeeps, ReaderKeeps DEF PNext
<1> QED BY <1>1, SideInit, SideIsStore, Invariance, PTL DEF PSpec

\* Processor_side is well typed; its counters never pass the number of blocks.
THEOREM SideTypeCorrect == PSpec => []PTypeOK
<1>1. IInv /\ SideInv => PTypeOK
  BY DEF IInv, Typed, SideInv, OuterTyped, PTypeOK
<1> QED BY <1>1, SideInvariance, PTL

\* The snapshot sent as generation g holds at least g publications, wherever the
\* audio thread is between publishing and counting.
THEOREM PumpCarriesItsChange == PSpec => []CarriesItsChange
<1>1. SideInv => CarriesItsChange
  BY DEF SideInv
<1> QED BY <1>1, SideInvariance, PTL

-----------------------------------------------------------------------------
(* Proofs.  Blocks: what is on its way is no more than what was published,   *)
(* and in the order it was.                                                  *)

Owing == IF pending THEN 1 ELSE 0
Unread == IF port.dirty THEN 1 ELSE 0
Unfetched == IF fetched = outgoing.seq THEN 0 ELSE 1

BlockFlags ==
    /\ way \in {"post", "message", "store"} /\ pending \in BOOLEAN /\ relay \in BOOLEAN /\ isNew \in BOOLEAN
    /\ port \in [frame : 0 .. MaxFrames, dirty : BOOLEAN]

BlockCounts ==
    /\ staging \in 0 .. MaxFrames /\ transmitted \in 0 .. staging /\ frame \in 0 .. MaxFrames
    /\ outgoing \in [frame : 0 .. MaxFrames, seq : 0 .. MaxPublishes] /\ fetched \in 0 .. outgoing.seq
    /\ messages \in Seq(0 .. MaxFrames) /\ Len(messages) <= MaxMessages
    /\ publishes \in 0 .. MaxPublishes /\ news \in Nat

\* From the editor back to the processor, each place holds a frame as new as the next, or newer.
Aged ==
    /\ frame <= port.frame /\ port.frame <= transmitted
    /\ way # "post" => port.frame <= outgoing.frame /\ outgoing.frame <= transmitted
    /\ way # "message" => messages = <<>> /\ ~relay
    /\ \A i \in 1 .. Len(messages) : port.frame <= messages[i] /\ messages[i] <= outgoing.frame
    /\ \A i, j \in 1 .. Len(messages) : i <= j => messages[i] <= messages[j]

\* A publication is one thing that is still to be news, wherever it is.
Underway ==
    /\ outgoing.seq + Owing <= publishes
    /\ news + Unread + Len(messages) + Unfetched + Owing <= publishes

BlockInv == BlockFlags /\ BlockCounts /\ Aged /\ Underway

LEMMA BlockInvariance ==
    ASSUME MaxFrames \in Nat, MaxPublishes \in Nat, MaxMessages \in Nat
    PROVE  /\ Frame!Init => BlockInv
           /\ BlockInv /\ [Frame!Next]_blockVars => BlockInv' /\ frame' >= frame
<1>1. Frame!Init => BlockInv
  <2> SUFFICES ASSUME Frame!Init PROVE BlockInv
    OBVIOUS
  <2>1. BlockFlags
    <3>1. port \in [frame : 0 .. MaxFrames, dirty : BOOLEAN]
      BY DEF Frame!Init
    <3> QED BY <3>1 DEF Frame!Init, BlockFlags
  <2>2. BlockCounts
    BY DEF Frame!Init, BlockCounts
  <2>3. Aged
    BY DEF Frame!Init, Aged
  <2>4. Underway
    BY DEF Frame!Init, Underway, Owing, Unread, Unfetched
  <2> QED BY <2>1, <2>2, <2>3, <2>4 DEF BlockInv
<1>2. BlockInv /\ [Frame!Next]_blockVars => BlockInv' /\ frame' >= frame
  <2> SUFFICES ASSUME BlockInv, [Frame!Next]_blockVars PROVE BlockInv' /\ frame' >= frame
    OBVIOUS
  <2> USE DEF BlockInv
  <2>1. CASE Frame!Write
    <3>1. BlockFlags'
      BY <2>1 DEF Frame!Write, BlockFlags, BlockCounts
    <3>2. BlockCounts'
      BY <2>1 DEF Frame!Write, BlockFlags, BlockCounts
    <3>3. Aged' /\ frame' >= frame
      BY <2>1 DEF Frame!Write, BlockFlags, BlockCounts, Aged
    <3>4. Underway'
      BY <2>1 DEF Frame!Write, BlockFlags, BlockCounts, Aged, Underway, Owing, Unread, Unfetched
    <3> QED BY <3>1, <3>2, <3>3, <3>4
  <2>2. CASE Frame!Publish
    <3>1. BlockFlags'
      BY <2>2 DEF Frame!Publish, BlockFlags, BlockCounts
    <3>2. BlockCounts'
      BY <2>2 DEF Frame!Publish, BlockFlags, BlockCounts
    <3>3. Aged' /\ frame' >= frame
      BY <2>2 DEF Frame!Publish, BlockFlags, BlockCounts, Aged
    <3>4. Underway'
      <4>1. Owing \in 0 .. 1 /\ Owing' = 1
        BY <2>2 DEF Frame!Publish, Owing, Unread, Unfetched
      <4>2. publishes' = publishes + 1 /\ UNCHANGED <<outgoing, port, messages, fetched, news>>
        BY <2>2 DEF Frame!Publish
      <4>3. Unread' = Unread /\ Unfetched' = Unfetched /\ Unread \in Nat /\ Unfetched \in Nat
        BY <4>2 DEF Owing, Unread, Unfetched
      <4> QED BY <4>1, <4>2, <4>3 DEF BlockCounts, Underway
    <3> QED BY <3>1, <3>2, <3>3, <3>4
  <2>3. CASE Frame!TransmitSuspended
    <3>1. BlockFlags'
      BY <2>3 DEF Frame!TransmitSuspended, BlockFlags, BlockCounts
    <3>2. BlockCounts'
      BY <2>3 DEF Frame!TransmitSuspended, BlockFlags, BlockCounts
    <3>3. Aged' /\ frame' >= frame
      BY <2>3 DEF Frame!TransmitSuspended, BlockFlags, BlockCounts, Aged
    <3>4. Underway'
      <4>1. Owing = 1 /\ Owing' = 0
        BY <2>3 DEF Frame!TransmitSuspended, Owing, Unread, Unfetched
      <4>2. publishes' = publishes /\ UNCHANGED <<outgoing, port, messages, fetched, news>>
        BY <2>3 DEF Frame!TransmitSuspended
      <4>3. Unread' = Unread /\ Unfetched' = Unfetched /\ Unread \in Nat /\ Unfetched \in Nat
        BY <4>2 DEF Owing, Unread, Unfetched
      <4> QED BY <4>1, <4>2, <4>3 DEF BlockCounts, Underway
    <3> QED BY <3>1, <3>2, <3>3, <3>4
  <2>4. CASE Frame!TransmitPosts
    <3>1. BlockFlags'
      BY <2>4 DEF Frame!TransmitPosts, Frame!Post, BlockFlags, BlockCounts
    <3>2. BlockCounts'
      BY <2>4 DEF Frame!TransmitPosts, Frame!Post, BlockFlags, BlockCounts
    <3>3. Aged' /\ frame' >= frame
      BY <2>4 DEF Frame!TransmitPosts, Frame!Post, BlockFlags, BlockCounts, Aged
    <3>4. Underway'
      BY <2>4 DEF Frame!TransmitPosts, Frame!Post, BlockFlags, BlockCounts, Aged, Underway, Owing, Unread, Unfetched
    <3> QED BY <3>1, <3>2, <3>3, <3>4
  <2>5. CASE Frame!TransmitStores
    <3>1. BlockFlags'
      BY <2>5 DEF Frame!TransmitStores, BlockFlags, BlockCounts
    <3>2. BlockCounts'
      <4>1. Owing = 1
        BY <2>5 DEF Frame!TransmitStores, Owing, Unread, Unfetched
      <4>2. outgoing.seq + 1 \in 0 .. MaxPublishes
        BY <4>1 DEF BlockCounts, Underway
      <4>3. outgoing' \in [frame : 0 .. MaxFrames, seq : 0 .. MaxPublishes] /\ outgoing'.seq = outgoing.seq + 1
        BY <2>5, <4>2 DEF Frame!TransmitStores, BlockCounts
      <4> QED BY <2>5, <4>3 DEF Frame!TransmitStores, BlockCounts
    <3>3. Aged' /\ frame' >= frame
      BY SMTT(30), <2>5 DEF Frame!TransmitStores, BlockFlags, BlockCounts, Aged
    <3>4. Underway'
      <4>1. Owing = 1 /\ Owing' = 0
        BY <2>5 DEF Frame!TransmitStores, Owing, Unread, Unfetched
      <4>2. /\ outgoing'.seq = outgoing.seq + 1
            /\ UNCHANGED <<publishes, port, messages, fetched, news>>
        BY <2>5 DEF Frame!TransmitStores
      <4>3. /\ Unread' = Unread /\ Unread \in Nat
            /\ Unfetched \in Nat /\ Unfetched' <= 1
            /\ Unfetched' \in Nat
        BY <4>2 DEF Owing, Unread, Unfetched
      <4> QED BY <4>1, <4>2, <4>3 DEF BlockCounts, Underway
    <3> QED BY <3>1, <3>2, <3>3, <3>4
  <2>6. CASE Frame!SendBlocks
    <3>1. BlockFlags'
      BY <2>6 DEF Frame!SendBlocks, BlockFlags, BlockCounts
    <3>2. BlockCounts'
      <4>1. /\ Append(messages, outgoing.frame) \in Seq(0 .. MaxFrames)
            /\ Len(Append(messages, outgoing.frame)) = Len(messages) + 1
        BY AppendProperties DEF BlockCounts
      <4>2. /\ UNCHANGED <<staging, transmitted, frame, outgoing, publishes, news>> /\ fetched' = outgoing.seq
            /\ Len(messages) < MaxMessages /\ messages' \in {messages, Append(messages, outgoing.frame)}
        BY <2>6 DEF Frame!SendBlocks
      <4>3. messages' \in Seq(0 .. MaxFrames) /\ Len(messages') <= MaxMessages
        <5>1. Len(messages) \in Nat /\ Len(messages) + 1 <= MaxMessages /\ messages \in Seq(0 .. MaxFrames)
          BY <4>2 DEF BlockCounts
        <5>2. CASE messages' = messages
          BY <5>1, <5>2
        <5>3. CASE messages' = Append(messages, outgoing.frame)
          BY <4>1, <5>1, <5>3
        <5> QED BY <4>2, <5>2, <5>3
      <4> QED BY <4>2, <4>3 DEF BlockCounts
    <3>3. Aged' /\ frame' >= frame
      <4>1. /\ relay /\ relay' = FALSE
            /\ UNCHANGED <<way, frame, port, outgoing, transmitted>>
            /\ messages' = messages \/ messages' = Append(messages, outgoing.frame)
        BY <2>6 DEF Frame!SendBlocks
      <4>2. messages \in Seq(Nat) /\ outgoing.frame \in Nat /\ port.frame \in Nat /\ frame \in Nat
        BY DEF BlockCounts, BlockFlags
      <4>3. way = "message"
        BY <4>1 DEF Aged
      <4>4. \A i \in 1 .. Len(messages') : port.frame <= messages'[i] /\ messages'[i] <= outgoing.frame
        <5>1. CASE messages' = messages
          BY <5>1 DEF Aged
        <5>2. CASE messages' = Append(messages, outgoing.frame)
          <6>1. port.frame <= outgoing.frame
            BY <4>3 DEF Aged
          <6> QED BY <4>2, <5>2, <6>1, AppendProperties DEF Aged
        <5> QED BY <4>1, <5>1, <5>2
      <4>5. \A i, j \in 1 .. Len(messages') : i <= j => messages'[i] <= messages'[j]
        <5>1. CASE messages' = messages
          BY <5>1 DEF Aged
        <5>2. CASE messages' = Append(messages, outgoing.frame)
          <6>1. /\ Len(messages) \in Nat /\ Len(messages') = Len(messages) + 1
                /\ \A k \in 1 .. Len(messages) : messages'[k] = messages[k] /\ messages[k] <= outgoing.frame
                /\ messages'[Len(messages) + 1] = outgoing.frame
            BY <4>2, <5>2, AppendProperties DEF Aged
          <6>2. \A k, l \in 1 .. Len(messages) : k <= l => messages[k] <= messages[l]
            BY DEF Aged
          <6> SUFFICES ASSUME NEW k \in 1 .. Len(messages'), NEW l \in 1 .. Len(messages'), k <= l
                       PROVE  messages'[k] <= messages'[l]
            OBVIOUS
          <6>3. CASE l = Len(messages) + 1
            BY <4>2, <6>1, <6>3
          <6>4. CASE l # Len(messages) + 1
            BY <6>1, <6>2, <6>4
          <6> QED BY <6>3, <6>4
        <5> QED BY <4>1, <5>1, <5>2
      <4> QED BY <4>1, <4>2, <4>3, <4>4, <4>5 DEF Aged
    <3>4. Underway'
      <4>1. UNCHANGED <<pending, port, outgoing, news, publishes>> /\ fetched' = outgoing.seq
        BY <2>6 DEF Frame!SendBlocks
      <4>2. Unfetched' = 0
        BY <4>1 DEF Owing, Unread, Unfetched
      <4>3. Len(messages') <= Len(messages) + Unfetched
        BY <2>6 DEF Frame!SendBlocks, BlockCounts, Owing, Unread, Unfetched
      <4>4. Owing \in Nat /\ Unread \in Nat /\ Unfetched \in Nat
        BY DEF Owing, Unread, Unfetched
      <4>5. Owing' = Owing /\ Unread' = Unread
        BY <4>1 DEF Owing, Unread
      <4> QED BY <3>2, <4>1, <4>2, <4>3, <4>4, <4>5 DEF BlockCounts, Underway
    <3> QED BY <3>1, <3>2, <3>3, <3>4
  <2>7. CASE Frame!ControllerPosts
    <3>1. BlockFlags'
      BY <2>7 DEF Frame!ControllerPosts, Frame!Post, BlockFlags, BlockCounts
    <3>2. BlockCounts'
      BY <2>7 DEF Frame!ControllerPosts, Frame!Post, BlockFlags, BlockCounts
    <3>3. Aged' /\ frame' >= frame
      <4>1. /\ Len(messages') = Len(messages) - 1 /\ Len(messages) \in Nat /\ Len(messages) >= 1
            /\ \A i \in 1 .. Len(messages') : messages'[i] = messages[i + 1] /\ i + 1 \in 1 .. Len(messages)
            /\ port'.frame = messages[1] /\ messages[1] \in Nat
        BY <2>7, HeadTailProperties DEF Frame!ControllerPosts, Frame!Post, BlockCounts
      <4>2. UNCHANGED <<frame, transmitted, outgoing, way, relay>>
        BY <2>7 DEF Frame!ControllerPosts
      <4>3. way = "message"
        BY <2>7 DEF Frame!ControllerPosts, Aged
      <4>4. /\ \A i \in 1 .. Len(messages') : port'.frame <= messages'[i] /\ messages'[i] <= outgoing'.frame
            /\ \A i, j \in 1 .. Len(messages') : i <= j => messages'[i] <= messages'[j]
        <5>1. \A i \in 1 .. Len(messages') : messages[1] <= messages[i + 1] /\ messages[i + 1] <= outgoing.frame
          BY <4>1 DEF Aged
        <5>2. \A i, j \in 1 .. Len(messages') : i <= j => messages[i + 1] <= messages[j + 1]
          BY <4>1 DEF Aged
        <5> QED BY <4>1, <4>2, <5>1, <5>2
      <4>5. port.frame <= port'.frame /\ port'.frame <= outgoing.frame
        BY <4>1, <4>2 DEF Aged
      <4>6. frame \in Nat /\ port.frame \in Nat /\ outgoing.frame \in Nat /\ transmitted \in Nat
        BY DEF BlockCounts, BlockFlags
      <4> QED BY <4>1, <4>2, <4>3, <4>4, <4>5, <4>6 DEF Aged
    <3>4. Underway'
      <4>1. UNCHANGED <<pending, fetched, outgoing, news, publishes>> /\ port'.dirty = TRUE
        BY <2>7 DEF Frame!ControllerPosts, Frame!Post
      <4>2. Len(messages') = Len(messages) - 1 /\ Len(messages) \in Nat
        BY <2>7, HeadTailProperties DEF Frame!ControllerPosts, BlockCounts
      <4>3. Unread' = 1
        BY <4>1 DEF Owing, Unread, Unfetched
      <4>4. Owing \in Nat /\ Unread \in Nat /\ Unfetched \in Nat
        BY DEF Owing, Unread, Unfetched
      <4>5. Owing' = Owing /\ Unfetched' = Unfetched
        BY <4>1 DEF Owing, Unfetched
      <4> QED BY <4>1, <4>2, <4>3, <4>4, <4>5 DEF BlockCounts, Underway
    <3> QED BY <3>1, <3>2, <3>3, <3>4
  <2>8. CASE Frame!ReadStore
    <3>1. BlockFlags'
      BY <2>8 DEF Frame!ReadStore, Frame!Post, BlockFlags, BlockCounts
    <3>2. BlockCounts'
      BY <2>8 DEF Frame!ReadStore, Frame!Post, BlockFlags, BlockCounts
    <3>3. Aged' /\ frame' >= frame
      BY <2>8 DEF Frame!ReadStore, Frame!Post, BlockFlags, BlockCounts, Aged
    <3>4. Underway'
      BY <2>8 DEF Frame!ReadStore, Frame!Post, BlockFlags, BlockCounts, Aged, Underway, Owing, Unread, Unfetched
    <3> QED BY <3>1, <3>2, <3>3, <3>4
  <2>9. CASE Frame!Draw
    <3>1. BlockFlags'
      BY <2>9 DEF Frame!Draw, BlockFlags, BlockCounts
    <3>2. BlockCounts'
      BY <2>9 DEF Frame!Draw, BlockFlags, BlockCounts
    <3>3. Aged' /\ frame' >= frame
      BY <2>9 DEF Frame!Draw, BlockFlags, BlockCounts, Aged
    <3>4. Underway'
      BY <2>9 DEF Frame!Draw, BlockFlags, BlockCounts, Aged, Underway, Owing, Unread, Unfetched
    <3> QED BY <3>1, <3>2, <3>3, <3>4
  <2>10. CASE UNCHANGED blockVars
    <3>1. BlockFlags'
      BY <2>10 DEF blockVars, BlockFlags, BlockCounts
    <3>2. BlockCounts'
      BY <2>10 DEF blockVars, BlockFlags, BlockCounts
    <3>3. Aged' /\ frame' >= frame
      BY <2>10 DEF blockVars, BlockFlags, BlockCounts, Aged
    <3>4. Underway'
      BY <2>10 DEF blockVars, BlockFlags, BlockCounts, Aged, Underway, Owing, Unread, Unfetched
    <3> QED BY <3>1, <3>2, <3>3, <3>4
  <2> QED BY <2>1, <2>2, <2>3, <2>4, <2>5, <2>6, <2>7, <2>8, <2>9, <2>10 DEF Frame!Next
<1> QED BY <1>1, <1>2

-----------------------------------------------------------------------------
(* Proofs.  Meters: a level is on its way until it was drawn.                *)

Slots == [value : Meter!Levels, count : Nat]
Posts == [value : Meter!Levels, curr : Slots]

\* What is not there is neither a slot's value nor a post.
MeterAssumption ==
    /\ MaxLevel \in Nat /\ Room \in Nat /\ MaxMeterBlocks \in Nat /\ MaxMoves \in Nat
    /\ None \notin Slots /\ None \notin Posts

MeterTyped ==
    /\ policy \in {"stream", "peak", "trig"} /\ route \in {"direct", "ring", "host"}
    /\ scratch \in Meter!Levels /\ previous \in Meter!Levels /\ heldPeak \in Meter!Levels
    /\ shown \in Meter!Levels /\ owedPeak \in Meter!Levels
    /\ hostLast \in Meter!Levels /\ lastPost \in Meter!Levels
    /\ wire \in Seq(Meter!Levels) /\ Len(wire) <= Room
    /\ slot \in Slots /\ seen \in Slots
    /\ posting \in Posts \cup {None} /\ taking \in Slots \cup {None}
    /\ rendered \in 0 .. MaxMeterBlocks /\ moves \in 0 .. MaxMoves /\ credit \in Nat

Posting == IF posting = None THEN 0 ELSE 1
Unsent == IF scratch = previous THEN 0 ELSE 1

\* A slot is posted to by one thread, and no more often than blocks sent something.
Sending ==
    /\ posting # None => posting.curr.count = slot.count /\ route # "host"
    /\ route = "direct" => wire = <<>>
    /\ seen.count <= slot.count /\ (taking # None => taking.count <= slot.count /\ route # "host")
    /\ policy = "stream" => slot.count + Len(wire) + Posting + Unsent <= moves
    /\ policy # "stream" => slot.count + Len(wire) + Posting <= rendered

\* A peak that is owed is louder than what was shown, and on its way.  What was read is not in the slot any more; what the
\* host delivered last is there, or was shown.
Loud ==
    /\ policy # "peak" => owedPeak = 0
    /\ policy = "peak" =>
          /\ owedPeak = 0 \/ owedPeak > shown
          /\ slot.count = seen.count => slot.value = 0 /\ (route = "host" => lastPost <= shown)
          /\ route = "host" => hostLast = lastPost /\ (slot.count # seen.count => lastPost <= slot.value)
          /\ \/ owedPeak = 0 \/ owedPeak <= heldPeak \/ owedPeak <= slot.value
             \/ \E i \in 1 .. Len(wire) : owedPeak <= wire[i]
             \/ posting # None /\ owedPeak <= posting.value

\* A trigger in the slot was posted and not drawn.
Credited ==
    policy = "trig" => /\ slot.value # 0 => credit >= 1
                       /\ posting # None => posting.value # 0

MeterInv == MeterTyped /\ Sending /\ Loud /\ Credited

LEMMA LouderType ==
    ASSUME MaxLevel \in Nat, NEW m \in Meter!Levels, NEW n \in Meter!Levels
    PROVE  /\ Meter!Louder(m, n) \in Meter!Levels /\ m <= Meter!Louder(m, n) /\ n <= Meter!Louder(m, n)
           /\ Meter!Louder(m, n) \in {m, n}
BY DEF Meter!Levels, Meter!Louder

\* What a read leaves in the slot.
LEMMA EmptiedType ==
    ASSUME MaxLevel \in Nat, NEW s \in Slots
    PROVE  /\ [s EXCEPT !.value = 0] \in Slots
           /\ [s EXCEPT !.value = 0].value = 0 /\ [s EXCEPT !.value = 0].count = s.count
<1>1. 0 \in Meter!Levels
  BY DEF Meter!Levels
<1> QED BY <1>1 DEF Slots

\* A draw shows a level; a trigger it shows had its credit.
LEMMA ShowType ==
    ASSUME MeterAssumption, MeterTyped, Credited, NEW v \in Meter!Levels, Meter!Show(v),
           policy = "trig" /\ v # 0 => slot.value # 0
    PROVE  /\ shown' = v /\ owedPeak' \in Meter!Levels /\ credit' \in Nat
           /\ owedPeak' = IF v >= owedPeak THEN 0 ELSE owedPeak
BY DEF MeterAssumption, MeterTyped, Credited, Meter!Show, Meter!Levels

\* A level on the wire is still there, or was the first of it.
LEMMA WireTail ==
    ASSUME NEW S, NEW s \in Seq(S), s # <<>>
    PROVE  /\ Head(s) \in S /\ Head(s) = s[1] /\ Tail(s) \in Seq(S) /\ Len(Tail(s)) = Len(s) - 1
           /\ Len(s) \in Nat /\ Len(s) >= 1
           /\ \A i \in 1 .. Len(s) : i # 1 => s[i] = Tail(s)[i - 1] /\ i - 1 \in 1 .. Len(Tail(s))
BY HeadTailProperties

\* A block of a peak or a trigger adds one to what is under way.
LEMMA MeterSends ==
    ASSUME MeterTyped, Sending, policy # "stream", UNCHANGED <<policy, route, slot, seen, taking>>,
           rendered' = rendered + 1, route = "direct" => posting = None,
           posting' \in Posts \cup {None}, posting' # None => posting'.curr.count = slot.count \/ posting' = posting,
           route = "direct" => wire' = wire, route # "direct" => posting' = posting,
           wire' = wire \/ (route # "direct" /\ \E w \in Meter!Levels : wire' = Append(wire, w))
    PROVE  Sending'
<1>1. Posting \in 0 .. 1 /\ Posting' \in 0 .. 1 /\ Len(wire) \in Nat /\ slot.count \in Nat /\ rendered \in Nat
  BY DEF Posting, MeterTyped, Slots
<1>2. Len(wire') + Posting' <= Len(wire) + Posting + 1
  <2>1. CASE wire' = wire
    BY <1>1, <2>1
  <2>2. CASE route # "direct" /\ \E w \in Meter!Levels : wire' = Append(wire, w)
    <3>1. Len(wire') = Len(wire) + 1
      BY <2>2, AppendProperties DEF MeterTyped
    <3>2. Posting' = Posting
      BY <2>2 DEF Posting
    <3> QED BY <1>1, <3>1, <3>2
  <2> QED BY <2>1, <2>2
<1>3. Len(wire') \in Nat
  BY AppendProperties DEF MeterTyped
<1>4. slot.count + Len(wire') + Posting' <= rendered'
  BY <1>1, <1>2, <1>3 DEF Sending
<1>5. posting' # None => posting'.curr.count = slot.count /\ route # "host"
  BY DEF Sending
<1> QED BY <1>4, <1>5 DEF Sending

LEMMA MeterInvariance ==
    ASSUME MeterAssumption
    PROVE  /\ Meter!Init => MeterInv
           /\ MeterInv /\ [Meter!Next]_meterVars => MeterInv'
<1> USE DEF MeterAssumption
<1>1. Meter!Init => MeterInv
  <2> SUFFICES ASSUME Meter!Init PROVE MeterInv
    OBVIOUS
  <2>1. Meter!Empty \in Slots
    BY DEF Meter!Empty, Slots, Meter!Levels
  <2>2. MeterTyped
    BY <2>1 DEF Meter!Init, MeterTyped, Meter!Levels
  <2>3. Sending
    BY DEF Meter!Init, Sending, Posting, Unsent, Meter!Empty
  <2>4. Loud /\ Credited
    BY DEF Meter!Init, Loud, Credited, Meter!Empty
  <2> QED BY <2>2, <2>3, <2>4 DEF MeterInv
<1>2. MeterInv /\ [Meter!Next]_meterVars => MeterInv'
  <2> SUFFICES ASSUME MeterInv, [Meter!Next]_meterVars PROVE MeterInv'
    OBVIOUS
  <2> USE DEF MeterInv
  <2>1. CASE Meter!PostStore
    <3>1. MeterTyped'
      BY <2>1 DEF Meter!PostStore, MeterTyped, Slots, Posts, Meter!Levels
    <3>2. Sending'
      BY <2>1 DEF Meter!PostStore, MeterTyped, Sending, Posting, Unsent, Slots, Posts
    <3>3. Loud'
      BY <2>1 DEF Meter!PostStore, MeterTyped, Sending, Loud, Slots, Posts, Meter!Levels
    <3>4. Credited'
      BY <2>1 DEF Meter!PostStore, MeterTyped, Credited, Slots, Posts
    <3> QED BY <3>1, <3>2, <3>3, <3>4
  <2>2. CASE Meter!PostPeak
    <3>1. MeterTyped'
      <4>1. posting \in Posts /\ slot \in Slots /\ slot.value \in Meter!Levels /\ posting.value \in Meter!Levels
        BY <2>2 DEF Meter!PostPeak, MeterTyped, Slots, Posts
      <4>2. Meter!Louder(posting.value, slot.value) \in Meter!Levels
        BY <4>1, LouderType
      <4>3. [value |-> Meter!Louder(posting.value, slot.value), count |-> slot.count + 1] \in Slots
        BY <4>1, <4>2 DEF Slots
      <4>4. [posting EXCEPT !.curr = slot] \in Posts
        BY <4>1 DEF Posts
      <4>5. slot' \in Slots /\ posting' \in Posts \cup {None}
        BY <2>2, <4>1, <4>3, <4>4 DEF Meter!PostPeak
      <4> QED BY <2>2, <4>5 DEF Meter!PostPeak, MeterTyped
    <3>2. Sending'
      BY SMTT(30), <2>2 DEF Meter!PostPeak, Meter!Louder, MeterTyped, Sending, Posting, Unsent, Slots, Posts
    <3>3. Loud'
      <4>1. /\ posting \in Posts /\ slot.value \in Meter!Levels /\ posting.value \in Meter!Levels
            /\ slot.count \in Nat /\ seen.count \in Nat /\ lastPost \in Meter!Levels /\ owedPeak \in Meter!Levels
        BY <2>2 DEF Meter!PostPeak, MeterTyped, Slots, Posts
      <4>2. /\ policy = "peak" /\ route # "host" /\ seen.count <= slot.count
            /\ UNCHANGED <<policy, route, heldPeak, wire, hostLast, lastPost, seen, shown, owedPeak>>
        BY <2>2 DEF Meter!PostPeak, Sending
      <4>3. CASE slot = posting.curr
        <5>1. /\ slot'.value = Meter!Louder(posting.value, slot.value) /\ slot'.count = slot.count + 1
          BY <2>2, <4>3 DEF Meter!PostPeak
        <5>2. posting.value <= slot'.value /\ slot.value <= slot'.value /\ slot'.value \in Meter!Levels
          BY <4>1, <5>1, LouderType
        <5>3. slot'.count # seen'.count
          BY <4>1, <4>2, <5>1
        <5> QED BY <4>1, <4>2, <5>2, <5>3 DEF Loud, Meter!Levels
      <4>4. CASE slot # posting.curr
        <5>1. slot' = slot /\ posting' = [posting EXCEPT !.curr = slot]
          BY <2>2, <4>4 DEF Meter!PostPeak
        <5>2. posting' # None /\ posting'.value = posting.value
          BY <4>1, <5>1, <3>1 DEF Posts, MeterTyped, Slots
        <5> QED BY <4>2, <5>1, <5>2 DEF Loud
      <4> QED BY <4>3, <4>4
    <3>4. Credited'
      BY <2>2 DEF Meter!PostPeak, Meter!Louder, MeterTyped, Credited, Slots, Posts
    <3> QED BY <3>1, <3>2, <3>3, <3>4
  <2>3. CASE Meter!ReadStream
    <3>1. MeterTyped'
      BY <2>3 DEF Meter!ReadStream, Meter!Show, MeterTyped, Slots, Posts, Meter!Levels
    <3>2. Sending'
      BY <2>3 DEF Meter!ReadStream, Meter!Show, MeterTyped, Sending, Posting, Unsent, Slots, Posts
    <3>3. Loud'
      BY <2>3 DEF Meter!ReadStream, Meter!Show, MeterTyped, Sending, Loud, Slots, Posts, Meter!Levels
    <3>4. Credited'
      BY <2>3 DEF Meter!ReadStream, Meter!Show, MeterTyped, Credited, Slots, Posts
    <3> QED BY <3>1, <3>2, <3>3, <3>4
  <2>4. CASE Meter!ReadLoad
    <3>1. MeterTyped'
      BY <2>4 DEF Meter!ReadLoad, MeterTyped, Slots, Posts, Meter!Levels
    <3>2. Sending'
      BY <2>4 DEF Meter!ReadLoad, MeterTyped, Sending, Posting, Unsent, Slots, Posts
    <3>3. Loud'
      BY <2>4 DEF Meter!ReadLoad, MeterTyped, Sending, Loud, Slots, Posts, Meter!Levels
    <3>4. Credited'
      BY <2>4 DEF Meter!ReadLoad, MeterTyped, Credited, Slots, Posts
    <3> QED BY <3>1, <3>2, <3>3, <3>4
  <2>5. CASE Meter!ReadExchange
    <3>1. MeterTyped'
      <4>1. taking \in Slots /\ taking.value \in Meter!Levels /\ seen.value \in Meter!Levels
        BY <2>5 DEF Meter!ReadExchange, MeterTyped, Slots
      <4>2. CASE slot = taking
        <5>1. seen' \in Slots /\ slot' \in Slots /\ taking' = None
          BY <2>5, <4>1, <4>2, EmptiedType DEF Meter!ReadExchange, MeterTyped
        <5>2. \E v \in Meter!Levels : Meter!Show(v) /\ (policy = "trig" => v = slot.value)
          BY <2>5, <4>1, <4>2, <5>1 DEF Meter!ReadExchange, MeterTyped, Slots
        <5>3. shown' \in Meter!Levels /\ owedPeak' \in Meter!Levels /\ credit' \in Nat
          BY <5>2, ShowType
        <5> QED BY <2>5, <5>1, <5>3 DEF Meter!ReadExchange, MeterTyped
      <4>3. CASE slot # taking
        BY <2>5, <4>3 DEF Meter!ReadExchange, MeterTyped
      <4> QED BY <4>2, <4>3
    <3>2. Sending'
      BY SMTT(30), <2>5 DEF Meter!ReadExchange, Meter!Show, MeterTyped, Sending, Posting, Unsent, Slots, Posts
    <3>3. Loud'
      <4>1. CASE slot = taking /\ policy = "peak"
        <5>1. /\ UNCHANGED <<policy, route, heldPeak, wire, hostLast, lastPost, posting>>
              /\ slot' = [slot EXCEPT !.value = 0] /\ seen' = IF slot.count # seen.count THEN slot ELSE seen
              /\ Meter!Show(seen'.value)
          BY <2>5, <4>1 DEF Meter!ReadExchange
        <5>2. slot \in Slots /\ seen \in Slots
          BY DEF MeterTyped
        <5>3. /\ slot'.count = slot.count /\ slot'.value = 0 /\ seen'.count = slot.count
              /\ slot.count # seen.count => seen'.value = slot.value
              /\ seen'.value \in Meter!Levels
          BY <5>1, <5>2 DEF Slots
        <5>4. shown' = seen'.value /\ owedPeak' = IF seen'.value >= owedPeak THEN 0 ELSE owedPeak
          BY <4>1, <5>1, <5>3, ShowType
        <5>5. owedPeak \in Meter!Levels /\ slot.value \in Meter!Levels /\ heldPeak \in Meter!Levels
          BY <5>2 DEF MeterTyped, Slots
        <5>6. route # "host"
          BY <2>5, <4>1 DEF Meter!ReadExchange, Sending
        <5> QED BY <4>1, <5>1, <5>3, <5>4, <5>5, <5>6 DEF Loud, Meter!Levels
      <4>2. CASE slot = taking /\ policy # "peak"
        BY <2>5, <4>2 DEF Meter!ReadExchange, Meter!Show, Loud, MeterTyped, Meter!Levels
      <4>3. CASE slot # taking
        BY <2>5, <4>3 DEF Meter!ReadExchange, Loud
      <4> QED BY <4>1, <4>2, <4>3
    <3>4. Credited'
      BY <2>5 DEF Meter!ReadExchange, Meter!Show, MeterTyped, Credited, Slots, Posts
    <3> QED BY <3>1, <3>2, <3>3, <3>4
  <2>6. CASE Meter!ReadHost
    <3>1. MeterTyped'
      <4>1. slot.value \in Meter!Levels /\ lastPost \in Meter!Levels
        BY DEF MeterTyped, Slots
      <4>2. \E v \in Meter!Levels : Meter!Show(v) /\ (policy = "trig" => v = slot.value)
        BY <2>6, <4>1 DEF Meter!ReadHost
      <4>3. shown' \in Meter!Levels /\ owedPeak' \in Meter!Levels /\ credit' \in Nat
        BY <4>2, ShowType
      <4>4. slot' \in Slots /\ seen' \in Slots
        <5>1. slot \in Slots /\ seen \in Slots /\ slot.count \in Nat
          BY DEF MeterTyped, Slots
        <5>2. [seen EXCEPT !.count = slot.count] \in Slots
          BY <5>1 DEF Slots
        <5>3. slot' \in {slot, [slot EXCEPT !.value = 0]} /\ seen' \in {seen, [seen EXCEPT !.count = slot.count]}
          BY <2>6 DEF Meter!ReadHost
        <5> QED BY <5>1, <5>2, <5>3, EmptiedType
      <4> QED BY <2>6, <4>3, <4>4 DEF Meter!ReadHost, MeterTyped
    <3>2. Sending'
      BY <2>6 DEF Meter!ReadHost, Meter!Show, MeterTyped, Sending, Posting, Unsent, Slots, Posts
    <3>3. Loud'
      <4>1. CASE policy = "peak"
        <5>1. /\ UNCHANGED <<policy, route, heldPeak, wire, hostLast, lastPost, posting>> /\ route = "host"
              /\ slot' = [slot EXCEPT !.value = 0] /\ seen' = [seen EXCEPT !.count = slot.count]
              /\ Meter!Show(IF slot.count # seen.count THEN slot.value ELSE lastPost)
          BY <2>6, <4>1 DEF Meter!ReadHost
        <5>2. slot \in Slots /\ seen \in Slots /\ lastPost \in Meter!Levels /\ owedPeak \in Meter!Levels
          BY DEF MeterTyped
        <5>3. slot'.count = seen'.count /\ slot'.value = 0
          BY <5>1, <5>2 DEF Slots
        <5>4. CASE slot.count # seen.count
          <6>1. shown' = slot.value /\ owedPeak' = IF slot.value >= owedPeak THEN 0 ELSE owedPeak
            BY <4>1, <5>1, <5>2, <5>4, ShowType DEF Slots
          <6> QED BY <4>1, <5>1, <5>2, <5>3, <5>4, <6>1 DEF Loud, Slots, Meter!Levels
        <5>5. CASE slot.count = seen.count
          <6>1. shown' = lastPost /\ owedPeak' = IF lastPost >= owedPeak THEN 0 ELSE owedPeak
            BY <4>1, <5>1, <5>2, <5>5, ShowType
          <6> QED BY <4>1, <5>1, <5>2, <5>3, <5>5, <6>1 DEF Loud, Slots, Meter!Levels
        <5> QED BY <5>4, <5>5
      <4>2. CASE policy # "peak"
        BY <2>6, <4>2 DEF Meter!ReadHost, Meter!Show, Loud, MeterTyped, Meter!Levels
      <4> QED BY <4>1, <4>2
    <3>4. Credited'
      BY <2>6 DEF Meter!ReadHost, Meter!Show, MeterTyped, Credited, Slots, Posts
    <3> QED BY <3>1, <3>2, <3>3, <3>4
  <2>7. CASE Meter!DeliverRing
    <3>1. MeterTyped'
      BY <2>7 DEF Meter!DeliverRing, Meter!PostBegins, MeterTyped, Slots, Posts, Meter!Levels
    <3>2. Sending'
      BY <2>7 DEF Meter!DeliverRing, Meter!PostBegins, MeterTyped, Sending, Posting, Unsent, Slots, Posts
    <3>3. Loud'
      <4>1. CASE policy = "peak"
        <5>1. /\ UNCHANGED <<policy, route, heldPeak, hostLast, slot, lastPost, seen, shown, owedPeak>>
              /\ wire # <<>> /\ posting = None /\ posting' = [value |-> Head(wire), curr |-> slot] /\ wire' = Tail(wire)
          BY <2>7, <4>1 DEF Meter!DeliverRing, Meter!PostBegins
        <5>2. posting' # None /\ posting'.value = wire[1]
          BY <5>1, WireTail DEF MeterTyped, Posts
        <5>3. \A i \in 1 .. Len(wire) : i # 1 => wire[i] = wire'[i - 1] /\ i - 1 \in 1 .. Len(wire')
          BY <5>1, WireTail DEF MeterTyped
        <5> QED BY <4>1, <5>1, <5>2, <5>3 DEF Loud
      <4>2. CASE policy # "peak"
        BY <2>7, <4>2 DEF Meter!DeliverRing, Loud
      <4> QED BY <4>1, <4>2
    <3>4. Credited'
      BY <2>7 DEF Meter!DeliverRing, Meter!PostBegins, MeterTyped, Credited, Slots, Posts
    <3> QED BY <3>1, <3>2, <3>3, <3>4
  <2>8. CASE Meter!HostDelivers
    <3> DEFINE v == Head(wire)
    <3>a. /\ route = "host" /\ wire # <<>> /\ hostLast' = v /\ wire' = Tail(wire)
          /\ UNCHANGED <<policy, route, scratch, previous, heldPeak, seen, posting, taking, shown, rendered, moves,
                         owedPeak>>
          /\ Meter!PostFromHost(v)
      BY <2>8 DEF Meter!HostDelivers
    <3>b. /\ v \in Meter!Levels /\ v = wire[1] /\ wire' \in Seq(Meter!Levels)
          /\ Len(wire') = Len(wire) - 1 /\ Len(wire) \in Nat
          /\ \A i \in 1 .. Len(wire) : i # 1 => wire[i] = wire'[i - 1] /\ i - 1 \in 1 .. Len(wire')
      BY <3>a, WireTail DEF MeterTyped
    <3>c. slot \in Slots /\ slot.value \in Meter!Levels /\ slot.count \in Nat
      BY DEF MeterTyped, Slots
    <3>d. Meter!Louder(v, slot.value) \in Meter!Levels
      BY <3>b, <3>c, LouderType
    <3> HIDE DEF v
    <3>e. \/ slot' = slot /\ lastPost' = lastPost /\ credit' = credit /\ policy = "trig"
          \/ /\ slot' = [value |-> v, count |-> slot.count + 1] /\ lastPost' = lastPost
             /\ credit' = credit /\ policy = "stream"
          \/ /\ slot' = [value |-> v, count |-> slot.count + 1] /\ lastPost' = lastPost
             /\ credit' = credit + 1 /\ policy = "trig"
          \/ /\ slot' = [value |-> Meter!Louder(v, slot.value), count |-> slot.count + 1] /\ lastPost' = v
             /\ credit' = credit /\ policy = "peak"
      BY <3>a DEF Meter!PostFromHost, MeterTyped
    <3>1. MeterTyped'
      <4>5. slot' \in Slots /\ lastPost' \in Meter!Levels /\ credit' \in Nat
        BY <3>b, <3>c, <3>d, <3>e DEF MeterTyped, Slots
      <4>6. /\ UNCHANGED <<policy, route, scratch, previous, heldPeak, seen, posting, taking, shown, rendered, moves,
                           owedPeak>>
            /\ hostLast' \in Meter!Levels /\ wire' \in Seq(Meter!Levels) /\ Len(wire') <= Room
        BY <3>a, <3>b DEF MeterTyped
      <4> QED BY <4>5, <4>6 DEF MeterTyped
    <3>2. Sending'
      <4>1. slot'.count \in {slot.count, slot.count + 1} /\ seen.count \in Nat /\ Posting \in Nat /\ Unsent \in Nat
        BY <3>c, <3>e DEF MeterTyped, Slots, Posting, Unsent
      <4>2. Posting' = Posting /\ Unsent' = Unsent
        BY <3>a DEF Posting, Unsent
      <4>3. taking # None => taking.count \in Nat
        BY DEF MeterTyped, Slots
      <4>4. seen.count <= slot'.count
        BY <3>c, <4>1 DEF Sending
      <4>5. slot'.count + Len(wire') <= slot.count + Len(wire)
        BY <3>b, <3>c, <4>1
      <4>6. /\ policy = "stream" => slot'.count + Len(wire') + Posting' + Unsent' <= moves
            /\ policy # "stream" => slot'.count + Len(wire') + Posting' <= rendered
        <5>1. /\ Len(wire) \in Nat /\ Len(wire') \in Nat /\ slot.count \in Nat /\ slot'.count \in Nat
              /\ moves \in Nat /\ rendered \in Nat
          BY <3>b, <3>c, <4>1 DEF MeterTyped
        <5>2. /\ policy = "stream" => slot.count + Len(wire) + Posting + Unsent <= moves
              /\ policy # "stream" => slot.count + Len(wire) + Posting <= rendered
          BY DEF Sending
        <5> QED BY SMTT(30), <4>1, <4>2, <4>5, <5>1, <5>2
      <4>7. posting = None /\ taking = None
        BY <3>a DEF Sending
      <4> QED BY <3>a, <4>4, <4>6, <4>7 DEF Sending
    <3>3. Loud'
      <4>1. CASE policy = "peak"
        <5>1. slot'.value = Meter!Louder(v, slot.value) /\ slot'.count = slot.count + 1 /\ lastPost' = v
          BY <3>e, <4>1
        <5>2. v <= slot'.value /\ slot.value <= slot'.value /\ slot'.value \in Meter!Levels
          BY <3>b, <3>c, <5>1, LouderType
        <5>3. slot'.count # seen'.count
          BY <3>a, <3>c, <5>1 DEF Sending, MeterTyped, Slots
        <5>4. owedPeak \in Meter!Levels /\ posting = None
          BY <3>a DEF MeterTyped, Sending
        <5>5. /\ shown \in Nat /\ heldPeak \in Nat /\ owedPeak \in Nat /\ v \in Nat
              /\ slot.value \in Nat /\ slot'.value \in Nat
          BY <3>b, <3>c, <5>2 DEF MeterTyped, Meter!Levels
        <5>6. \/ owedPeak = 0 \/ owedPeak <= heldPeak \/ owedPeak <= slot.value
              \/ \E i \in 1 .. Len(wire) : owedPeak <= wire[i]
          BY <4>1, <5>4 DEF Loud
        <5>7. \/ owedPeak = 0 \/ owedPeak <= heldPeak \/ owedPeak <= slot'.value
              \/ \E i \in 1 .. Len(wire') : owedPeak <= wire'[i]
          <6>1. CASE \E i \in 1 .. Len(wire) : owedPeak <= wire[i]
            <7>1. PICK i \in 1 .. Len(wire) : owedPeak <= wire[i]
              BY <6>1
            <7>2. i = 1 => wire[i] = v
              BY <3>b
            <7>3. i # 1 => wire[i] = wire'[i - 1] /\ i - 1 \in 1 .. Len(wire')
              BY <3>b
            <7>4. CASE i = 1
              BY <5>2, <5>5, <7>1, <7>2, <7>4
            <7>5. CASE i # 1
              BY <7>1, <7>3, <7>5
            <7> QED BY <7>4, <7>5
          <6> QED BY <5>2, <5>5, <5>6, <6>1
        <5>8. owedPeak = 0 \/ owedPeak > shown
          BY <4>1 DEF Loud
        <5>9. UNCHANGED <<owedPeak, shown, policy, heldPeak>> /\ hostLast' = lastPost'
          BY <3>a, <5>1
        <5> QED BY <4>1, <5>1, <5>2, <5>3, <5>7, <5>8, <5>9 DEF Loud
      <4>2. CASE policy # "peak"
        BY <3>a, <4>2 DEF Loud
      <4> QED BY <4>1, <4>2
    <3>4. Credited'
      BY <2>8 DEF Meter!HostDelivers, Meter!PostFromHost, Meter!Louder, MeterTyped, Credited, Slots, Posts
    <3> QED BY <3>1, <3>2, <3>3, <3>4
  <2>9. CASE Meter!HostDrops
    <3>1. MeterTyped'
      BY <2>9 DEF Meter!HostDrops, MeterTyped, Slots, Posts, Meter!Levels
    <3>2. Sending'
      BY <2>9 DEF Meter!HostDrops, MeterTyped, Sending, Posting, Unsent, Slots, Posts
    <3>3. Loud'
      <4>1. /\ UNCHANGED <<policy, route, heldPeak, hostLast, slot, lastPost, seen, posting, shown, owedPeak>>
            /\ route = "host" /\ wire # <<>> /\ Head(wire) = hostLast /\ wire' = Tail(wire)
        BY <2>9 DEF Meter!HostDrops
      <4>2. /\ wire[1] = hostLast
            /\ \A i \in 1 .. Len(wire) : i # 1 => wire[i] = wire'[i - 1] /\ i - 1 \in 1 .. Len(wire')
        BY <4>1, WireTail DEF MeterTyped
      <4>3. owedPeak \in Nat /\ lastPost \in Nat /\ shown \in Nat /\ slot.value \in Nat
        BY DEF MeterTyped, Slots, Meter!Levels
      <4>4. CASE policy = "peak"
        <5>1. owedPeak <= wire[1] => owedPeak = 0 \/ owedPeak <= slot.value
          BY <4>1, <4>2, <4>3, <4>4 DEF Loud
        <5>2. \/ owedPeak = 0 \/ owedPeak <= heldPeak \/ owedPeak <= slot.value
              \/ \E i \in 1 .. Len(wire') : owedPeak <= wire'[i]
              \/ posting # None /\ owedPeak <= posting.value
          <6>1. CASE \E i \in 1 .. Len(wire) : owedPeak <= wire[i]
            <7>1. PICK i \in 1 .. Len(wire) : owedPeak <= wire[i]
              BY <6>1
            <7> QED BY <4>2, <5>1, <7>1
          <6> QED BY <4>4, <6>1 DEF Loud
        <5> QED BY <4>1, <4>4, <5>2 DEF Loud
      <4> QED BY <4>1, <4>4 DEF Loud
    <3>4. Credited'
      BY <2>9 DEF Meter!HostDrops, MeterTyped, Credited, Slots, Posts
    <3> QED BY <3>1, <3>2, <3>3, <3>4
  <2>10. CASE UNCHANGED meterVars
    <3>1. MeterTyped'
      BY <2>10 DEF meterVars, MeterTyped, Slots, Posts, Meter!Levels
    <3>2. Sending'
      BY <2>10 DEF meterVars, MeterTyped, Sending, Posting, Unsent, Slots, Posts
    <3>3. Loud'
      BY <2>10 DEF meterVars, MeterTyped, Sending, Loud, Slots, Posts, Meter!Levels
    <3>4. Credited'
      BY <2>10 DEF meterVars, MeterTyped, Credited, Slots, Posts
    <3> QED BY <3>1, <3>2, <3>3, <3>4
  <2>11. ASSUME NEW v \in Meter!Levels, NEW suspend \in BOOLEAN, Meter!Block(v, suspend)
        PROVE  MeterInv'
    <3>a. /\ UNCHANGED <<policy, route, hostLast, slot, lastPost, seen, taking, shown, credit>>
          /\ route = "direct" => posting = None
          /\ policy # "stream" => rendered' = rendered + 1 /\ rendered' <= MaxMeterBlocks
          /\ policy = "stream" => rendered' = rendered
          /\ moves' \in {moves, moves + 1} /\ moves' <= MaxMoves
          /\ suspend \/ (policy = "stream" /\ v # scratch) => moves' = moves + 1
          /\ scratch' \in {v, 0} /\ (policy = "stream" => scratch' = v)
      BY <2>11, SMT DEF Meter!Block, MeterTyped
    <3>b. CASE suspend
      <4>1. UNCHANGED <<previous, heldPeak, wire, posting, owedPeak>> /\ moves' = moves + 1
        BY <2>11, <3>a, <3>b DEF Meter!Block
      <4>2. MeterTyped'
        BY <3>a, <4>1 DEF MeterTyped, Meter!Levels
      <4>3. Sending'
        BY <3>a, <4>1 DEF MeterTyped, Sending, Posting, Unsent, Slots
      <4>4. Loud' /\ Credited'
        BY <3>a, <4>1 DEF Loud, Credited
      <4> QED BY <4>2, <4>3, <4>4
    <3>c. CASE ~suspend
      <4>1. /\ Meter!PublishStream \/ Meter!PublishPeak(v) \/ Meter!PublishTrig(v)
            /\ owedPeak' = IF policy = "peak" /\ v > shown THEN Meter!Louder(owedPeak, v) ELSE owedPeak
        BY <2>11, <3>c DEF Meter!Block
      <4>2. /\ wire \in Seq(Meter!Levels) /\ Len(wire) \in Nat /\ slot \in Slots /\ owedPeak \in Meter!Levels
            /\ heldPeak \in Meter!Levels /\ shown \in Meter!Levels
        BY DEF MeterTyped
      \* What is sent is posted, is on the wire, or there is no room.
      <4>3. ASSUME NEW w \in Meter!Levels, Meter!Send(w)
            PROVE  /\ posting' \in Posts \cup {None}
                   /\ posting' # None => posting'.curr.count = slot.count \/ posting' = posting
                   /\ wire' \in Seq(Meter!Levels) /\ Len(wire') <= Room
                   /\ route = "direct" => /\ wire' = wire
                                          /\ policy # "trig" \/ w # 0 => posting' # None /\ posting'.value = w
                   /\ route # "direct" => posting' = posting
                   /\ ~Meter!Sent => wire' = wire /\ posting' = posting /\ route # "direct"
                   /\ route # "direct" /\ Meter!Sent => wire' = Append(wire, w)
                   /\ \A i \in 1 .. Len(wire) : i \in 1 .. Len(wire') /\ wire'[i] = wire[i]
        <5>1. [value |-> w, curr |-> slot] \in Posts
          BY <4>2 DEF Posts
        <5>2. CASE route = "direct"
          BY <4>2, <4>3, <5>1, <5>2 DEF Meter!Send, Meter!Sent, Meter!PostBegins, MeterTyped, Posts, Slots
        <5>3. CASE route # "direct"
          <6>1. /\ Append(wire, w) \in Seq(Meter!Levels) /\ Len(Append(wire, w)) = Len(wire) + 1
                /\ \A i \in 1 .. Len(wire) : Append(wire, w)[i] = wire[i]
            BY <4>2, AppendProperties
          <6> QED BY <4>2, <4>3, <5>3, <6>1 DEF Meter!Send, Meter!Sent, MeterTyped
        <5> QED BY <5>2, <5>3
      <4>4. CASE policy = "stream" /\ Meter!PublishStream
        <5>1. /\ scratch' \in Meter!Levels /\ v \in Meter!Levels /\ scratch' = v
              /\ UNCHANGED <<heldPeak, owedPeak, rendered>>
          BY <3>a, <4>1, <4>4 DEF Meter!PublishStream
        <5>2. CASE scratch' = previous
          <6>1. UNCHANGED <<previous, wire, posting>>
            BY <4>4, <5>2 DEF Meter!PublishStream
          <6>2. MeterTyped'
            BY <3>a, <5>1, <6>1 DEF MeterTyped
          <6>3. Unsent' = 0 /\ Unsent \in Nat /\ Posting' = Posting /\ Posting \in Nat
            BY <5>2, <6>1 DEF Unsent, Posting
          <6>4. Sending'
            BY <3>a, <4>4, <6>1, <6>3 DEF Sending, MeterTyped, Slots
          <6> QED BY <3>a, <4>4, <5>1, <6>1, <6>2, <6>4 DEF Loud, Credited
        <5>3. CASE scratch' # previous
          <6>1. Meter!Send(v) /\ previous' = IF Meter!Sent THEN v ELSE previous
            BY <4>4, <5>1, <5>3 DEF Meter!PublishStream
          <6>2. MeterTyped'
            BY <3>a, <4>3, <5>1, <6>1 DEF MeterTyped
          <6>3. Unsent = 0 => scratch = previous
            BY DEF Unsent
          <6>4. /\ Unsent \in 0 .. 1 /\ Posting \in 0 .. 1 /\ Posting' \in 0 .. 1 /\ Unsent' \in 0 .. 1
                /\ Meter!Sent => Unsent' = 0
            BY <5>1, <6>1 DEF Unsent, Posting
          <6>5. Len(wire') + Posting' + Unsent' <= Len(wire) + Posting + 1
            <7>1. CASE route = "direct"
              <8>1. Posting = 0 /\ Meter!Sent /\ wire' = wire
                BY <3>a, <4>3, <6>1, <7>1 DEF Posting, Meter!Sent
              <8> QED BY <4>2, <6>4, <8>1
            <7>2. CASE route # "direct" /\ Meter!Sent
              <8>1. Posting' = Posting /\ Len(wire') = Len(wire) + 1
                BY <4>2, <4>3, <6>1, <7>2, AppendProperties DEF Posting
              <8> QED BY <4>2, <6>4, <7>2, <8>1
            <7>3. CASE ~Meter!Sent
              <8>1. Posting' = Posting /\ wire' = wire
                BY <4>3, <6>1, <7>3 DEF Posting
              <8> QED BY <4>2, <6>4, <8>1
            <7> QED BY <7>1, <7>2, <7>3
          <6>6. moves' = moves + 1 \/ Unsent = 1
            BY <3>a, <4>4, <5>1, <5>3, <6>3, <6>4
          <6>7. slot.count + Len(wire') + Posting' + Unsent' <= moves'
            <7>1. slot.count \in Nat /\ Len(wire') \in Nat /\ moves \in Nat /\ moves' \in Nat
              BY <6>2 DEF MeterTyped, Slots
            <7>2. slot.count + Len(wire) + Posting + Unsent <= moves
              BY <4>4 DEF Sending
            <7>3. moves' = moves \/ moves' = moves + 1
              BY <3>a
            <7>4. ASSUME NEW a \in Nat, NEW b \in Nat, NEW c \in Nat, NEW d \in Nat, NEW f \in Nat, NEW g \in Nat,
                         NEW h \in Nat, NEW m \in Nat, NEW n \in Nat,
                         b + c + d <= f + g + 1, a + f + g + h <= m, n = m + 1 \/ (n = m /\ h = 1)
                  PROVE  a + b + c + d <= n
              BY <7>4
            <7>5. /\ Posting \in Nat /\ Unsent \in Nat /\ Posting' \in Nat /\ Unsent' \in Nat /\ Len(wire) \in Nat
                  /\ moves' = moves + 1 \/ (moves' = moves /\ Unsent = 1)
              BY <4>2, <6>4, <6>6, <7>3
            <7> HIDE DEF Posting, Unsent
            <7> QED BY <6>5, <7>1, <7>2, <7>4, <7>5
          <6>8. posting' # None => posting'.curr.count = slot.count /\ route # "host"
            BY <3>a, <4>3, <6>1 DEF Sending
          <6>9. Sending'
            BY <3>a, <4>3, <4>4, <6>1, <6>7, <6>8 DEF Sending
          <6> QED BY <3>a, <4>4, <5>1, <6>2, <6>9 DEF Loud, Credited
        <5> QED BY <5>2, <5>3
      <4>5. CASE policy = "peak" /\ Meter!PublishPeak(v)
        <5> DEFINE w == Meter!Louder(heldPeak, v)
        <5>1. w \in Meter!Levels /\ heldPeak <= w /\ v <= w
          BY <4>2, LouderType
        <5>2. Meter!Send(w) /\ heldPeak' = (IF Meter!Sent THEN 0 ELSE w) /\ previous' = previous
          BY <4>5 DEF Meter!PublishPeak
        <5>3. owedPeak' \in {owedPeak, v} /\ owedPeak' \in Meter!Levels /\ (owedPeak' = owedPeak \/ v > shown)
          BY <4>1, <4>2, LouderType
        <5> HIDE DEF w
        <5>4. heldPeak' \in Meter!Levels /\ scratch' \in Meter!Levels
          BY <3>a, <5>1, <5>2 DEF Meter!Levels
        <5>5. MeterTyped'
          BY <3>a, <4>3, <4>5, <5>1, <5>2, <5>3, <5>4 DEF MeterTyped
        <5>6. Sending'
          BY <3>a, <4>3, <4>2, <4>5, <5>1, <5>2, MeterSends DEF MeterTyped, Slots
        <5>7. Loud'
          <6>1. owedPeak' = 0 \/ owedPeak' > shown'
            BY <3>a, <4>5, <5>3 DEF Loud
          <6>2. \/ w <= heldPeak' \/ (\E i \in 1 .. Len(wire') : w <= wire'[i])
                \/ (posting' # None /\ w <= posting'.value)
            <7>1. CASE ~Meter!Sent
              BY <5>1, <5>2, <7>1 DEF Meter!Levels
            <7>2. CASE route = "direct"
              BY <4>3, <4>5, <5>1, <5>2, <7>2 DEF Meter!Levels
            <7>3. CASE route # "direct" /\ Meter!Sent
              <8>1. wire' = Append(wire, w)
                BY <4>3, <5>1, <5>2, <7>3
              <8>2. Len(wire') = Len(wire) + 1 /\ wire'[Len(wire) + 1] = w
                BY <4>2, <5>1, <8>1, AppendProperties
              <8> QED BY <4>2, <5>1, <8>2 DEF Meter!Levels
            <7> QED BY <7>1, <7>2, <7>3
          <6>3. \/ owedPeak = 0 \/ owedPeak <= heldPeak \/ owedPeak <= slot.value
                \/ \E i \in 1 .. Len(wire) : owedPeak <= wire[i]
                \/ posting # None /\ owedPeak <= posting.value
            BY <4>5 DEF Loud
          <6>4. posting # None => posting' = posting \/ route = "direct"
            BY <4>3, <5>1, <5>2
          <6>5. posting # None => posting' = posting
            BY <3>a, <6>4
          <6>6. \/ owedPeak = 0 \/ owedPeak <= slot.value \/ owedPeak <= w
                \/ \E i \in 1 .. Len(wire') : owedPeak <= wire'[i]
                \/ posting' # None /\ owedPeak <= posting'.value
            <7>1. CASE \E i \in 1 .. Len(wire) : owedPeak <= wire[i]
              BY <4>3, <5>1, <5>2, <7>1
            <7>2. CASE owedPeak <= heldPeak
              BY <4>2, <5>1, <7>2 DEF Meter!Levels
            <7> QED BY <6>3, <6>5, <7>1, <7>2
          <6>7. w \in Nat /\ owedPeak' \in Nat /\ heldPeak' \in Nat /\ v \in Nat /\ v <= w
            BY <5>1, <5>3, <5>4 DEF Meter!Levels
          <6>8. \/ owedPeak' = 0 \/ owedPeak' <= heldPeak' \/ owedPeak' <= slot'.value
                \/ \E i \in 1 .. Len(wire') : owedPeak' <= wire'[i]
                \/ posting' # None /\ owedPeak' <= posting'.value
            <7>1. CASE owedPeak' <= w
              <8>1. CASE w <= heldPeak'
                BY <6>7, <7>1, <8>1
              <8>2. CASE \E i \in 1 .. Len(wire') : w <= wire'[i]
                <9>1. PICK i \in 1 .. Len(wire') : w <= wire'[i]
                  BY <8>2
                <9>2. wire'[i] \in Nat
                  <10>1. wire' \in Seq(Meter!Levels)
                    BY <5>5 DEF MeterTyped
                  <10>2. wire'[i] \in Meter!Levels
                    BY <9>1, <10>1, ElementOfSeq
                  <10> QED BY <10>2 DEF Meter!Levels
                <9> QED BY <6>7, <7>1, <9>1, <9>2
              <8>3. CASE posting' # None /\ w <= posting'.value
                <9>1. posting'.value \in Nat
                  BY <5>5, <8>3 DEF MeterTyped, Posts, Meter!Levels
                <9> QED BY <6>7, <7>1, <8>3, <9>1
              <8> QED BY <6>2, <8>1, <8>2, <8>3
            <7>2. CASE ~(owedPeak' <= w)
              <8>1. owedPeak' = owedPeak
                BY <5>3, <6>7, <7>2
              <8> QED BY <3>a, <6>6, <7>2, <8>1
            <7> QED BY <7>1, <7>2
          <6> QED BY <3>a, <4>5, <6>1, <6>8 DEF Loud
        <5> QED BY <3>a, <4>5, <5>5, <5>6, <5>7 DEF Credited
      <4>6. CASE policy = "trig" /\ Meter!PublishTrig(v)
        <5>1. UNCHANGED <<previous, heldPeak, owedPeak>> /\ (IF v # 0 THEN Meter!Send(v) ELSE UNCHANGED <<wire, posting>>)
          BY <4>1, <4>6 DEF Meter!PublishTrig
        <5>2. scratch' \in Meter!Levels
          BY <3>a DEF Meter!Levels
        <5>3. CASE v = 0
          <6>1. UNCHANGED <<wire, posting>>
            BY <5>1, <5>3
          <6>2. MeterTyped'
            BY <3>a, <4>6, <5>1, <5>2, <6>1 DEF MeterTyped
          <6>3. Posting' = Posting /\ Posting \in Nat
            BY <6>1 DEF Posting
          <6>4. Sending'
            BY <3>a, <4>6, <6>1, <6>3 DEF Sending, MeterTyped, Slots
          <6> QED BY <3>a, <4>6, <5>1, <6>1, <6>2, <6>4 DEF Loud, Credited
        <5>4. CASE v # 0
          <6>1. Meter!Send(v)
            BY <5>1, <5>4
          <6>2. MeterTyped'
            BY <3>a, <4>3, <4>6, <5>1, <5>2, <6>1 DEF MeterTyped
          <6>3. Sending'
            BY <3>a, <4>2, <4>3, <4>6, <6>1, MeterSends DEF MeterTyped, Slots
          <6>4. posting' # None => posting' = posting \/ posting'.value = v
            BY <4>3, <5>4, <6>1
          <6> QED BY <3>a, <4>6, <5>1, <5>4, <6>2, <6>3, <6>4 DEF Loud, Credited
        <5> QED BY <5>3, <5>4
      <4> QED BY <4>1, <4>4, <4>5, <4>6 DEF Meter!PublishStream, Meter!PublishPeak, Meter!PublishTrig
    <3> QED BY <3>b, <3>c
  <2> QED BY <2>1, <2>2, <2>3, <2>4, <2>5, <2>6, <2>7, <2>8, <2>9, <2>10, <2>11 DEF Meter!Next
<1> QED BY <1>1, <1>2

-----------------------------------------------------------------------------
(* Proofs.  BlockStore: the slot a reader is pointed at is whole, and stays   *)
(* so as long as the word says the same.                                     *)

StoreAssumed == Words \in Nat /\ MaxCopies \in Nat

\* What a slot may hold: words of several frames.
Cut == [1 .. Words -> 0 .. MaxCopies]
Fillings == [busy : {TRUE}, frame : Stored!Frames, word : 1 .. Words + 1]
Copyings == [busy : {TRUE}, seq : 1 .. MaxCopies, frame : Cut, word : 1 .. Words + 2]

StoresTyped ==
    /\ storePath \in {"direct", "pumped"}
    /\ sequence \in [Stored!Stores -> 0 .. MaxCopies] /\ lastSeen \in [Stored!Stores -> 0 .. MaxCopies]
    /\ halves \in [Stored!Stores -> [0 .. 1 -> Cut]]
    /\ storing \in [Stored!Stores -> Fillings \cup {Stored!Idle}]
    /\ copying \in [Stored!Stores -> Copyings \cup {Stored!Idle}]
    /\ accepted \in [Stored!Stores -> Stored!Frames] /\ given \in [Stored!Stores -> Stored!Frames]
    /\ published \in 0 .. MaxCopies

\* The words stored so far are the frame's; the words copied so far are those of the slot the word points at, if it
\* still does.
StoreHas(s) ==
    /\ Stored!Front(s) \in Stored!Frames
    /\ storing[s].busy =>
          \A w \in 1 .. Words : w < storing[s].word => halves[s][Stored!Back(s)][w] = storing[s].frame[w]
    /\ copying[s].busy =>
          /\ copying[s].seq <= sequence[s]
          /\ copying[s].seq = sequence[s] =>
                \A w \in 1 .. Words : w < copying[s].word => copying[s].frame[w] = Stored!Front(s)[w]

Filling(s) == IF storing[s].busy THEN 1 ELSE 0

\* A frame is pumped once, if at all.
PumpedOnce ==
    /\ sequence[Stored!Near] + Filling(Stored!Near) <= published
    /\ storePath = "direct" => sequence[Stored!Far] = 0 /\ ~storing[Stored!Far].busy
    /\ storePath = "pumped" =>
          /\ sequence[Stored!Far] + Filling(Stored!Far) <= lastSeen[Stored!Near]
          /\ lastSeen[Stored!Near] <= sequence[Stored!Near]
          /\ copying[Stored!Near].busy => lastSeen[Stored!Near] < copying[Stored!Near].seq

StoreInv == StoresTyped /\ PumpedOnce /\ StoreHas(Stored!Near) /\ StoreHas(Stored!Far)

LEMMA FrameTypes ==
    ASSUME StoreAssumed
    PROVE  /\ Stored!Empty \in Stored!Frames /\ Stored!Frames \subseteq Cut
           /\ \A n \in 0 .. MaxCopies : Stored!Frame(n) \in Stored!Frames
BY DEF StoreAssumed, Stored!Empty, Stored!Frames, Stored!Frame, Cut

LEMMA SameCut ==
    ASSUME NEW f \in Cut, NEW g \in Cut, \A w \in 1 .. Words : f[w] = g[w]
    PROVE  f = g
<1>1. f = [w \in 1 .. Words |-> f[w]] /\ g = [w \in 1 .. Words |-> g[w]]
  BY DEF Cut
<1> QED BY <1>1, Zenon

\* Near and Far.
LEMMA TwoStores ==
    /\ Stored!Near \in Stored!Stores /\ Stored!Far \in Stored!Stores /\ Stored!Near # Stored!Far
    /\ \A s \in Stored!Stores : s = Stored!Near \/ s = Stored!Far
BY DEF Stored!Near, Stored!Far, Stored!Stores

\* The slot being filled is not the one the readers are pointed at.
LEMMA BackIsNotFront ==
    ASSUME StoreAssumed, StoresTyped, NEW s \in Stored!Stores
    PROVE  /\ Stored!Back(s) \in 0 .. 1
           /\ sequence[s] # 0 => (sequence[s] - 1) % 2 \in 0 .. 1 /\ (sequence[s] - 1) % 2 # Stored!Back(s)
<1>1. sequence[s] \in Nat
  BY DEF StoreAssumed, StoresTyped
<1>2. \A n \in Nat : n % 2 \in 0 .. 1 /\ (n # 0 => (n - 1) % 2 \in 0 .. 1 /\ (n - 1) % 2 # n % 2)
  OBVIOUS
<1> QED BY <1>1, <1>2 DEF Stored!Back

\* What a producer and a reader are at while they are at it.
LEMMA Storing ==
    ASSUME StoreAssumed, StoresTyped, NEW s \in Stored!Stores, storing[s].busy
    PROVE  /\ storing[s] \in Fillings /\ storing[s].busy = TRUE
           /\ storing[s].frame \in Stored!Frames /\ storing[s].word \in Nat
           /\ storing[s].word >= 1 /\ storing[s].word <= Words + 1
<1>1. storing[s] \in Fillings \/ storing[s] = Stored!Idle
  BY DEF StoresTyped
<1>2. storing[s] # Stored!Idle
  BY DEF Stored!Idle
<1>3. storing[s] \in Fillings
  BY <1>1, <1>2
<1>4. storing[s].busy = TRUE /\ storing[s].frame \in Stored!Frames /\ storing[s].word \in 1 .. Words + 1
  BY <1>3 DEF Fillings
<1> QED BY <1>3, <1>4 DEF StoreAssumed

LEMMA Copying ==
    ASSUME StoreAssumed, StoresTyped, NEW s \in Stored!Stores, copying[s].busy
    PROVE  /\ copying[s] \in Copyings /\ copying[s].busy = TRUE /\ copying[s].frame \in Cut
           /\ copying[s].seq \in Nat /\ copying[s].seq >= 1 /\ copying[s].seq <= MaxCopies
           /\ copying[s].word \in Nat /\ copying[s].word >= 1 /\ copying[s].word <= Words + 2
<1>1. copying[s] \in Copyings \/ copying[s] = Stored!Idle
  BY DEF StoresTyped
<1>2. copying[s] # Stored!Idle
  BY DEF Stored!Idle
<1>3. copying[s] \in Copyings
  BY <1>1, <1>2
<1>4. /\ copying[s].busy = TRUE /\ copying[s].frame \in Cut
      /\ copying[s].seq \in 1 .. MaxCopies /\ copying[s].word \in 1 .. Words + 2
  BY <1>3 DEF Copyings
<1> QED BY <1>3, <1>4 DEF StoreAssumed

LEMMA Counts ==
    ASSUME StoreAssumed, StoresTyped, NEW s \in Stored!Stores
    PROVE  /\ sequence[s] \in Nat /\ sequence[s] <= MaxCopies /\ lastSeen[s] \in Nat /\ lastSeen[s] <= MaxCopies
           /\ published \in Nat /\ published <= MaxCopies
BY DEF StoreAssumed, StoresTyped

\* What a step does to one store it does not to the other.
LEMMA StoreKept ==
    ASSUME NEW s, StoreHas(s),
           sequence'[s] = sequence[s], halves'[s] = halves[s], storing'[s] = storing[s], copying'[s] = copying[s]
    PROVE  StoreHas(s)'
BY DEF StoreHas, Stored!Front, Stored!Back

LEMMA StoreInvariance ==
    ASSUME StoreAssumed
    PROVE  /\ Stored!Init => StoreInv
           /\ StoreInv /\ [Stored!Next]_storeVars => StoreInv'
<1>1. Stored!Init => StoreInv
  <2> SUFFICES ASSUME Stored!Init PROVE StoreInv
    OBVIOUS
  <2>1. Stored!Empty \in Stored!Frames /\ Stored!Empty \in Cut
    BY FrameTypes
  <2>2. StoresTyped
    BY <2>1, FrameTypes DEF Stored!Init, StoresTyped, Fillings, Copyings, StoreAssumed
  <2>3. \A s \in Stored!Stores : sequence[s] = 0 /\ storing[s].busy = FALSE /\ copying[s].busy = FALSE
    BY DEF Stored!Init, Stored!Idle
  <2>4. \A s \in Stored!Stores : StoreHas(s)
    BY <2>1, <2>3 DEF StoreHas, Stored!Front
  <2>5. PumpedOnce
    BY <2>3, TwoStores DEF Stored!Init, PumpedOnce, Filling, StoreAssumed
  <2> QED BY <2>2, <2>4, <2>5, TwoStores DEF StoreInv
<1>2. StoreInv /\ [Stored!Next]_storeVars => StoreInv'
  <2> SUFFICES ASSUME StoreInv, [Stored!Next]_storeVars PROVE StoreInv'
    OBVIOUS
  <2> USE DEF StoreInv
  <2>1. CASE Stored!Publish
    <3>1. /\ ~storing[Stored!Near].busy /\ published' = published + 1 /\ published < MaxCopies
          /\ storing' = [storing EXCEPT ![Stored!Near] = [busy |-> TRUE, frame |-> Stored!Frame(published'), word |-> 1]]
          /\ UNCHANGED <<storePath, sequence, halves, copying, accepted, given, lastSeen>>
      BY <2>1 DEF Stored!Publish, Stored!Fill
    <3>2. published' \in 0 .. MaxCopies
      BY <3>1 DEF StoresTyped, StoreAssumed
    <3>3. [busy |-> TRUE, frame |-> Stored!Frame(published'), word |-> 1] \in Fillings
      BY <3>2, FrameTypes DEF Fillings, StoreAssumed
    <3>4. StoresTyped'
      BY <3>1, <3>2, <3>3, TwoStores DEF StoresTyped
    <3>5. /\ storing'[Stored!Near] = [busy |-> TRUE, frame |-> Stored!Frame(published'), word |-> 1]
          /\ storing'[Stored!Far] = storing[Stored!Far]
      BY <3>1, TwoStores DEF StoresTyped
    <3>6. StoreHas(Stored!Near)'
      BY <3>1, <3>5 DEF StoreHas, Stored!Front, Stored!Back
    <3>7. StoreHas(Stored!Far)'
      BY <3>1, <3>5, StoreKept
    <3>8. PumpedOnce'
      BY <3>1, <3>5, TwoStores DEF PumpedOnce, Filling, StoresTyped
    <3> QED BY <3>4, <3>6, <3>7, <3>8
  <2>2. CASE \E s \in Stored!Stores : Stored!StoreWord(s)
    <3> PICK s \in Stored!Stores : Stored!StoreWord(s)
      BY <2>2
    <3>1. /\ storing[s].busy /\ storing[s].word <= Words
          /\ halves' = [halves EXCEPT ![s][Stored!Back(s)][storing[s].word] = storing[s].frame[storing[s].word]]
          /\ storing' = [storing EXCEPT ![s].word = @ + 1]
          /\ UNCHANGED <<storePath, sequence, copying, accepted, given, lastSeen, published>>
      BY DEF Stored!StoreWord
    <3> DEFINE k == storing[s].word
    <3>2. /\ k \in 1 .. Words /\ storing[s].frame \in Stored!Frames /\ storing[s].frame[k] \in 0 .. MaxCopies
          /\ storing'[s] = [storing[s] EXCEPT !.word = k + 1] /\ storing'[s] \in Fillings
          /\ storing'[s].busy /\ storing'[s].word = k + 1 /\ storing'[s].frame = storing[s].frame
      <4>1. storing[s] \in Fillings /\ storing[s].frame \in Cut /\ k \in 1 .. Words
        <5>1. storing[s] \in Fillings /\ storing[s].frame \in Stored!Frames /\ k \in Nat /\ k >= 1
          BY <3>1, Storing
        <5>2. storing[s].frame \in Cut
          BY <5>1, FrameTypes
        <5>3. k \in 1 .. Words
          BY <3>1, <5>1 DEF StoreAssumed
        <5> QED BY <5>1, <5>2, <5>3
      <4>2. storing'[s] = [storing[s] EXCEPT !.word = k + 1]
        BY <3>1 DEF StoresTyped
      <4>3. k + 1 \in 1 .. Words + 1
        BY <4>1 DEF StoreAssumed
      <4>4. storing[s].frame[k] \in 0 .. MaxCopies
        BY <4>1 DEF Cut
      <4>5. /\ storing'[s] \in Fillings /\ storing'[s].busy /\ storing'[s].word = k + 1
            /\ storing'[s].frame = storing[s].frame /\ storing[s].frame \in Stored!Frames
        BY <4>1, <4>2, <4>3 DEF Fillings
      <4> QED BY <4>1, <4>2, <4>4, <4>5
    <3>3. /\ halves'[s] = [halves[s] EXCEPT ![Stored!Back(s)][k] = storing[s].frame[k]]
          /\ halves'[s] \in [0 .. 1 -> Cut]
      BY <3>1, <3>2, BackIsNotFront DEF StoresTyped, Cut
    <3>4. StoresTyped'
      BY <3>1, <3>2, <3>3 DEF StoresTyped
    <3>5. /\ \A i \in 0 .. 1 : i # Stored!Back(s) => halves'[s][i] = halves[s][i]
          /\ \A w \in 1 .. Words : halves'[s][Stored!Back(s)][w] = IF w = k THEN storing[s].frame[k]
                                                                  ELSE halves[s][Stored!Back(s)][w]
      <4>1. Stored!Back(s) \in 0 .. 1 /\ halves[s] \in [0 .. 1 -> Cut] /\ halves[s][Stored!Back(s)] \in Cut
        BY BackIsNotFront DEF StoresTyped
      <4>2. halves'[s][Stored!Back(s)] = [halves[s][Stored!Back(s)] EXCEPT ![k] = storing[s].frame[k]]
        BY <3>3, <4>1
      <4>3. \A i \in 0 .. 1 : i # Stored!Back(s) => halves'[s][i] = halves[s][i]
        BY <3>3, <4>1
      <4> QED BY <4>1, <4>2, <4>3 DEF Cut
    <3>6. Stored!Front(s)' = Stored!Front(s) /\ Stored!Back(s)' = Stored!Back(s)
      BY <3>1, <3>5, BackIsNotFront DEF Stored!Front, Stored!Back
    <3>7. StoreHas(s)'
      BY <3>1, <3>2, <3>5, <3>6, TwoStores DEF StoreHas, StoreAssumed
    <3>8. \A t \in Stored!Stores : t # s => halves'[t] = halves[t] /\ storing'[t] = storing[t]
      BY <3>1 DEF StoresTyped
    <3>9. \A t \in Stored!Stores : t # s => StoreHas(t)'
      BY <3>1, <3>8, StoreKept, TwoStores
    <3>10. \A t \in Stored!Stores : storing'[t].busy = storing[t].busy
      BY <3>1, <3>2, <3>8 DEF StoresTyped, Fillings, Stored!Idle
    <3>11. PumpedOnce'
      BY <3>1, <3>10, TwoStores DEF PumpedOnce, Filling
    <3> QED BY <3>4, <3>7, <3>9, <3>11, TwoStores
  <2>3. CASE \E s \in Stored!Stores : Stored!PublishEnd(s)
    <3> PICK s \in Stored!Stores : Stored!PublishEnd(s)
      BY <2>3
    <3>1. /\ storing[s].busy /\ storing[s].word > Words
          /\ sequence' = [sequence EXCEPT ![s] = @ + 1] /\ storing' = [storing EXCEPT ![s] = Stored!Idle]
          /\ UNCHANGED <<storePath, halves, copying, accepted, given, lastSeen, published>>
      BY DEF Stored!PublishEnd
    <3>2. storing[s].frame \in Stored!Frames /\ storing[s].word = Words + 1
      <4>1. storing[s].frame \in Stored!Frames /\ storing[s].word \in Nat /\ storing[s].word <= Words + 1
        BY <3>1, Storing
      <4> QED BY <3>1, <4>1 DEF StoreAssumed
    <3>3. /\ sequence'[s] = sequence[s] + 1 /\ storing'[s] = Stored!Idle /\ storing'[s].busy = FALSE
          /\ \A t \in Stored!Stores : t # s => sequence'[t] = sequence[t] /\ storing'[t] = storing[t]
      BY <3>1 DEF StoresTyped, Stored!Idle
    <3>4. sequence[s] + 1 \in 0 .. MaxCopies /\ Filling(s) = 1 /\ Filling(s)' = 0
      <4>1. Filling(s) = 1 /\ Filling(s)' = 0
        BY <3>1, <3>3 DEF Filling
      <4>2. s = Stored!Far => storePath = "pumped"
        BY <3>1 DEF StoresTyped, PumpedOnce
      <4>3. \A t \in Stored!Stores : Filling(t) \in Nat
        BY DEF Filling
      <4>4. sequence[s] + 1 <= published
        BY <4>1, <4>2, <4>3, Counts, TwoStores DEF PumpedOnce
      <4> QED BY <4>1, <4>4, Counts DEF StoreAssumed
    <3>5. StoresTyped'
      BY <3>1, <3>4 DEF StoresTyped, Fillings
    <3>6. halves[s][Stored!Back(s)] = storing[s].frame
      <4>1. halves[s][Stored!Back(s)] \in Cut /\ storing[s].frame \in Cut
        BY <3>2, BackIsNotFront, FrameTypes DEF StoresTyped
      <4>2. \A w \in 1 .. Words : w < storing[s].word =>
                halves[s][Stored!Back(s)][w] = storing[s].frame[w]
        BY <3>1, TwoStores DEF StoreHas
      <4>3. \A w \in 1 .. Words : halves[s][Stored!Back(s)][w] = storing[s].frame[w]
        <5>1. \A w \in 1 .. Words : w < storing[s].word
          BY <3>2 DEF StoreAssumed
        <5> QED BY <4>2, <5>1
      <4> QED BY <4>1, <4>3, SameCut
    <3>7. Stored!Front(s)' = storing[s].frame
      <4>1. sequence'[s] # 0 /\ sequence'[s] - 1 = sequence[s]
        BY <3>3, Counts
      <4> QED BY <3>1, <3>6, <4>1 DEF Stored!Front, Stored!Back
    <3>8. StoreHas(s)'
      <4>1. copying[s].busy => copying[s].seq < sequence'[s] /\ copying[s].seq <= sequence'[s]
        <5>1. copying[s].busy => copying[s].seq <= sequence[s]
          BY TwoStores DEF StoreHas
        <5>2. copying[s].busy => copying[s].seq \in Nat
          BY Copying
        <5>3. sequence'[s] = sequence[s] + 1 /\ sequence[s] \in Nat
          BY <3>3, Counts
        <5>4. \A m, n \in Nat : m <= n => m < n + 1 /\ m <= n + 1
          OBVIOUS
        <5> QED BY <5>1, <5>2, <5>3, <5>4
      <4>2. copying[s].busy => copying[s].seq # sequence'[s]
        BY <4>1, <3>3, Counts, Copying
      <4> QED BY <3>1, <3>2, <3>3, <3>7, <4>1, <4>2 DEF StoreHas
    <3>9. \A t \in Stored!Stores : t # s => StoreHas(t)'
      BY <3>1, <3>3, StoreKept, TwoStores
    <3>10. PumpedOnce'
      BY <3>1, <3>3, <3>4, TwoStores DEF PumpedOnce, Filling, StoresTyped
    <3> QED BY <3>5, <3>8, <3>9, <3>10, TwoStores
  <2>4. CASE Stored!Wipe
    <3> DEFINE s == Stored!Near
    <3>1. /\ storePath = "direct" /\ ~storing[s].busy /\ ~copying[s].busy
          /\ sequence' = [sequence EXCEPT ![s] = 0]
          /\ halves' = [halves EXCEPT ![s] = [i \in 0 .. 1 |-> Stored!Empty]]
          /\ UNCHANGED <<storePath, storing, copying, accepted, given, lastSeen, published>>
      BY <2>4 DEF Stored!Wipe
    <3>2. sequence'[s] = 0 /\ sequence'[Stored!Far] = sequence[Stored!Far] /\ halves'[Stored!Far] = halves[Stored!Far]
      BY <3>1, TwoStores DEF StoresTyped
    <3>3. StoresTyped'
      BY <3>1, FrameTypes, TwoStores DEF StoresTyped, StoreAssumed
    <3>4. StoreHas(s)'
      BY <3>1, <3>2, FrameTypes DEF StoreHas, Stored!Front
    <3>5. StoreHas(Stored!Far)'
      BY <3>1, <3>2, StoreKept
    <3>6. PumpedOnce'
      BY <3>1, <3>2, TwoStores DEF PumpedOnce, Filling, StoresTyped
    <3> QED BY <3>3, <3>4, <3>5, <3>6
  <2>5. ASSUME NEW s \in Stored!Stores, Stored!Fetches(s)
        PROVE  StoreInv'
    <3>1. CASE Stored!Forget(s)
      <4>1. /\ sequence[s] = 0 /\ lastSeen[s] # 0 /\ lastSeen' = [lastSeen EXCEPT ![s] = 0]
            /\ UNCHANGED <<storePath, sequence, halves, storing, copying, accepted, given, published>>
        BY <3>1 DEF Stored!Forget
      <4>2. StoresTyped'
        BY <4>1 DEF StoresTyped, StoreAssumed
      <4>3. storePath = "pumped" => s # Stored!Near
        BY <4>1, TwoStores DEF PumpedOnce, StoresTyped
      <4>4. PumpedOnce'
        BY <4>1, <4>3, TwoStores DEF PumpedOnce, Filling, StoresTyped
      <4> QED BY <4>1, <4>2, <4>4, StoreKept, TwoStores
    <3>2. CASE Stored!CopyBegin(s)
      <4>1. /\ sequence[s] \notin {0, lastSeen[s]}
            /\ copying' = [copying EXCEPT ![s] = [busy |-> TRUE, seq |-> sequence[s], frame |-> Stored!Empty, word |-> 1]]
            /\ UNCHANGED <<storePath, sequence, halves, storing, accepted, given, lastSeen, published>>
        BY <3>2 DEF Stored!CopyBegin
      <4>2. [busy |-> TRUE, seq |-> sequence[s], frame |-> Stored!Empty, word |-> 1] \in Copyings
        BY <4>1, FrameTypes DEF Copyings, StoresTyped, StoreAssumed
      <4>3. StoresTyped'
        BY <4>1, <4>2 DEF StoresTyped
      <4>4. /\ copying'[s] = [busy |-> TRUE, seq |-> sequence[s], frame |-> Stored!Empty, word |-> 1]
            /\ \A t \in Stored!Stores : t # s => copying'[t] = copying[t]
        BY <4>1 DEF StoresTyped
      <4>5. StoreHas(s)'
        BY <4>1, <4>4, TwoStores DEF StoreHas, Stored!Front, Stored!Back, StoresTyped
      <4>6. \A t \in Stored!Stores : t # s => StoreHas(t)'
        BY <4>1, <4>4, StoreKept, TwoStores
      <4>7. PumpedOnce'
        <5>1. copying'[s].seq = sequence[s]
          BY <4>4
        <5>2. storePath = "pumped" => lastSeen[Stored!Near] <= sequence[Stored!Near]
          BY DEF PumpedOnce
        <5>3. storePath = "pumped" /\ s = Stored!Near => lastSeen[Stored!Near] < sequence[Stored!Near]
          BY <4>1, <5>2, Counts, TwoStores
        <5>4. storePath = "pumped" /\ copying'[Stored!Near].busy => lastSeen[Stored!Near] < copying'[Stored!Near].seq
          BY <4>4, <5>1, <5>3, TwoStores DEF PumpedOnce
        <5> QED BY <4>1, <5>4 DEF PumpedOnce, Filling
      <4> QED BY <4>3, <4>5, <4>6, <4>7, TwoStores
    <3>3. CASE Stored!LoadWord(s)
      <4> DEFINE c == copying[s]
                 i == (c.seq - 1) % 2
      <4>1. /\ c.busy /\ c.word <= Words
            /\ copying' = [copying EXCEPT ![s].frame[c.word] = halves[s][i][c.word], ![s].word = @ + 1]
            /\ UNCHANGED <<storePath, sequence, halves, storing, accepted, given, lastSeen, published>>
        BY <3>3 DEF Stored!LoadWord
      <4>2. /\ c \in Copyings /\ c.busy = TRUE /\ c.frame \in Cut
            /\ c.seq \in Nat /\ c.seq >= 1 /\ c.seq <= MaxCopies
            /\ c.word \in Nat /\ c.word >= 1 /\ c.word <= Words + 2
        BY <4>1, Copying
      <4>3. i \in 0 .. 1 /\ c.word \in 1 .. Words /\ halves[s][i] \in Cut /\ halves[s][i][c.word] \in 0 .. MaxCopies
        <5>1. \A n \in Nat : n >= 1 => (n - 1) % 2 \in 0 .. 1
          OBVIOUS
        <5>2. i \in 0 .. 1
          BY <4>2, <5>1
        <5>3. c.word \in 1 .. Words
          BY <4>1, <4>2 DEF StoreAssumed
        <5>4. halves[s][i] \in Cut
          BY <5>2 DEF StoresTyped
        <5> QED BY <5>2, <5>3, <5>4 DEF Cut
      <4>4. copying'[s] = [c EXCEPT !.frame = [@ EXCEPT ![c.word] = halves[s][i][c.word]], !.word = @ + 1]
        BY <4>1, <4>2 DEF StoresTyped
      <4>5. /\ copying'[s].busy = TRUE /\ copying'[s].seq = c.seq /\ copying'[s].word = c.word + 1
            /\ copying'[s].frame = [c.frame EXCEPT ![c.word] = halves[s][i][c.word]]
            /\ \A t \in Stored!Stores : t # s => copying'[t] = copying[t]
        <5>1. \A t \in Stored!Stores : t # s => copying'[t] = copying[t]
          BY <4>1 DEF StoresTyped
        <5> QED BY <4>2, <4>4, <5>1 DEF Copyings
      <4>6. copying'[s] \in Copyings
        <5>1. [c.frame EXCEPT ![c.word] = halves[s][i][c.word]] \in Cut
          BY <4>2, <4>3 DEF Cut
        <5>2. c.word + 1 \in 1 .. Words + 2
          BY <4>3 DEF StoreAssumed
        <5> QED BY <4>2, <4>4, <5>1, <5>2 DEF Copyings
      <4>7. StoresTyped'
        BY <4>1, <4>6 DEF StoresTyped
      <4>8. StoreHas(s)'
        <5>1. c.seq = sequence[s] => Stored!Front(s) = halves[s][i]
          BY <4>2, Counts DEF Stored!Front
        <5>2. Stored!Front(s)' = Stored!Front(s) /\ Stored!Back(s)' = Stored!Back(s)
          BY <4>1 DEF Stored!Front, Stored!Back
        <5>3. c.seq = sequence[s] =>
                \A w \in 1 .. Words : w < c.word + 1 => copying'[s].frame[w] = Stored!Front(s)[w]
          <6> SUFFICES ASSUME c.seq = sequence[s], NEW w \in 1 .. Words, w < c.word + 1
                       PROVE  copying'[s].frame[w] = Stored!Front(s)[w]
            OBVIOUS
          <6>1. CASE w = c.word
            <7>1. c.frame \in Cut /\ Stored!Front(s) = halves[s][i]
              BY <4>2, <5>1
            <7>2. copying'[s].frame[w] = halves[s][i][w]
              BY <4>3, <4>5, <6>1, <7>1 DEF Cut
            <7> QED BY <7>1, <7>2
          <6>2. CASE w # c.word
            <7>1. w < c.word
              BY <4>3, <6>2 DEF StoreAssumed
            <7>2. c.frame[w] = Stored!Front(s)[w]
              BY <4>1, <7>1, TwoStores DEF StoreHas
            <7> QED BY <4>2, <4>5, <6>2, <7>2 DEF Cut
          <6> QED BY <6>1, <6>2
        <5>4. c.seq <= sequence[s] /\ Stored!Front(s) \in Stored!Frames
          BY <4>1, TwoStores DEF StoreHas
        <5>5. storing[s].busy =>
                  \A w \in 1 .. Words : w < storing[s].word => halves[s][Stored!Back(s)][w] = storing[s].frame[w]
          BY TwoStores DEF StoreHas
        <5>6. storing'[s] = storing[s] /\ sequence'[s] = sequence[s] /\ halves'[s] = halves[s]
          BY <4>1
        <5>7. /\ Stored!Front(s)' \in Stored!Frames
              /\ copying'[s].busy /\ copying'[s].seq <= sequence'[s]
              /\ copying'[s].seq = sequence'[s] =>
                    \A w \in 1 .. Words : w < copying'[s].word => copying'[s].frame[w] = Stored!Front(s)'[w]
          <6>1. copying'[s].busy = TRUE /\ copying'[s].seq = c.seq /\ copying'[s].word = c.word + 1
            BY <4>5
          <6>2. Stored!Front(s)' \in Stored!Frames /\ copying'[s].busy /\ copying'[s].seq <= sequence'[s]
            BY <5>2, <5>4, <5>6, <6>1
          <6>3. copying'[s].seq = sequence'[s] =>
                    \A w \in 1 .. Words : w < c.word + 1 => copying'[s].frame[w] = Stored!Front(s)'[w]
            BY <5>2, <5>3, <5>6, <6>1, Zenon
          <6> QED BY <6>1, <6>2, <6>3
        <5>8. storing'[s].busy => \A w \in 1 .. Words : w < storing'[s].word =>
                                        halves'[s][Stored!Back(s)'][w] = storing'[s].frame[w]
          BY SMTT(30), <5>2, <5>5, <5>6
        <5> QED BY <5>7, <5>8 DEF StoreHas
      <4>9. \A t \in Stored!Stores : t # s => StoreHas(t)'
        BY <4>1, <4>5, StoreKept, TwoStores
      <4>10. PumpedOnce'
        BY <4>1, <4>5, TwoStores DEF PumpedOnce, Filling, StoresTyped
      <4> QED BY <4>7, <4>8, <4>9, <4>10, TwoStores
    <3>4. CASE Stored!Reject(s)
      <4>1. /\ copying' = [copying EXCEPT ![s] = Stored!Idle]
            /\ UNCHANGED <<storePath, sequence, halves, storing, accepted, given, lastSeen, published>>
        BY <3>4 DEF Stored!Reject
      <4>2. StoresTyped'
        BY <4>1 DEF StoresTyped, Copyings
      <4>3. copying'[s].busy = FALSE /\ \A t \in Stored!Stores : t # s => copying'[t] = copying[t]
        BY <4>1 DEF StoresTyped, Stored!Idle
      <4>4. StoreHas(s)'
        BY <4>1, <4>3, TwoStores DEF StoreHas, Stored!Front, Stored!Back
      <4>5. \A t \in Stored!Stores : t # s => StoreHas(t)'
        BY <4>1, <4>3, StoreKept, TwoStores
      <4>6. PumpedOnce'
        BY <4>1, <4>3, TwoStores DEF PumpedOnce, Filling, StoresTyped
      <4> QED BY <4>2, <4>4, <4>5, <4>6, TwoStores
    <3>5. CASE Stored!Accept(s)
      <4> DEFINE c == copying[s]
      <4>1. /\ c.busy /\ c.word = Words + 1 /\ sequence[s] = c.seq
            /\ accepted' = [accepted EXCEPT ![s] = c.frame] /\ copying' = [copying EXCEPT ![s].word = @ + 1]
            /\ UNCHANGED <<storePath, sequence, halves, storing, given, lastSeen, published>>
        BY <3>5 DEF Stored!Accept, Stored!Copied
      <4>2. /\ c \in Copyings /\ c.busy = TRUE /\ c.frame \in Cut
            /\ c.seq \in Nat /\ c.seq >= 1 /\ c.seq <= MaxCopies
            /\ c.word \in Nat /\ c.word >= 1 /\ c.word <= Words + 2
        BY <4>1, Copying
      <4>3. c.frame = Stored!Front(s)
        <5>1. Stored!Front(s) \in Cut
          BY FrameTypes, TwoStores DEF StoreHas
        <5>2. \A w \in 1 .. Words : w < c.word => c.frame[w] = Stored!Front(s)[w]
          BY <4>1, TwoStores DEF StoreHas
        <5>3. \A w \in 1 .. Words : c.frame[w] = Stored!Front(s)[w]
          <6>1. \A w \in 1 .. Words : w < c.word
            BY <4>1 DEF StoreAssumed
          <6> QED BY <5>2, <6>1
        <5> QED BY <4>2, <5>1, <5>3, SameCut
      <4>4. /\ copying'[s] = [c EXCEPT !.word = Words + 2] /\ copying'[s] \in Copyings
            /\ \A t \in Stored!Stores : t # s => copying'[t] = copying[t]
        <5>1. copying'[s] = [c EXCEPT !.word = c.word + 1] /\ \A t \in Stored!Stores : t # s => copying'[t] = copying[t]
          BY <4>1 DEF StoresTyped
        <5>2. c.word + 1 = Words + 2 /\ Words + 2 \in 1 .. Words + 2
          BY <4>1 DEF StoreAssumed
        <5> QED BY <4>2, <5>1, <5>2 DEF Copyings
      <4>5. StoresTyped'
        BY SMTT(30), <4>1, <4>3, <4>4, TwoStores DEF StoresTyped, StoreHas
      <4>6. copying'[s].busy = TRUE /\ copying'[s].seq = c.seq /\ copying'[s].frame = c.frame
        BY <4>2, <4>4
      <4>7. StoreHas(s)'
        BY <4>1, <4>3, <4>6, TwoStores DEF StoreHas, Stored!Front, Stored!Back
      <4>8. \A t \in Stored!Stores : t # s => StoreHas(t)'
        BY <4>1, <4>4, StoreKept, TwoStores
      <4>9. PumpedOnce'
        BY <4>1, <4>4, <4>6, TwoStores DEF PumpedOnce, Filling, StoresTyped
      <4> QED BY <4>5, <4>7, <4>8, <4>9, TwoStores
    <3>6. CASE Stored!Give(s)
      <4> DEFINE c == copying[s]
      <4>1. /\ c.busy /\ c.word = Words + 2
            /\ given' = [given EXCEPT ![s] = accepted[s]] /\ lastSeen' = [lastSeen EXCEPT ![s] = c.seq]
            /\ copying' = [copying EXCEPT ![s] = Stored!Idle]
            /\ UNCHANGED <<storePath, sequence, halves, accepted, published>>
            /\ IF storePath = "pumped" /\ s = Stored!Near THEN Stored!Fill(Stored!Far, accepted[s]) ELSE UNCHANGED storing
        BY <3>6 DEF Stored!Give
      <4>2. /\ c \in Copyings /\ c.busy = TRUE /\ c.frame \in Cut
            /\ c.seq \in Nat /\ c.seq >= 1 /\ c.seq <= MaxCopies
            /\ c.word \in Nat /\ c.word >= 1 /\ c.word <= Words + 2
        BY <4>1, Copying
      <4>3. /\ copying'[s].busy = FALSE /\ \A t \in Stored!Stores : t # s => copying'[t] = copying[t]
            /\ lastSeen'[s] = c.seq /\ \A t \in Stored!Stores : t # s => lastSeen'[t] = lastSeen[t]
        BY <4>1 DEF StoresTyped, Stored!Idle
      <4>4. CASE storePath = "pumped" /\ s = Stored!Near
        <5>1. /\ ~storing[Stored!Far].busy
              /\ storing' = [storing EXCEPT ![Stored!Far] = [busy |-> TRUE, frame |-> accepted[s], word |-> 1]]
          BY <4>1, <4>4 DEF Stored!Fill
        <5>2. [busy |-> TRUE, frame |-> accepted[s], word |-> 1] \in Fillings
          BY DEF Fillings, StoresTyped, StoreAssumed
        <5>3. StoresTyped'
          <6>1. c.seq \in 0 .. MaxCopies
            BY <4>2 DEF StoreAssumed
          <6> QED BY <4>1, <5>1, <5>2, <6>1, TwoStores DEF StoresTyped
        <5>4. /\ storing'[Stored!Far] = [busy |-> TRUE, frame |-> accepted[s], word |-> 1]
              /\ storing'[Stored!Near] = storing[Stored!Near]
          BY <5>1, TwoStores DEF StoresTyped
        <5>5. StoreHas(Stored!Near)'
          BY <4>1, <4>3, <4>4, <5>4 DEF StoreHas, Stored!Front, Stored!Back
        <5>6. StoreHas(Stored!Far)'
          BY <4>1, <4>3, <4>4, <5>4, TwoStores DEF StoreHas, Stored!Front, Stored!Back
        <5>7. PumpedOnce'
          BY <4>1, <4>2, <4>3, <4>4, <5>1, <5>4, TwoStores DEF PumpedOnce, Filling, StoresTyped, StoreHas
        <5> QED BY <5>3, <5>5, <5>6, <5>7
      <4>5. CASE ~(storePath = "pumped" /\ s = Stored!Near)
        <5>1. UNCHANGED storing
          BY <4>1, <4>5
        <5>2. StoresTyped'
          <6>1. c.seq \in 0 .. MaxCopies
            BY <4>2 DEF StoreAssumed
          <6> QED BY <4>1, <5>1, <6>1, TwoStores DEF StoresTyped
        <5>3. StoreHas(s)'
          BY <4>1, <4>3, <5>1, TwoStores DEF StoreHas, Stored!Front, Stored!Back
        <5>4. \A t \in Stored!Stores : t # s => StoreHas(t)'
          BY <4>1, <4>3, <5>1, StoreKept, TwoStores
        <5>5. PumpedOnce'
          BY <4>1, <4>3, <4>5, <5>1, TwoStores DEF PumpedOnce, Filling, StoresTyped
        <5> QED BY <5>2, <5>3, <5>4, <5>5, TwoStores
      <4> QED BY <4>4, <4>5
    <3> QED BY <2>5, <3>1, <3>2, <3>3, <3>4, <3>5, <3>6 DEF Stored!Fetches
  <2>6. CASE UNCHANGED storeVars
    <3>1. UNCHANGED <<storePath, sequence, halves, storing, copying, accepted, given, lastSeen, published>>
      BY <2>6 DEF storeVars
    <3> QED BY <3>1, StoreKept DEF StoresTyped, PumpedOnce, Filling
  <2>7. ASSUME NEW s \in Stored!Stores, Stored!Quiet(s)
        PROVE  UNCHANGED storeVars
    BY <2>7 DEF Stored!Quiet, Stored!storeVars, storeVars
  <2> QED BY <2>1, <2>2, <2>3, <2>4, <2>5, <2>6, <2>7 DEF Stored!Next, Stored!Fills
<1> QED BY <1>1, <1>2

-----------------------------------------------------------------------------
(* Proofs.  What the invariants are for.                                     *)

LEMMA BlocksHold ==
    ASSUME MaxFrames \in Nat, MaxPublishes \in Nat, BlockInv
    PROVE  Frame!TypeOK /\ Frame!NewsOnce
<1> USE DEF BlockInv
<1>1. news \in Nat /\ publishes \in Nat /\ Len(messages) \in Nat
  BY DEF BlockCounts
<1>2. Unread \in Nat /\ Unfetched \in Nat /\ Owing \in Nat
  BY DEF Unread, Unfetched, Owing
<1>3. news <= publishes
  BY <1>1, <1>2 DEF Underway
<1>4. frame <= transmitted
  BY DEF Aged, BlockCounts, BlockFlags
<1>5. outgoing.seq \in 0 .. MaxPublishes
  BY DEF BlockCounts
<1> QED BY <1>3, <1>4, <1>5 DEF Frame!TypeOK, Frame!NewsOnce, BlockCounts

LEMMA MetersHold ==
    ASSUME MeterAssumption, MeterInv
    PROVE  Meter!TypeOK /\ Meter!PeaksKept /\ Meter!TriggersOnce
<1> USE DEF MeterInv
<1>1. slot \in Slots /\ seen \in Slots /\ slot.count \in Nat /\ seen.count \in Nat /\ seen.count <= slot.count
  BY DEF MeterTyped, Sending, Slots
<1>2. Len(wire) \in Nat /\ Posting \in Nat /\ Unsent \in Nat
  BY DEF MeterTyped, Posting, Unsent
<1>3. slot.count <= MaxMeterBlocks + MaxMoves
  <2>1. rendered \in Nat /\ rendered <= MaxMeterBlocks /\ moves \in Nat /\ moves <= MaxMoves
    BY DEF MeterTyped, MeterAssumption
  <2>2. slot.count <= moves \/ slot.count <= rendered
    BY <1>1, <1>2, <2>1 DEF Sending
  <2> QED BY <1>1, <2>1, <2>2 DEF MeterAssumption
<1>4. slot \in Meter!SlotType /\ seen \in Meter!SlotType
  BY <1>1, <1>3 DEF Meter!SlotType, Slots, MeterAssumption
<1>5. Meter!TypeOK
  BY <1>4 DEF Meter!TypeOK, MeterTyped
<1>6. Meter!PeaksKept
  <2>1. CASE owedPeak = 0
    BY <2>1 DEF Meter!PeaksKept
  <2>2. CASE owedPeak <= heldPeak
    BY <2>2 DEF Meter!PeaksKept
  <2>3. CASE owedPeak <= slot.value
    BY <2>3 DEF Meter!PeaksKept
  <2>4. CASE \E i \in 1 .. Len(wire) : owedPeak <= wire[i]
    <3>1. PICK i \in 1 .. Len(wire) : owedPeak <= wire[i]
      BY <2>4
    <3>2. i \in DOMAIN wire
      BY DEF MeterTyped
    <3> QED BY <3>1, <3>2 DEF Meter!PeaksKept
  <2>5. CASE posting # None /\ owedPeak <= posting.value
    BY <2>5 DEF Meter!PeaksKept
  <2> QED BY <2>1, <2>2, <2>3, <2>4, <2>5 DEF Loud
<1>7. Meter!TriggersOnce
  BY DEF Meter!TriggersOnce, MeterTyped
<1> QED BY <1>5, <1>6, <1>7

LEMMA StoresHold ==
    ASSUME StoreAssumed, StoreInv
    PROVE  Stored!TypeOK
BY Counts, TwoStores DEF StoreInv, StoresTyped, Stored!TypeOK, StoreAssumed

\* A store's steps, as its reader sees them: it takes what the word points at, or passes on what it took, or neither.
ReadsOn(s) ==
    \/ accepted'[s] = accepted[s] /\ given'[s] = given[s]
    \/ Stored!Front(s)' = Stored!Front(s) /\ accepted'[s] = Stored!Front(s) /\ given'[s] = given[s]
    \/ Stored!Front(s)' = Stored!Front(s) /\ accepted'[s] = accepted[s] /\ given'[s] = accepted[s]

LEMMA StoreReads ==
    ASSUME StoreAssumed, StoreInv, [Stored!Next]_storeVars, NEW s \in Stored!Stores
    PROVE  ReadsOn(s)
<1> USE DEF StoreInv
<1>1. CASE UNCHANGED <<accepted, given>>
  BY <1>1 DEF ReadsOn
<1>2. ASSUME NEW t \in Stored!Stores, Stored!Accept(t)
      PROVE  ReadsOn(s)
  <2>1. /\ copying[t].busy /\ copying[t].word = Words + 1 /\ sequence[t] = copying[t].seq
        /\ accepted' = [accepted EXCEPT ![t] = copying[t].frame]
        /\ sequence' = sequence /\ halves' = halves /\ given' = given
    BY <1>2 DEF Stored!Accept, Stored!Copied
  <2>2. copying[t].frame = Stored!Front(t)
    <3>1. Stored!Front(t) \in Cut
      BY FrameTypes, TwoStores DEF StoreHas
    <3>2. \A w \in 1 .. Words : w < copying[t].word => copying[t].frame[w] = Stored!Front(t)[w]
      BY <2>1, TwoStores DEF StoreHas
    <3>3. \A w \in 1 .. Words : w < copying[t].word
      BY <2>1 DEF StoreAssumed
    <3> QED BY <2>1, <3>1, <3>2, <3>3, Copying, SameCut
  <2>3. Stored!Front(s)' = Stored!Front(s)
    BY <2>1 DEF Stored!Front
  <2> QED BY <2>1, <2>2, <2>3 DEF ReadsOn, StoresTyped
<1>3. ASSUME NEW t \in Stored!Stores, Stored!Give(t)
      PROVE  ReadsOn(s)
  <2>1. /\ given' = [given EXCEPT ![t] = accepted[t]]
        /\ sequence' = sequence /\ halves' = halves /\ accepted' = accepted
    BY <1>3 DEF Stored!Give
  <2>2. Stored!Front(s)' = Stored!Front(s)
    BY <2>1 DEF Stored!Front
  <2> QED BY <2>1, <2>2 DEF ReadsOn, StoresTyped
<1>4. CASE Stored!Publish \/ Stored!Fills \/ Stored!Wipe
  BY <1>1, <1>4 DEF Stored!Publish, Stored!Fills, Stored!StoreWord, Stored!PublishEnd, Stored!Wipe
<1>5. ASSUME NEW t \in Stored!Stores,
             Stored!Forget(t) \/ Stored!CopyBegin(t) \/ Stored!LoadWord(t) \/ Stored!Reject(t)
      PROVE  ReadsOn(s)
  BY <1>1, <1>5 DEF Stored!Forget, Stored!CopyBegin, Stored!LoadWord, Stored!Reject
<1>6. CASE UNCHANGED storeVars
  BY <1>1, <1>6 DEF storeVars
<1>7. ASSUME NEW t \in Stored!Stores, Stored!Quiet(t)
      PROVE  ReadsOn(s)
  BY <1>1, <1>7 DEF Stored!Quiet, Stored!storeVars
<1> QED BY <1>2, <1>3, <1>4, <1>5, <1>6, <1>7 DEF Stored!Next, Stored!Fetches

LEMMA StoreSteps ==
    ASSUME StoreAssumed, StoreInv, StoreInv', [Stored!Next]_storeVars
    PROVE  /\ [Stored!NearLatest!LVNext]_(Stored!NearLatest!lvvars)
           /\ [Stored!FarLatest!LVNext]_(Stored!FarLatest!lvvars)
<1>1. ReadsOn(Stored!Near) /\ ReadsOn(Stored!Far)
  BY StoreReads, TwoStores
<1>2. Stored!Front(Stored!Near)' \in Stored!Frames /\ Stored!Front(Stored!Far)' \in Stored!Frames
  BY DEF StoreInv, StoreHas
<1>3. Stored!NearLatest!LVNext
  BY <1>1, <1>2 DEF ReadsOn, Stored!NearLatest!LVNext, Stored!NearLatest!Publish, Stored!NearLatest!Take,
                    Stored!NearLatest!Deliver
<1>4. Stored!FarLatest!LVNext
  BY <1>1, <1>2 DEF ReadsOn, Stored!FarLatest!LVNext, Stored!FarLatest!Publish, Stored!FarLatest!Take,
                    Stored!FarLatest!Deliver
<1> QED BY <1>3, <1>4

LEMMA StoresStart ==
    ASSUME StoreAssumed, Stored!Init
    PROVE  Stored!NearLatest!LVInit /\ Stored!FarLatest!LVInit
BY TwoStores DEF Stored!Init, Stored!Front, Stored!NearLatest!LVInit, Stored!FarLatest!LVInit

-----------------------------------------------------------------------------
(* Proofs.  ByteRing: what a ring holds is the tail of a log, entry after    *)
(* entry, and the cells not yet read are still what was written.             *)

RingAssumed == Capacity \in Nat \ {0} /\ Sizes \subseteq Nat /\ Sizes # {} /\ MaxEntries \in Nat \ {0}

Mark == {Ring!Unwritten} \cup {Ring!CellOf(e, i) : e \in Ring!Entry, i \in Nat}
Writings == [busy : {TRUE}, from : Nat, read : Nat, entry : Ring!Entry \cup {Ring!NoEntry}, at : Nat,
             batch : Seq(Ring!Entry)]
Drainings == [busy : {TRUE}, limit : Nat, at : Nat, cells : Seq(Mark)]

RingTyped ==
    /\ ringPath \in {"returns", "inbound", "split"} /\ tried \in 0 .. MaxEntries
    /\ cells \in [Ring!Rings -> [0 .. Capacity - 1 -> Mark]]
    /\ written \in [Ring!Rings -> Nat] /\ unread \in [Ring!Rings -> Nat]
    /\ filling \in [Ring!Rings -> Writings \cup {Ring!Idle}]
    /\ draining \in [Ring!Rings -> Drainings \cup {Ring!Idle}]
    /\ pushed \in [Ring!Rings -> Seq(Ring!Entry)] /\ heard \in [Ring!Rings -> Seq(Ring!Entry)]

\* The entries laid out in a ring since the start and where each ends; how many were begun, written whole, published and
\* consumed, and how many its consumer knows of.
Logs == [entry : [Nat -> Ring!Entry], end : [Nat -> Nat],
         begun : Nat, done : Nat, sent : Nat, used : Nat, till : Nat]

Ordered(g) ==
    /\ \A i \in 1 .. g.begun : g.end[i] = g.end[i - 1] + Ring!Total(g.entry[i])
    /\ \A i, j \in 0 .. g.begun : i < j => g.end[i + 1] <= g.end[j]

Loaded(r) == IF filling[r].busy THEN filling[r].read ELSE unread[r]
Half(r) == filling[r].busy /\ filling[r].entry # Ring!NoEntry

Produced(r, g) ==
    /\ g.sent <= g.done /\ written[r] = g.end[g.sent]
    /\ ~filling[r].busy => g.done = g.sent
    /\ filling[r].busy => /\ g.sent < g.begun /\ filling[r].from = g.end[g.done]
                          /\ Len(filling[r].batch) = g.done - g.sent
                          /\ \A i \in 1 .. g.done - g.sent : filling[r].batch[i] = g.entry[g.sent + i]
    /\ ~Half(r) => g.begun = g.done
    /\ Half(r) => /\ g.begun = g.done + 1 /\ filling[r].entry = g.entry[g.begun]
                  /\ filling[r].at < Ring!Total(g.entry[g.begun])
    /\ r # "near" \/ ringPath # "inbound" => g.begun <= g.sent + 1
    /\ Loaded(r) <= unread[r] /\ g.end[g.begun] <= Loaded(r) + Capacity

\* A cell at or above read_pos holds what was written there last.
Laid(r, g) ==
    \A i \in 1 .. g.begun : \A a \in 0 .. Ring!Total(g.entry[i]) - 1 :
        unread[r] <= g.end[i - 1] /\ (i <= g.done \/ a < filling[r].at) =>
            cells[r][(g.end[i - 1] + a) % Capacity] = Ring!CellOf(g.entry[i], a)

Consumed(r, g) ==
    /\ g.used <= g.sent /\ unread[r] <= g.end[g.used]
    /\ ~draining[r].busy => unread[r] = g.end[g.used]
    /\ draining[r].busy =>
          /\ g.used <= g.till /\ g.till <= g.sent
          /\ draining[r].at = g.end[g.used] /\ draining[r].limit = g.end[g.till]
          /\ draining[r].cells # <<>> =>
                /\ g.used < g.till /\ Len(draining[r].cells) <= Ring!Total(g.entry[g.used + 1])
                /\ \A i \in 1 .. Len(draining[r].cells) : draining[r].cells[i] = Ring!CellOf(g.entry[g.used + 1], i - 1)

Sound(r, g) == Ordered(g) /\ Produced(r, g) /\ Laid(r, g) /\ Consumed(r, g)

\* What the steps make of a log.
Begun(g, e) == [g EXCEPT !.entry[g.begun + 1] = e, !.end[g.begun + 1] = g.end[g.begun] + Ring!Total(e),
                         !.begun = g.begun + 1]
Laying(g) == [g EXCEPT !.done = g.done + 1]
Publishing(g) == [g EXCEPT !.sent = g.done]
Knowing(g) == [g EXCEPT !.till = g.sent]
Using(g) == [g EXCEPT !.used = g.used + 1]

\* Two positions less than a ring apart have cells of their own.
LEMMA CellsApart ==
    ASSUME RingAssumed, NEW m \in Nat, NEW n \in Nat, m < n, n < m + Capacity
    PROVE  m % Capacity # n % Capacity
<1> SUFFICES ASSUME m % Capacity = n % Capacity PROVE FALSE
  OBVIOUS
<1> DEFINE i == m \div Capacity
           j == n \div Capacity
           o == m % Capacity
<1>c. Capacity \in Nat \ {0}
  BY DEF RingAssumed
<1>1. i \in Nat /\ j \in Nat /\ o \in Nat
  BY <1>c
<1>2. m = Capacity * i + o
  BY <1>c, SMTT(30)
<1>3. n = Capacity * j + o
  <2>1. n = Capacity * j + (n % Capacity)
    BY <1>c, SMTT(30)
  <2> QED BY <2>1
<1> HIDE DEF i, j, o
<1>4. n - m = Capacity * j - Capacity * i
  BY <1>c, <1>1, <1>2, <1>3
<1>5. n - m = Capacity * (j - i)
  BY <1>c, <1>1, <1>4
<1>6. n - m > 0 /\ n - m < Capacity
  BY <1>c
<1>7. \A k \in Int : Capacity * k > 0 => Capacity * k >= Capacity
  BY <1>c
<1> QED BY <1>c, <1>1, <1>5, <1>6, <1>7

LEMMA TotalType ==
    ASSUME RingAssumed, NEW e \in Ring!Entry
    PROVE  Ring!Total(e) \in Nat /\ Ring!Total(e) >= 1 /\ e # Ring!NoEntry
<1>1. e.size \in Nat /\ e.id \in 1 .. MaxEntries
  BY DEF RingAssumed, Ring!Entry
<1>2. e.id # 0
  BY <1>1 DEF RingAssumed
<1> QED BY <1>1, <1>2 DEF Ring!Total, Ring!NoEntry

LEMMA LogTypes ==
    ASSUME NEW g \in Logs
    PROVE  /\ g.begun \in Nat /\ g.done \in Nat /\ g.sent \in Nat /\ g.used \in Nat /\ g.till \in Nat
           /\ \A i \in Nat : g.entry[i] \in Ring!Entry /\ g.end[i] \in Nat
BY DEF Logs

LEMMA InOrder ==
    ASSUME RingAssumed, NEW g \in Logs, Ordered(g), NEW i \in 0 .. g.begun, NEW j \in 0 .. g.begun
    PROVE  /\ i <= j => g.end[i] <= g.end[j]
           /\ i < j => g.end[i] < g.end[j] /\ g.end[i + 1] <= g.end[j]
<1>1. i \in Nat /\ j \in Nat /\ g.begun \in Nat /\ g.end[i] \in Nat /\ g.end[j] \in Nat
  BY LogTypes
<1>2. CASE i < j
  <2>1. i + 1 \in 1 .. g.begun /\ g.end[i + 1] \in Nat /\ g.entry[i + 1] \in Ring!Entry
    BY <1>1, <1>2, LogTypes
  <2>2. g.end[i + 1] = g.end[i] + Ring!Total(g.entry[i + 1])
    BY <1>1, <2>1 DEF Ordered
  <2>3. g.end[i + 1] <= g.end[j]
    BY <1>2 DEF Ordered
  <2> QED BY <1>1, <1>2, <2>1, <2>2, <2>3, TotalType
<1>3. CASE ~(i < j)
  BY <1>1, <1>3
<1> QED BY <1>2, <1>3

LEMMA FillingType ==
    ASSUME RingTyped, NEW r \in Ring!Rings, filling[r].busy
    PROVE  /\ filling[r] \in Writings /\ filling[r].busy = TRUE /\ filling[r].from \in Nat /\ filling[r].read \in Nat
           /\ filling[r].entry \in Ring!Entry \cup {Ring!NoEntry} /\ filling[r].at \in Nat
           /\ filling[r].batch \in Seq(Ring!Entry)
<1>1. filling[r] \in Writings \/ filling[r] = Ring!Idle
  BY DEF RingTyped
<1>2. filling[r] # Ring!Idle
  BY DEF Ring!Idle
<1>3. filling[r] \in Writings
  BY <1>1, <1>2
<1> QED BY <1>3 DEF Writings

LEMMA DrainingType ==
    ASSUME RingTyped, NEW r \in Ring!Rings, draining[r].busy
    PROVE  /\ draining[r] \in Drainings /\ draining[r].busy = TRUE /\ draining[r].limit \in Nat /\ draining[r].at \in Nat
           /\ draining[r].cells \in Seq(Mark)
<1>1. draining[r] \in Drainings \/ draining[r] = Ring!Idle
  BY DEF RingTyped
<1>2. draining[r] # Ring!Idle
  BY DEF Ring!Idle
<1>3. draining[r] \in Drainings
  BY <1>1, <1>2
<1> QED BY <1>3 DEF Drainings

LEMMA LoadedType ==
    ASSUME RingTyped, NEW r \in Ring!Rings
    PROVE  Loaded(r) \in Nat /\ unread[r] \in Nat /\ written[r] \in Nat
BY FillingType DEF RingTyped, Loaded

LEMMA MarkType ==
    ASSUME NEW e \in Ring!Entry, NEW i \in Nat
    PROVE  Ring!CellOf(e, i) \in Mark
BY DEF Mark

\* Copied cells, while they are one entry's from its header on.
LEMMA CellsOf ==
    ASSUME RingAssumed, NEW e \in Ring!Entry, NEW s \in Seq(Mark), s # <<>>,
           \A i \in 1 .. Len(s) : s[i] = Ring!CellOf(e, i - 1)
    PROVE  /\ Ring!Heard(s) = e
           /\ Ring!Whole(s) <=> Len(s) = Ring!Total(e)
<1>1. Len(s) \in Nat /\ Len(s) >= 1
  BY EmptySeq
<1>2. s[1] = Ring!CellOf(e, 0)
  BY <1>1
<1>3. s[1].entry = <<e>> /\ s[1].entry # <<>> /\ s[1].entry[1] = e
  BY <1>2 DEF Ring!CellOf
<1>4. \A i \in 1 .. Len(s) : s[i].id = e.id
  <2>1. \A i \in Nat : Ring!CellOf(e, i).id = e.id
    BY DEF Ring!CellOf
  <2>2. \A i \in 1 .. Len(s) : i - 1 \in Nat
    BY <1>1
  <2> QED BY <2>1, <2>2
<1> QED BY <1>3, <1>4 DEF Ring!Heard, Ring!Whole

\* What is not touched stays as it was.
LEMMA SoundKept ==
    ASSUME NEW r, NEW g, Sound(r, g), ringPath' = ringPath, cells'[r] = cells[r], written'[r] = written[r],
           unread'[r] = unread[r], filling'[r] = filling[r], draining'[r] = draining[r]
    PROVE  Sound(r, g)'
<1>1. Ordered(g)'
  BY DEF Sound, Ordered
<1>2. Produced(r, g)'
  BY DEF Sound, Produced, Half, Loaded
<1>3. Laid(r, g)'
  BY DEF Sound, Laid
<1>4. Consumed(r, g)'
  BY DEF Sound, Consumed
<1> QED BY <1>1, <1>2, <1>3, <1>4 DEF Sound

LEMMA BegunLog ==
    ASSUME RingAssumed, NEW g \in Logs, NEW e \in Ring!Entry, Ordered(g)
    PROVE  /\ Begun(g, e) \in Logs /\ Ordered(Begun(g, e))
           /\ Begun(g, e).begun = g.begun + 1 /\ Begun(g, e).done = g.done /\ Begun(g, e).sent = g.sent
           /\ Begun(g, e).used = g.used /\ Begun(g, e).till = g.till
           /\ \A i \in 0 .. g.begun : Begun(g, e).end[i] = g.end[i] /\ Begun(g, e).entry[i] = g.entry[i]
           /\ Begun(g, e).end[g.begun + 1] = g.end[g.begun] + Ring!Total(e) /\ Begun(g, e).entry[g.begun + 1] = e
<1> DEFINE b == Begun(g, e)
           n == g.begun
<1>1. n \in Nat /\ n + 1 \in Nat /\ g.end[n] \in Nat /\ Ring!Total(e) \in Nat /\ Ring!Total(e) >= 1
  BY LogTypes, TotalType
<1>2. /\ b.entry = [g.entry EXCEPT ![n + 1] = e]
      /\ b.end = [g.end EXCEPT ![n + 1] = g.end[n] + Ring!Total(e)]
      /\ b.begun = n + 1 /\ b.done = g.done /\ b.sent = g.sent /\ b.used = g.used /\ b.till = g.till
  BY DEF Begun, Logs
<1>3. g.end[n] + Ring!Total(e) \in Nat
  BY <1>1
<1>4. b.entry \in [Nat -> Ring!Entry] /\ b.end \in [Nat -> Nat]
  BY <1>1, <1>2, <1>3 DEF Logs
<1>5. b \in Logs
  BY <1>1, <1>2, <1>4 DEF Logs, Begun
<1>6. \A i \in 0 .. n : b.end[i] = g.end[i] /\ b.entry[i] = g.entry[i]
  BY <1>1, <1>2 DEF Logs
<1>7. b.end[n + 1] = g.end[n] + Ring!Total(e) /\ b.entry[n + 1] = e
  BY <1>1, <1>2 DEF Logs
<1>8. Ordered(b)
  <2>1. \A i \in 1 .. n + 1 : b.end[i] = b.end[i - 1] + Ring!Total(b.entry[i])
    <3> SUFFICES ASSUME NEW i \in 1 .. n + 1 PROVE b.end[i] = b.end[i - 1] + Ring!Total(b.entry[i])
      OBVIOUS
    <3>1. CASE i = n + 1
      BY <1>1, <1>6, <1>7, <3>1
    <3>2. CASE i # n + 1
      BY <1>1, <1>6, <3>2 DEF Ordered
    <3> QED BY <3>1, <3>2
  <2>2. \A i, j \in 0 .. n + 1 : i < j => b.end[i + 1] <= b.end[j]
    <3> SUFFICES ASSUME NEW i \in 0 .. n + 1, NEW j \in 0 .. n + 1, i < j PROVE b.end[i + 1] <= b.end[j]
      OBVIOUS
    <3>1. CASE j # n + 1
      <4>1. i \in 0 .. n /\ j \in 0 .. n /\ i + 1 \in 0 .. n
        BY <1>1, <3>1
      <4> QED BY <1>6, <4>1 DEF Ordered
    <3>2. CASE j = n + 1 /\ i = n
      BY <1>1, <1>7, <3>2
    <3>3. CASE j = n + 1 /\ i # n
      <4>1. i + 1 \in 0 .. n /\ i < n /\ i \in 0 .. n /\ n \in 0 .. n
        BY <1>1, <3>3
      <4>2. g.end[i + 1] <= g.end[n] /\ g.end[i + 1] \in Nat
        BY <4>1, LogTypes DEF Ordered
      <4> QED BY <1>1, <1>6, <1>7, <3>3, <4>1, <4>2
    <3> QED BY <3>1, <3>2, <3>3
  <2> HIDE DEF b
  <2> QED BY <1>2, <2>1, <2>2 DEF Ordered
<1> QED BY <1>2, <1>5, <1>6, <1>7, <1>8

\* A producer begins an entry, the first of its batch or the next.
LEMMA BeginSound ==
    ASSUME RingAssumed, RingTyped, NEW r \in Ring!Rings, NEW g \in Logs, NEW e \in Ring!Entry, Sound(r, g),
           Ring!Begin(r, e), filling[r].busy => filling[r].entry = Ring!NoEntry /\ r = "near" /\ ringPath = "inbound",
           UNCHANGED <<ringPath, cells, written, unread, draining>>
    PROVE  Sound(r, Begun(g, e))' /\ filling'[r].busy
<1> DEFINE b == Begun(g, e)
           n == g.begun
<1>1. /\ b \in Logs /\ Ordered(b)
      /\ b.begun = n + 1 /\ b.done = g.done /\ b.sent = g.sent /\ b.used = g.used /\ b.till = g.till
      /\ \A i \in 0 .. n : b.end[i] = g.end[i] /\ b.entry[i] = g.entry[i]
      /\ b.end[n + 1] = g.end[n] + Ring!Total(e) /\ b.entry[n + 1] = e
  BY BegunLog DEF Sound
<1> HIDE DEF b
<1>2. /\ n \in Nat /\ g.done \in Nat /\ g.sent \in Nat /\ g.used \in Nat /\ g.till \in Nat /\ g.end[n] \in Nat
      /\ Ring!Total(e) \in Nat /\ Ring!Total(e) >= 1 /\ e # Ring!NoEntry
  BY LogTypes, TotalType
<1>3. ~Half(r) /\ n = g.done /\ g.sent <= n
  BY DEF Sound, Produced, Half
<1>4. Loaded(r) \in Nat /\ unread[r] \in Nat /\ Loaded(r) <= unread[r]
  BY LoadedType DEF Sound, Produced
<1>5. /\ filling'[r].busy = TRUE /\ filling'[r].entry = e /\ filling'[r].at = 0
      /\ filling'[r].from = g.end[n] /\ filling'[r].read = Loaded(r)
      /\ Len(filling'[r].batch) = n - g.sent
      /\ \A i \in 1 .. n - g.sent : filling'[r].batch[i] = g.entry[g.sent + i]
  <2>1. CASE filling[r].busy
    <3>1. filling'[r] = [busy |-> TRUE, from |-> filling[r].from, read |-> filling[r].read, entry |-> e, at |-> 0,
                         batch |-> filling[r].batch]
      BY <2>1 DEF Ring!Begin, RingTyped
    <3> QED BY <1>3, <2>1, <3>1 DEF Sound, Produced, Loaded
  <2>2. CASE ~filling[r].busy
    <3>1. filling'[r] = [busy |-> TRUE, from |-> written[r], read |-> unread[r], entry |-> e, at |-> 0, batch |-> <<>>]
      BY <2>2 DEF Ring!Begin, RingTyped
    <3>2. g.sent = n /\ written[r] = g.end[n]
      BY <1>3, <2>2 DEF Sound, Produced
    <3> QED BY <1>2, <2>2, <3>1, <3>2 DEF Loaded
  <2> QED BY <2>1, <2>2
<1>6. (g.end[n] - Loaded(r)) + Ring!Total(e) <= Capacity
  <2>1. CASE filling[r].busy
    BY <1>3, <2>1 DEF Ring!Begin, Ring!Fits, Sound, Produced, Loaded
  <2>2. CASE ~filling[r].busy
    <3>1. g.sent = n /\ written[r] = g.end[n]
      BY <1>3, <2>2 DEF Sound, Produced
    <3> QED BY <2>2, <3>1 DEF Ring!Begin, Ring!Fits, Loaded
  <2> QED BY <2>1, <2>2
<1>7. b.end[n + 1] <= Loaded(r) + Capacity
  BY <1>1, <1>2, <1>4, <1>6 DEF RingAssumed
<1>8. Half(r)' /\ Loaded(r)' = Loaded(r)
  BY <1>2, <1>5 DEF Half, Loaded
<1>9. Produced(r, b)'
  <2>1. b.sent <= b.done /\ written'[r] = b.end[b.sent]
    BY <1>1, <1>2, <1>3 DEF Sound, Produced
  <2>2. \A i \in 1 .. n - g.sent : b.entry[g.sent + i] = g.entry[g.sent + i]
    BY <1>1, <1>2
  <2>3. b.end[n] = g.end[n]
    BY <1>1, <1>2
  <2>4. r # "near" \/ ringPath # "inbound" => b.begun <= b.sent + 1
    <3>1. r # "near" \/ ringPath # "inbound" => g.done = g.sent
      BY DEF Sound, Produced
    <3> QED BY <1>1, <1>2, <1>3, <3>1
  <2>5. /\ filling'[r].at < Ring!Total(b.entry[b.begun])
        /\ b.sent < b.begun
    BY <1>1, <1>2, <1>3, <1>5
  <2> QED BY <1>1, <1>3, <1>4, <1>5, <1>7, <1>8, <2>1, <2>2, <2>3, <2>4, <2>5 DEF Produced
<1>10. Laid(r, b)'
  <2> SUFFICES ASSUME NEW i \in 1 .. n + 1, NEW a \in 0 .. Ring!Total(b.entry[i]) - 1,
                      unread[r] <= b.end[i - 1], i <= n \/ a < 0
               PROVE  cells[r][(b.end[i - 1] + a) % Capacity] = Ring!CellOf(b.entry[i], a)
    BY <1>1, <1>3, <1>5 DEF Laid
  <2>1. i \in 1 .. n /\ b.end[i - 1] = g.end[i - 1] /\ b.entry[i] = g.entry[i] /\ i <= g.done
    <3>1. ~(a < 0)
      BY DEF RingAssumed
    <3>2. i \in 1 .. n /\ i - 1 \in 0 .. n /\ i \in 0 .. n
      BY <1>2, <3>1
    <3> QED BY <1>1, <1>3, <3>2
  <2> QED BY <2>1 DEF Sound, Laid
<1>11. Consumed(r, b)'
  <2>1. g.used <= g.sent /\ g.used \in 0 .. n
    BY <1>2, <1>3 DEF Sound, Consumed
  <2>2. b.end[g.used] = g.end[g.used]
    BY <1>1, <2>1
  <2>3. draining[r].busy => g.till \in 0 .. n /\ b.end[g.till] = g.end[g.till]
    BY <1>1, <1>2, <1>3 DEF Sound, Consumed
  <2>4. g.used < g.till /\ g.till <= g.sent => b.entry[g.used + 1] = g.entry[g.used + 1]
    BY <1>1, <1>2, <1>3
  <2> QED BY <1>1, <2>1, <2>2, <2>3, <2>4 DEF Sound, Consumed
<1>12. Ordered(b)'
  BY <1>1 DEF Ordered
<1> QED BY <1>5, <1>9, <1>10, <1>11, <1>12 DEF Sound, b

\* What a log's other steps do: to its counts only.
LEMMA CountedLog ==
    ASSUME NEW g \in Logs
    PROVE  /\ Laying(g) \in Logs /\ Laying(g).done = g.done + 1 /\ Laying(g).entry = g.entry /\ Laying(g).end = g.end
           /\ Laying(g).begun = g.begun /\ Laying(g).sent = g.sent /\ Laying(g).used = g.used /\ Laying(g).till = g.till
           /\ Publishing(g) \in Logs /\ Publishing(g).sent = g.done /\ Publishing(g).entry = g.entry
           /\ Publishing(g).end = g.end /\ Publishing(g).begun = g.begun /\ Publishing(g).done = g.done
           /\ Publishing(g).used = g.used /\ Publishing(g).till = g.till
           /\ Knowing(g) \in Logs /\ Knowing(g).till = g.sent /\ Knowing(g).entry = g.entry /\ Knowing(g).end = g.end
           /\ Knowing(g).begun = g.begun /\ Knowing(g).done = g.done /\ Knowing(g).sent = g.sent
           /\ Knowing(g).used = g.used
           /\ Using(g) \in Logs /\ Using(g).used = g.used + 1 /\ Using(g).entry = g.entry /\ Using(g).end = g.end
           /\ Using(g).begun = g.begun /\ Using(g).done = g.done /\ Using(g).sent = g.sent /\ Using(g).till = g.till
BY DEF Laying, Publishing, Knowing, Using, Logs

\* Where an entry lies: within what was begun, and all of what was done before it.
LEMMA Places ==
    ASSUME RingAssumed, NEW g \in Logs, Ordered(g), NEW i \in 1 .. g.begun, NEW a \in 0 .. Ring!Total(g.entry[i]) - 1
    PROVE  /\ g.end[i - 1] \in Nat /\ g.end[i - 1] + a \in Nat /\ g.end[i] \in Nat
           /\ g.end[i - 1] + a < g.end[i] /\ g.end[i] <= g.end[g.begun]
<1>1. g.begun \in Nat /\ i - 1 \in Nat /\ i \in Nat /\ i \in 0 .. g.begun /\ g.begun \in 0 .. g.begun /\ i <= g.begun
  BY LogTypes
<1>2. /\ g.end[i - 1] \in Nat /\ g.end[i] \in Nat /\ g.end[g.begun] \in Nat
      /\ Ring!Total(g.entry[i]) \in Nat
  BY <1>1, LogTypes, TotalType
<1>3. g.end[i] = g.end[i - 1] + Ring!Total(g.entry[i])
  BY DEF Ordered
<1>4. g.end[i] <= g.end[g.begun]
  BY <1>1, InOrder
<1> QED BY <1>2, <1>3, <1>4

\* _write_wrapped: the cell is the entry's next, and was read, or never written.
LEMMA WriteSound ==
    ASSUME RingAssumed, RingTyped, NEW r \in Ring!Rings, NEW g \in Logs, Sound(r, g), Ring!WriteCell(r)
    PROVE  \E h \in {g, Laying(g)} : Sound(r, h)' /\ filling'[r].busy
<1> DEFINE f == filling[r]
           n == g.begun
           at == g.end[g.done] + f.at
<1>1. /\ f.busy = TRUE /\ f.entry # Ring!NoEntry /\ f.at \in Nat /\ f.batch \in Seq(Ring!Entry) /\ Half(r)
      /\ cells' = [cells EXCEPT ![r][(f.from + f.at) % Capacity] = Ring!CellOf(f.entry, f.at)]
      /\ filling' = [filling EXCEPT ![r] = IF f.at + 1 < Ring!Total(f.entry) THEN [f EXCEPT !.at = @ + 1]
                                           ELSE [f EXCEPT !.from = @ + Ring!Total(f.entry), !.entry = Ring!NoEntry,
                                                          !.batch = Append(@, f.entry)]]
      /\ UNCHANGED <<ringPath, written, unread, draining>>
  BY FillingType DEF Ring!WriteCell, Half
<1>2. /\ n \in Nat /\ g.done \in Nat /\ g.sent \in Nat /\ g.end[n] \in Nat /\ g.end[g.done] \in Nat
      /\ g.used \in Nat /\ g.till \in Nat
  BY LogTypes
<1>3. /\ n = g.done + 1 /\ f.entry = g.entry[n] /\ f.at < Ring!Total(g.entry[n]) /\ f.from = g.end[g.done]
      /\ g.sent <= g.done /\ Len(f.batch) = g.done - g.sent
      /\ \A i \in 1 .. g.done - g.sent : f.batch[i] = g.entry[g.sent + i]
      /\ g.end[n] <= Loaded(r) + Capacity /\ Loaded(r) <= unread[r]
  BY <1>1 DEF Sound, Produced
<1>k. f.at \in Nat /\ f.at < Ring!Total(g.entry[n]) /\ at = g.end[g.done] + f.at
  BY <1>1, <1>3
<1>4. /\ Ring!Total(g.entry[n]) \in Nat /\ Ring!Total(g.entry[n]) >= 1 /\ g.entry[n] \in Ring!Entry
      /\ Loaded(r) \in Nat /\ unread[r] \in Nat /\ Capacity \in Nat \ {0} /\ at \in Nat
      /\ g.end[n] = g.end[g.done] + Ring!Total(g.entry[n])
  <2>1. g.entry[n] \in Ring!Entry
    BY <1>2, LogTypes
  <2>2. n \in 1 .. n /\ n - 1 = g.done
    BY <1>2, <1>3
  <2>3. g.end[n] = g.end[g.done] + Ring!Total(g.entry[n])
    BY <2>2 DEF Sound, Ordered
  <2>4. Capacity \in Nat \ {0}
    BY DEF RingAssumed
  <2> QED BY <1>2, <1>k, <2>1, <2>3, <2>4, TotalType, LoadedType
<1>5. at < g.end[n] /\ at < unread[r] + Capacity
  <2>1. g.end[n] <= Loaded(r) + Capacity /\ Loaded(r) <= unread[r]
    BY <1>3
  <2> QED BY <1>2, <1>4, <1>k, <2>1
<1>6. at % Capacity \in 0 .. Capacity - 1
  BY <1>4
<1>7. /\ cells'[r][at % Capacity] = Ring!CellOf(g.entry[n], f.at)
      /\ \A c \in 0 .. Capacity - 1 : c # at % Capacity => cells'[r][c] = cells[r][c]
  <2>1. cells'[r] = [cells[r] EXCEPT ![at % Capacity] = Ring!CellOf(g.entry[n], f.at)]
    BY <1>1, <1>3 DEF RingTyped
  <2>2. cells[r] \in [0 .. Capacity - 1 -> Mark]
    BY DEF RingTyped
  <2> HIDE DEF at
  <2> QED BY <1>6, <2>1, <2>2
<1> HIDE DEF at
\* Every cell that is not to be read yet keeps what it has.
<1>8. ASSUME NEW i \in 1 .. n, NEW a \in 0 .. Ring!Total(g.entry[i]) - 1,
             unread[r] <= g.end[i - 1], i <= g.done \/ a <= f.at
      PROVE  cells'[r][(g.end[i - 1] + a) % Capacity] = Ring!CellOf(g.entry[i], a)
  <2> DEFINE o == g.end[i - 1] + a
  <2>1. g.end[i - 1] \in Nat /\ o \in Nat /\ o < g.end[i] /\ g.end[i] \in Nat /\ a \in Nat /\ i \in 1 .. n
    <3>1. Ordered(g)
      BY DEF Sound
    <3>2. a \in Nat
      BY <1>4
    <3> QED BY <3>1, <3>2, Places
  <2>2. CASE i = n /\ a = f.at
    BY <1>2, <1>3, <1>7, <2>1, <2>2 DEF at
  <2>3. CASE ~(i = n /\ a = f.at)
    <3>1. o < at
      <4>1. CASE i = n
        <5>1. a # f.at /\ a < f.at
          <6>1. i <= g.done \/ a <= f.at
            BY <1>8
          <6>2. ~(i <= g.done)
            BY <1>2, <1>3, <4>1
          <6> QED BY <1>k, <2>1, <2>3, <4>1, <6>1, <6>2
        <5>2. g.end[i - 1] = g.end[g.done]
          <6>1. n = g.done + 1 /\ g.done \in Nat
            BY <1>2, <1>3
          <6>2. n - 1 = g.done
            <7> HIDE DEF n
            <7> QED BY <6>1
          <6> QED BY <4>1, <6>2
        <5> QED BY <1>2, <1>k, <2>1, <5>1, <5>2
      <4>2. CASE i # n
        <5>1. i \in 0 .. n /\ g.done \in 0 .. n /\ i <= g.done
          BY <1>2, <1>3, <4>2
        <5>2. g.end[i] <= g.end[g.done]
          BY <5>1, InOrder DEF Sound
        <5> QED BY <1>2, <1>k, <2>1, <5>2
      <4> QED BY <4>1, <4>2
    <3>2. at < o + Capacity
      <4>1. unread[r] <= o /\ unread[r] \in Nat
        BY <1>4, <1>8, <2>1
      <4> QED BY <1>4, <1>5, <2>1, <4>1
    <3>3. o % Capacity # at % Capacity
      BY <1>4, <2>1, <3>1, <3>2, CellsApart
    <3>4. o % Capacity \in 0 .. Capacity - 1
      BY <1>4, <2>1
    <3>5. cells'[r][o % Capacity] = cells[r][o % Capacity]
      BY <1>7, <3>3, <3>4
    <3>6. i <= g.done \/ a < f.at
      <4>1. i <= g.done \/ a <= f.at
        BY <1>8
      <4>2. i = n => a # f.at
        BY <2>3
      <4>3. i # n => i <= g.done
        BY <1>2, <1>3
      <4> QED BY <1>k, <2>1, <4>1, <4>2, <4>3
    <3>7. cells[r][o % Capacity] = Ring!CellOf(g.entry[i], a)
      BY <1>8, <3>6 DEF Sound, Laid
    <3> QED BY <3>5, <3>7
  <2> QED BY <2>2, <2>3
<1>9. CASE f.at + 1 < Ring!Total(g.entry[n])
  <2>1. filling'[r] = [f EXCEPT !.at = f.at + 1]
    BY <1>1, <1>3, <1>9 DEF RingTyped
  <2>2. /\ filling'[r].busy = TRUE /\ filling'[r].from = f.from /\ filling'[r].read = f.read
        /\ filling'[r].entry = f.entry /\ filling'[r].at = f.at + 1 /\ filling'[r].batch = f.batch
    <3>1. f \in Writings
      BY <1>1, FillingType
    <3> QED BY <2>1, <3>1 DEF Writings
  <2>3. Half(r)' /\ Loaded(r)' = Loaded(r)
    BY <1>1, <2>2 DEF Half, Loaded
  <2>4. Produced(r, g)'
    BY <1>1, <1>9, <2>2, <2>3 DEF Sound, Produced
  <2>5. Laid(r, g)'
    BY SMTT(30), <1>1, <1>8, <1>4, <2>2 DEF Laid
  <2>6. Ordered(g)' /\ Consumed(r, g)'
    BY <1>1 DEF Sound, Ordered, Consumed
  <2> QED BY <2>2, <2>4, <2>5, <2>6 DEF Sound
<1>10. CASE ~(f.at + 1 < Ring!Total(g.entry[n]))
  <2> DEFINE b == Laying(g)
  <2>1. filling'[r] = [f EXCEPT !.from = @ + Ring!Total(f.entry), !.entry = Ring!NoEntry, !.batch = Append(@, f.entry)]
    BY <1>1, <1>3, <1>10 DEF RingTyped
  <2>2. /\ filling'[r].busy = TRUE /\ filling'[r].from = g.end[n] /\ filling'[r].read = f.read
        /\ filling'[r].entry = Ring!NoEntry /\ filling'[r].batch = Append(f.batch, g.entry[n])
    <3>1. f \in Writings
      BY <1>1, FillingType
    <3>2. /\ filling'[r].busy = f.busy /\ filling'[r].from = f.from + Ring!Total(f.entry) /\ filling'[r].read = f.read
          /\ filling'[r].entry = Ring!NoEntry /\ filling'[r].batch = Append(f.batch, f.entry)
      BY <2>1, <3>1 DEF Writings
    <3> QED BY <1>1, <1>3, <1>4, <3>2
  <2>3. ~Half(r)' /\ Loaded(r)' = Loaded(r)
    BY <1>1, <2>2 DEF Half, Loaded
  <2>4. /\ b.done = n /\ b.entry = g.entry /\ b.end = g.end /\ b.begun = n /\ b.sent = g.sent /\ b.used = g.used
        /\ b.till = g.till
    BY <1>3, CountedLog
  <2> HIDE DEF b
  <2>5. /\ Len(filling'[r].batch) = n - g.sent
        /\ \A i \in 1 .. n - g.sent : filling'[r].batch[i] = g.entry[g.sent + i]
    <3>1. /\ Len(Append(f.batch, g.entry[n])) = Len(f.batch) + 1
          /\ \A i \in 1 .. Len(f.batch) : Append(f.batch, g.entry[n])[i] = f.batch[i]
          /\ Append(f.batch, g.entry[n])[Len(f.batch) + 1] = g.entry[n]
      BY <1>1, <1>4, AppendProperties
    <3>2. n - g.sent = Len(f.batch) + 1 /\ g.sent + (Len(f.batch) + 1) = n
      BY <1>2, <1>3
    <3>3. ASSUME NEW i \in 1 .. n - g.sent
          PROVE  Append(f.batch, g.entry[n])[i] = g.entry[g.sent + i]
      <4>1. CASE i = Len(f.batch) + 1
        <5>1. Append(f.batch, g.entry[n])[i] = g.entry[n]
          BY <3>1, <4>1
        <5>2. g.sent + i = n
          BY <3>2, <4>1
        <5> QED BY <5>1, <5>2
      <4>2. CASE i # Len(f.batch) + 1
        <5>1. i \in 1 .. g.done - g.sent /\ i \in 1 .. Len(f.batch)
          <6> DEFINE l == Len(f.batch)
                     m == n - g.sent
          <6>1. l \in Nat /\ m = l + 1 /\ l = g.done - g.sent
            BY <1>2, <1>3, <3>2
          <6>2. i \in 1 .. m /\ i # l + 1
            BY <4>2
          <6> HIDE DEF l, m
          <6>3. i \in 1 .. l
            BY <6>1, <6>2
          <6> QED BY <6>1, <6>3 DEF l
        <5> QED BY <1>3, <3>1, <5>1
      <4> QED BY <4>1, <4>2
    <3> QED BY <2>2, <3>1, <3>2, <3>3
  <2>6. Produced(r, b)'
    <3>1. /\ written'[r] = b.end[b.sent] /\ b.sent <= b.done
          /\ r # "near" \/ ringPath' # "inbound" => b.begun <= b.sent + 1
      BY <1>1, <1>2, <1>3, <2>4 DEF Sound, Produced
    <3>2. b.sent < b.begun /\ filling'[r].from = b.end[b.done]
      BY <1>2, <1>3, <2>2, <2>4
    <3>3. /\ Len(filling'[r].batch) = b.done - b.sent
          /\ \A i \in 1 .. b.done - b.sent : filling'[r].batch[i] = b.entry[b.sent + i]
      BY <2>4, <2>5
    <3>4. Loaded(r)' <= unread'[r] /\ b.end[b.begun] <= Loaded(r)' + Capacity
      BY <1>1, <1>3, <2>3, <2>4
    <3> QED BY <2>2, <2>3, <2>4, <3>1, <3>2, <3>3, <3>4 DEF Produced
  <2>7. Laid(r, b)'
    <3>1. \A i \in 1 .. n : \A a \in 0 .. Ring!Total(g.entry[i]) - 1 :
              unread[r] <= g.end[i - 1] => cells'[r][(g.end[i - 1] + a) % Capacity] = Ring!CellOf(g.entry[i], a)
      <4> SUFFICES ASSUME NEW i \in 1 .. n, NEW a \in 0 .. Ring!Total(g.entry[i]) - 1, unread[r] <= g.end[i - 1]
                   PROVE  cells'[r][(g.end[i - 1] + a) % Capacity] = Ring!CellOf(g.entry[i], a)
        OBVIOUS
      <4>1. i <= g.done \/ a <= f.at
        <5>1. CASE i = n
          BY <1>1, <1>4, <1>10, <5>1
        <5>2. CASE i # n
          BY <1>2, <1>3, <5>2
        <5> QED BY <5>1, <5>2
      <4> QED BY <1>8, <4>1
    <3> QED BY <1>1, <2>4, <3>1 DEF Laid
  <2>8. Ordered(b)' /\ Consumed(r, b)'
    BY <1>1, <2>4 DEF Sound, Ordered, Consumed
  <2> QED BY <2>2, <2>6, <2>7, <2>8 DEF Sound, b
<1> QED BY <1>9, <1>10

\* write_pos moves over what was written.
LEMMA CommitSound ==
    ASSUME RingAssumed, RingTyped, NEW r \in Ring!Rings, NEW g \in Logs, Sound(r, g),
           filling[r].busy, filling[r].entry = Ring!NoEntry,
           written'[r] = filling[r].from, filling'[r] = Ring!Idle, cells'[r] = cells[r], unread'[r] = unread[r],
           ringPath' = ringPath, draining'[r] = draining[r]
    PROVE  Sound(r, Publishing(g))'
<1> DEFINE b == Publishing(g)
<1>1. /\ b.sent = g.done /\ b.entry = g.entry /\ b.end = g.end /\ b.begun = g.begun /\ b.done = g.done
      /\ b.used = g.used /\ b.till = g.till
  BY CountedLog
<1> HIDE DEF b
<1>2. g.begun \in Nat /\ g.done \in Nat /\ g.sent \in Nat /\ g.used \in Nat /\ g.till \in Nat /\ g.end[g.begun] \in Nat
  BY LogTypes
<1>3. /\ g.begun = g.done /\ g.sent <= g.done /\ filling[r].from = g.end[g.done]
      /\ Loaded(r) <= unread[r] /\ g.end[g.begun] <= Loaded(r) + Capacity
  BY DEF Sound, Produced, Half
<1>4. filling'[r].busy = FALSE /\ ~Half(r)' /\ Loaded(r)' = unread[r]
  BY DEF Ring!Idle, Half, Loaded
<1>5. g.end[g.begun] <= unread[r] + Capacity
  BY <1>2, <1>3, LoadedType DEF RingAssumed
<1>6. Produced(r, b)'
  <2>1. unread'[r] = unread[r] /\ Loaded(r)' <= unread'[r] /\ b.end[b.begun] <= Loaded(r)' + Capacity
    BY <1>1, <1>4, <1>5, LoadedType
  <2>2. b.sent <= b.done /\ written'[r] = b.end[b.sent] /\ b.done = b.sent /\ b.begun = b.done
    BY <1>1, <1>2, <1>3
  <2>3. b.begun <= b.sent + 1
    BY <1>1, <1>2, <1>3
  <2> QED BY <1>4, <2>1, <2>2, <2>3 DEF Produced
<1>7. Laid(r, b)'
  <2>1. \A i \in 1 .. g.begun : i <= g.done
    BY <1>2, <1>3
  <2> QED BY <1>1, <2>1 DEF Sound, Laid
<1>8. Ordered(b)'
  BY <1>1 DEF Sound, Ordered
<1>9. Consumed(r, b)'
  BY SMTT(30), <1>1, <1>2, <1>3 DEF Sound, Consumed
<1> QED BY <1>6, <1>7, <1>8, <1>9 DEF Sound, b

\* A consumer learns how far write_pos is.
LEMMA DrainSound ==
    ASSUME RingAssumed, RingTyped, NEW r \in Ring!Rings, NEW g \in Logs, Sound(r, g), Ring!DrainBegin(r)
    PROVE  Sound(r, Knowing(g))'
<1> DEFINE b == Knowing(g)
<1>1. /\ b.till = g.sent /\ b.entry = g.entry /\ b.end = g.end /\ b.begun = g.begun /\ b.done = g.done
      /\ b.sent = g.sent /\ b.used = g.used
  BY CountedLog
<1> HIDE DEF b
<1>2. /\ ~draining[r].busy
      /\ draining' = [draining EXCEPT ![r] = [busy |-> TRUE, limit |-> written[r], at |-> unread[r], cells |-> <<>>]]
      /\ UNCHANGED <<ringPath, cells, written, unread, filling>>
  BY DEF Ring!DrainBegin
<1>3. draining'[r] = [busy |-> TRUE, limit |-> written[r], at |-> unread[r], cells |-> <<>>]
  BY <1>2 DEF RingTyped
<1>4. g.used \in Nat /\ g.sent \in Nat /\ g.used <= g.sent /\ unread[r] = g.end[g.used] /\ written[r] = g.end[g.sent]
  BY <1>2, LogTypes DEF Sound, Produced, Consumed
<1>5. Consumed(r, b)'
  BY <1>1, <1>2, <1>3, <1>4, LoadedType DEF Consumed
<1>6. Ordered(b)' /\ Produced(r, b)' /\ Laid(r, b)'
  BY <1>1, <1>2 DEF Sound, Ordered, Produced, Laid, Half, Loaded
<1> QED BY <1>5, <1>6 DEF Sound, b

\* What a consumer is in the middle of, and how much of it it has.
LEMMA InHand ==
    ASSUME RingAssumed, RingTyped, NEW r \in Ring!Rings, NEW g \in Logs, Sound(r, g), draining[r].busy,
           draining[r].cells # <<>>
    PROVE  /\ g.used < g.till /\ g.till <= g.sent /\ g.used + 1 \in 1 .. g.sent /\ g.entry[g.used + 1] \in Ring!Entry
           /\ g.end[g.used + 1] = g.end[g.used] + Ring!Total(g.entry[g.used + 1])
           /\ Ring!Heard(draining[r].cells) = g.entry[g.used + 1]
           /\ Ring!Whole(draining[r].cells) <=> Len(draining[r].cells) = Ring!Total(g.entry[g.used + 1])
<1>1. /\ g.used \in Nat /\ g.till \in Nat /\ g.sent \in Nat /\ g.done \in Nat /\ g.begun \in Nat
      /\ g.entry[g.used + 1] \in Ring!Entry
  BY LogTypes
<1>2. /\ g.used < g.till /\ g.till <= g.sent
      /\ \A i \in 1 .. Len(draining[r].cells) : draining[r].cells[i] = Ring!CellOf(g.entry[g.used + 1], i - 1)
  BY DEF Sound, Consumed
<1>3. g.sent <= g.done /\ g.done <= g.begun
  BY <1>1 DEF Sound, Produced
<1>4. g.used + 1 \in 1 .. g.begun /\ g.used + 1 \in 1 .. g.sent /\ (g.used + 1) - 1 = g.used
  BY <1>1, <1>2, <1>3
<1>5. g.end[g.used + 1] = g.end[g.used] + Ring!Total(g.entry[g.used + 1])
  BY <1>4 DEF Sound, Ordered
<1>6. draining[r].cells \in Seq(Mark)
  BY DrainingType
<1> QED BY <1>1, <1>2, <1>4, <1>5, <1>6, CellsOf

\* _read_wrapped: the next cell is the entry's next.
LEMMA ReadSound ==
    ASSUME RingAssumed, RingTyped, NEW r \in Ring!Rings, NEW g \in Logs, Sound(r, g), Ring!ReadCell(r)
    PROVE  Sound(r, g)'
<1> DEFINE d == draining[r]
           u == g.used
           s == d.cells
           o == g.end[u] + Len(s)
<1>1. /\ d.busy /\ d.at < d.limit /\ ~Ring!Whole(s)
      /\ draining' = [draining EXCEPT ![r].cells = Append(@, cells[r][(d.at + Len(s)) % Capacity])]
      /\ UNCHANGED <<ringPath, cells, written, unread, filling>>
  BY DEF Ring!ReadCell
<1>2. /\ d \in Drainings /\ d.busy = TRUE /\ s \in Seq(Mark) /\ Len(s) \in Nat
      /\ u \in Nat /\ g.till \in Nat /\ g.sent \in Nat /\ g.done \in Nat /\ g.begun \in Nat /\ g.end[u] \in Nat
  <2>1. d \in Drainings /\ d.busy = TRUE /\ s \in Seq(Mark)
    BY <1>1, DrainingType
  <2>2. Len(s) \in Nat
    BY <2>1
  <2> QED BY <2>1, <2>2, LogTypes
<1>3. /\ u <= g.till /\ g.till <= g.sent /\ d.at = g.end[u] /\ d.limit = g.end[g.till] /\ unread[r] <= g.end[u]
      /\ g.sent <= g.done /\ g.done <= g.begun
  BY <1>1, <1>2 DEF Sound, Consumed, Produced
<1>4. u < g.till
  <2>1. u # g.till
    BY <1>1, <1>2, <1>3
  <2> QED BY <1>2, <1>3, <2>1
<1>5. u + 1 \in 1 .. g.begun /\ (u + 1) - 1 = u /\ u + 1 <= g.done /\ g.entry[u + 1] \in Ring!Entry
  BY <1>2, <1>3, <1>4, LogTypes
<1>6. Ring!Total(g.entry[u + 1]) \in Nat /\ Ring!Total(g.entry[u + 1]) >= 1
  BY <1>5, TotalType
<1>7. Len(s) < Ring!Total(g.entry[u + 1])
  <2>1. CASE s = <<>>
    BY <1>6, <2>1
  <2>2. CASE s # <<>>
    <3>1. Len(s) # Ring!Total(g.entry[u + 1])
      BY <1>1, <2>2, InHand
    <3>2. Len(s) <= Ring!Total(g.entry[u + 1])
      BY <1>1, <2>2 DEF Sound, Consumed
    <3> QED BY <1>2, <1>6, <3>1, <3>2
  <2> QED BY <2>1, <2>2
<1>8. cells[r][o % Capacity] = Ring!CellOf(g.entry[u + 1], Len(s))
  <2>1. Len(s) \in 0 .. Ring!Total(g.entry[u + 1]) - 1
    BY <1>2, <1>6, <1>7
  <2> QED BY <1>3, <1>5, <2>1 DEF Sound, Laid
<1>9. draining'[r] = [d EXCEPT !.cells = Append(s, Ring!CellOf(g.entry[u + 1], Len(s)))]
  BY <1>1, <1>3, <1>8 DEF RingTyped
<1>10. /\ draining'[r].busy = TRUE /\ draining'[r].at = d.at /\ draining'[r].limit = d.limit
       /\ draining'[r].cells = Append(s, Ring!CellOf(g.entry[u + 1], Len(s)))
  BY <1>2, <1>9 DEF Drainings
<1>11. /\ Ring!CellOf(g.entry[u + 1], Len(s)) \in Mark
       /\ Len(Append(s, Ring!CellOf(g.entry[u + 1], Len(s)))) = Len(s) + 1
       /\ \A i \in 1 .. Len(s) : Append(s, Ring!CellOf(g.entry[u + 1], Len(s)))[i] = s[i]
       /\ Append(s, Ring!CellOf(g.entry[u + 1], Len(s)))[Len(s) + 1] = Ring!CellOf(g.entry[u + 1], Len(s))
  BY SMTT(30), <1>2, <1>5, MarkType, AppendProperties
<1>12. \A i \in 1 .. Len(s) : s[i] = Ring!CellOf(g.entry[u + 1], i - 1)
  <2>1. CASE s = <<>>
    BY <2>1
  <2>2. CASE s # <<>>
    BY <1>1, <2>2 DEF Sound, Consumed
  <2> QED BY <2>1, <2>2
<1>13. \A i \in 1 .. Len(draining'[r].cells) : draining'[r].cells[i] = Ring!CellOf(g.entry[u + 1], i - 1)
  <2> SUFFICES ASSUME NEW i \in 1 .. Len(s) + 1
               PROVE  Append(s, Ring!CellOf(g.entry[u + 1], Len(s)))[i] = Ring!CellOf(g.entry[u + 1], i - 1)
    BY <1>10, <1>11
  <2>1. CASE i = Len(s) + 1
    <3>1. i - 1 = Len(s)
      BY <1>2, <2>1
    <3> QED BY <1>11, <2>1, <3>1
  <2>2. CASE i # Len(s) + 1
    <3>1. i \in 1 .. Len(s)
      BY <1>2, <2>2
    <3> QED BY <1>11, <1>12, <3>1
  <2> QED BY <2>1, <2>2
<1>14. Len(draining'[r].cells) <= Ring!Total(g.entry[u + 1])
  BY SMTT(30), <1>2, <1>6, <1>7, <1>10, <1>11
<1>15. Consumed(r, g)'
  BY <1>1, <1>3, <1>4, <1>10, <1>13, <1>14 DEF Sound, Consumed
<1>16. Ordered(g)' /\ Produced(r, g)' /\ Laid(r, g)'
  BY <1>1 DEF Sound, Ordered, Produced, Laid, Half, Loaded
<1> QED BY <1>15, <1>16 DEF Sound

\* An entry was handled, or moved on.
LEMMA UseSound ==
    ASSUME RingAssumed, RingTyped, NEW r \in Ring!Rings, NEW g \in Logs, Sound(r, g),
           draining[r].busy, draining[r].cells # <<>>,
           draining'[r] = [draining[r] EXCEPT !.at = @ + Ring!Total(g.entry[g.used + 1]), !.cells = <<>>],
           ringPath' = ringPath, cells'[r] = cells[r], written'[r] = written[r], unread'[r] = unread[r],
           filling'[r] = filling[r]
    PROVE  Sound(r, Using(g))'
<1> DEFINE b == Using(g)
           d == draining[r]
<1>1. /\ b.used = g.used + 1 /\ b.entry = g.entry /\ b.end = g.end /\ b.begun = g.begun /\ b.done = g.done
      /\ b.sent = g.sent /\ b.till = g.till
  BY CountedLog
<1> HIDE DEF b
<1>2. /\ g.used < g.till /\ g.till <= g.sent /\ g.entry[g.used + 1] \in Ring!Entry
      /\ g.end[g.used + 1] = g.end[g.used] + Ring!Total(g.entry[g.used + 1])
  BY InHand
<1>3. /\ g.used \in Nat /\ g.till \in Nat /\ g.sent \in Nat /\ g.end[g.used] \in Nat /\ g.end[g.used + 1] \in Nat
      /\ Ring!Total(g.entry[g.used + 1]) \in Nat
  BY <1>2, LogTypes, TotalType
<1>4. d.at = g.end[g.used] /\ d.limit = g.end[g.till] /\ unread[r] <= g.end[g.used]
  BY DEF Sound, Consumed
<1>5. /\ draining'[r].busy = TRUE /\ draining'[r].limit = g.end[g.till] /\ draining'[r].at = g.end[g.used + 1]
      /\ draining'[r].cells = <<>>
  <2>1. d \in Drainings /\ d.busy = TRUE
    BY DrainingType
  <2>2. /\ draining'[r].busy = d.busy /\ draining'[r].limit = d.limit
        /\ draining'[r].at = d.at + Ring!Total(g.entry[g.used + 1]) /\ draining'[r].cells = <<>>
    BY <2>1 DEF Drainings
  <2> QED BY <1>2, <1>4, <2>1, <2>2
<1>6. unread[r] <= g.end[g.used + 1] /\ g.used + 1 <= g.till /\ g.used + 1 <= g.sent
  BY SMTT(30), <1>2, <1>3, <1>4, LoadedType
<1>7. Consumed(r, b)'
  BY <1>1, <1>2, <1>5, <1>6 DEF Consumed
<1>8. Ordered(b)' /\ Produced(r, b)' /\ Laid(r, b)'
  BY <1>1 DEF Sound, Ordered, Produced, Laid, Half, Loaded
<1> QED BY <1>7, <1>8 DEF Sound, b

\* read_pos moves over what was consumed.
LEMMA ReclaimSound ==
    ASSUME RingAssumed, RingTyped, NEW r \in Ring!Rings, NEW g \in Logs, Sound(r, g), draining[r].busy,
           Ring!Reclaim(r)
    PROVE  Sound(r, g)'
<1>1. /\ unread'[r] = g.end[g.used] /\ draining'[r].busy = FALSE /\ unread[r] <= g.end[g.used]
      /\ UNCHANGED <<ringPath, cells, written, filling>>
  BY DEF Ring!Reclaim, Ring!Idle, RingTyped, Sound, Consumed
<1>2. g.end[g.used] \in Nat /\ g.end[g.begun] \in Nat /\ unread[r] \in Nat /\ Loaded(r) \in Nat /\ Capacity \in Nat
  BY LogTypes, LoadedType DEF RingAssumed
<1>3. Loaded(r) <= unread[r] /\ g.end[g.begun] <= Loaded(r) + Capacity
  BY DEF Sound, Produced
<1>4. Loaded(r) <= Loaded(r)' /\ Loaded(r)' <= unread'[r] /\ Loaded(r)' \in Nat
  <2>1. CASE filling[r].busy
    <3>1. Loaded(r)' = Loaded(r)
      BY <1>1, <2>1 DEF Loaded
    <3> QED BY <1>1, <1>2, <1>3, <3>1
  <2>2. CASE ~filling[r].busy
    <3>1. Loaded(r)' = unread'[r]
      BY <1>1, <2>2 DEF Loaded
    <3> QED BY <1>1, <1>2, <1>3, <3>1
  <2> QED BY <2>1, <2>2
<1>5. g.end[g.begun] <= Loaded(r)' + Capacity
  BY <1>2, <1>3, <1>4
<1>6. Produced(r, g)'
  BY <1>1, <1>4, <1>5 DEF Sound, Produced, Half
<1>7. Laid(r, g)'
  <2> SUFFICES ASSUME NEW i \in 1 .. g.begun, NEW a \in 0 .. Ring!Total(g.entry[i]) - 1,
                      unread'[r] <= g.end[i - 1], i <= g.done \/ a < filling[r].at
               PROVE  cells[r][(g.end[i - 1] + a) % Capacity] = Ring!CellOf(g.entry[i], a)
    BY <1>1 DEF Laid
  <2>1. g.end[i - 1] \in Nat
    BY Places DEF Sound
  <2>2. unread[r] <= g.end[i - 1]
    BY <1>1, <1>2, <2>1
  <2> QED BY <2>2 DEF Sound, Laid
<1>8. Ordered(g)' /\ Consumed(r, g)'
  BY <1>1, <1>2 DEF Sound, Ordered, Consumed
<1> QED BY <1>6, <1>7, <1>8 DEF Sound

-----------------------------------------------------------------------------
(* Proofs.  ByteRing: the rings together, and what comes out at their ends.  *)

\* What a consumer was called with is what its ring's log says.
HeardOf(r, g) ==
    ~Ring!Moving(r) => Len(heard[r]) = g.used /\ \A i \in 1 .. g.used : heard[r][i] = g.entry[i]

\* The pump: g is its source's log, c counts the entries of kind k in it.  Those it moved are what the ring of their
\* kind was given; and while it is moving one, that one is in its hand.
Routed(k, g, gk, c) ==
    /\ \A i \in 1 .. g.begun : c[i] = c[i - 1] + (IF g.entry[i].kind = k THEN 1 ELSE 0)
    /\ \A i, j \in 0 .. g.begun : i <= j => c[i] <= c[j]
    /\ Len(pushed[k]) = c[g.sent]
    /\ \A i \in 1 .. g.sent : g.entry[i].kind = k => pushed[k][c[i]] = g.entry[i]
    /\ gk.sent = c[g.used]
    /\ \A j \in 1 .. gk.sent : gk.entry[j] = pushed[k][j]
    /\ filling[k].busy =>
          /\ draining["near"].busy /\ draining["near"].cells # <<>>
          /\ Len(draining["near"].cells) = Ring!Total(g.entry[g.used + 1])
          /\ g.entry[g.used + 1].kind = k /\ gk.begun = gk.sent + 1 /\ gk.entry[gk.begun] = g.entry[g.used + 1]

\* No pump: the one ring's entries are heard at its own end.
Direct(g) ==
    /\ Len(pushed["near"]) = g.sent /\ \A i \in 1 .. g.sent : pushed["near"][i] = g.entry[i]
    /\ ~filling["main"].busy /\ ~filling["work"].busy

Logged(G, c) ==
    /\ \A r \in Ring!Rings : Sound(r, G[r]) /\ HeardOf(r, G[r])
    /\ ringPath = "split" => \A k \in {"main", "work"} : Routed(k, G["near"], G[k], c[k])
    /\ ringPath # "split" => Direct(G["near"])

RingLogs == [Ring!Rings -> Logs]
KindCounts == [{"main", "work"} -> [Nat -> Nat]]
RingInv == RingTyped /\ \E G \in RingLogs, c \in KindCounts : Logged(G, c)

LEMMA RingNames ==
    /\ "near" \in Ring!Rings /\ {"main", "work"} \subseteq Ring!Rings /\ "near" \notin {"main", "work"}
    /\ \A r \in Ring!Rings : r = "near" \/ r \in {"main", "work"}
BY DEF Ring!Rings

\* A step at one ring, with another log for it.
LEMMA OneRing ==
    ASSUME NEW G \in RingLogs, NEW c \in KindCounts, Logged(G, c), NEW r \in Ring!Rings, NEW h \in Logs,
           Sound(r, h)', HeardOf(r, h)', ringPath' = ringPath,
           \A t \in Ring!Rings : t # r => /\ cells'[t] = cells[t] /\ written'[t] = written[t] /\ unread'[t] = unread[t]
                                          /\ filling'[t] = filling[t] /\ draining'[t] = draining[t]
                                          /\ heard'[t] = heard[t]
    PROVE  /\ [G EXCEPT ![r] = h] \in RingLogs /\ [G EXCEPT ![r] = h][r] = h
           /\ \A t \in Ring!Rings : t # r => [G EXCEPT ![r] = h][t] = G[t]
           /\ \A t \in Ring!Rings : Sound(t, [G EXCEPT ![r] = h][t])' /\ HeardOf(t, [G EXCEPT ![r] = h][t])'
<1> DEFINE H == [G EXCEPT ![r] = h]
<1>1. H \in RingLogs /\ H[r] = h /\ \A t \in Ring!Rings : t # r => H[t] = G[t]
  BY DEF RingLogs
<1> HIDE DEF H
<1>2. \A t \in Ring!Rings : Sound(t, H[t])' /\ HeardOf(t, H[t])'
  <2> SUFFICES ASSUME NEW t \in Ring!Rings PROVE Sound(t, H[t])' /\ HeardOf(t, H[t])'
    OBVIOUS
  <2>1. CASE t = r
    BY <1>1, <2>1
  <2>2. CASE t # r
    <3>1. Sound(t, G[t]) /\ HeardOf(t, G[t])
      BY DEF Logged
    <3>2. Sound(t, G[t])'
      BY <2>2, <3>1, SoundKept
    <3>3. HeardOf(t, G[t])'
      BY <2>2, <3>1 DEF HeardOf, Ring!Moving
    <3> QED BY <1>1, <2>2, <3>2, <3>3
  <2> QED BY <2>1, <2>2
<1> QED BY <1>1, <1>2 DEF H

\* A step at one ring that publishes nothing.
LEMMA SameRoutes ==
    ASSUME RingTyped', NEW G \in RingLogs, NEW c \in KindCounts, Logged(G, c), NEW r \in Ring!Rings, NEW h \in Logs,
           Sound(r, h)', HeardOf(r, h)', ringPath' = ringPath, pushed' = pushed,
           \A t \in Ring!Rings : t # r => /\ cells'[t] = cells[t] /\ written'[t] = written[t] /\ unread'[t] = unread[t]
                                          /\ filling'[t] = filling[t] /\ draining'[t] = draining[t]
                                          /\ heard'[t] = heard[t],
           h.entry = G[r].entry, h.begun = G[r].begun, h.sent = G[r].sent,
           r = "near" /\ ringPath = "split" => h.used = G[r].used,
           \A k \in {"main", "work"} :
              filling'[k].busy => filling[k].busy /\ draining'["near"] = draining["near"]
    PROVE  RingInv'
<1> DEFINE H == [G EXCEPT ![r] = h]
<1>1. /\ H \in RingLogs /\ H[r] = h /\ \A t \in Ring!Rings : t # r => H[t] = G[t]
      /\ \A t \in Ring!Rings : Sound(t, H[t])' /\ HeardOf(t, H[t])'
  BY OneRing
<1> HIDE DEF H
<1>2. \A t \in Ring!Rings : /\ H[t].entry = G[t].entry /\ H[t].begun = G[t].begun /\ H[t].sent = G[t].sent
                            /\ t = "near" /\ ringPath = "split" => H[t].used = G[t].used
  BY <1>1
<1>3. ringPath = "split" => \A k \in {"main", "work"} : Routed(k, H["near"], H[k], c[k])'
  <2> SUFFICES ASSUME ringPath = "split", NEW k \in {"main", "work"} PROVE Routed(k, H["near"], H[k], c[k])'
    OBVIOUS
  <2>1. Routed(k, G["near"], G[k], c[k])
    BY DEF Logged
  <2>2. /\ H["near"].entry = G["near"].entry /\ H["near"].begun = G["near"].begun /\ H["near"].sent = G["near"].sent
        /\ H["near"].used = G["near"].used
        /\ H[k].entry = G[k].entry /\ H[k].begun = G[k].begun /\ H[k].sent = G[k].sent
    BY <1>2, RingNames
  <2>3. filling'[k].busy => filling[k].busy /\ draining'["near"] = draining["near"]
    OBVIOUS
  <2> QED BY <2>1, <2>2, <2>3 DEF Routed
<1>4. ringPath # "split" => Direct(H["near"])'
  BY <1>2, RingNames DEF Logged, Direct
<1>5. Logged(H, c)'
  BY <1>1, <1>3, <1>4 DEF Logged
<1> QED BY <1>1, <1>5 DEF RingInv

LEMMA RingStart ==
    ASSUME RingAssumed, Ring!Init
    PROVE  RingInv
<1> PICK s \in Sizes : TRUE
  BY DEF RingAssumed
<1> DEFINE e == [id |-> 1, kind |-> "main", size |-> s]
           g == [entry |-> [i \in Nat |-> e], end |-> [i \in Nat |-> 0],
                 begun |-> 0, done |-> 0, sent |-> 0, used |-> 0, till |-> 0]
           G == [r \in Ring!Rings |-> g]
           c == [k \in {"main", "work"} |-> [i \in Nat |-> 0]]
<1>1. e \in Ring!Entry
  BY DEF RingAssumed, Ring!Entry
<1> HIDE DEF e
<1>2. g \in Logs
  BY <1>1 DEF Logs
<1>3. g.begun = 0 /\ g.done = 0 /\ g.sent = 0 /\ g.used = 0 /\ g.till = 0 /\ g.end[0] = 0
  OBVIOUS
<1> HIDE DEF g
<1>4. G \in RingLogs /\ c \in KindCounts /\ \A r \in Ring!Rings : G[r] = g
  BY <1>2 DEF RingLogs, KindCounts
<1>5. \A k \in {"main", "work"} : c[k][0] = 0
  OBVIOUS
<1> HIDE DEF G, c
<1>6. RingTyped
  <2>1. [i \in 0 .. Capacity - 1 |-> Ring!Unwritten] \in [0 .. Capacity - 1 -> Mark]
    BY DEF Mark
  <2>2. <<>> \in Seq(Ring!Entry)
    OBVIOUS
  <2> QED BY <2>1, <2>2 DEF Ring!Init, RingTyped, RingAssumed
<1>7. ASSUME NEW r \in Ring!Rings
      PROVE  Sound(r, g) /\ HeardOf(r, g)
  <2>1. /\ filling[r].busy = FALSE /\ draining[r].busy = FALSE /\ written[r] = 0 /\ unread[r] = 0 /\ heard[r] = <<>>
    BY DEF Ring!Init, Ring!Idle
  <2>2. Ordered(g)
    BY <1>3 DEF Ordered
  <2>3. Produced(r, g)
    BY <1>3, <2>1 DEF Produced, Half, Loaded, RingAssumed
  <2>4. Laid(r, g)
    BY <1>3 DEF Laid
  <2>5. Consumed(r, g)
    BY <1>3, <2>1 DEF Consumed
  <2>6. HeardOf(r, g)
    BY <1>3, <2>1 DEF HeardOf
  <2> QED BY <2>2, <2>3, <2>4, <2>5, <2>6 DEF Sound
<1>8. ASSUME NEW k \in {"main", "work"}
      PROVE  Routed(k, g, g, c[k])
  <2>1. filling[k].busy = FALSE /\ pushed[k] = <<>>
    BY RingNames DEF Ring!Init, Ring!Idle
  <2> QED BY <1>3, <1>5, <2>1 DEF Routed
<1>9. Direct(g)
  BY <1>3, RingNames DEF Ring!Init, Ring!Idle, Direct
<1>10. Logged(G, c)
  BY <1>4, <1>7, <1>8, <1>9, RingNames DEF Logged
<1> QED BY <1>4, <1>6, <1>10 DEF RingInv

\* What producers do, entry by entry.
LEMMA FillingKept ==
    ASSUME RingAssumed, RingTyped, NEW r \in Ring!Rings, NEW e \in Ring!Entry, Ring!Begin(r, e)
    PROVE  /\ filling' \in [Ring!Rings -> Writings \cup {Ring!Idle}]
           /\ \A t \in Ring!Rings : t # r => filling'[t] = filling[t]
<1> DEFINE from == IF filling[r].busy THEN filling[r].from ELSE written[r]
           loaded == IF filling[r].busy THEN filling[r].read ELSE unread[r]
           batch == IF filling[r].busy THEN filling[r].batch ELSE <<>>
           f == [busy |-> TRUE, from |-> from, read |-> loaded, entry |-> e, at |-> 0, batch |-> batch]
<1>1. from \in Nat /\ loaded \in Nat /\ batch \in Seq(Ring!Entry)
  <2>1. CASE filling[r].busy
    BY <2>1, FillingType
  <2>2. CASE ~filling[r].busy
    BY <2>2, LoadedType
  <2> QED BY <2>1, <2>2
<1>2. f \in Writings
  BY <1>1 DEF Writings
<1>3. filling' = [filling EXCEPT ![r] = f]
  BY DEF Ring!Begin
<1> HIDE DEF f
<1> QED BY <1>2, <1>3 DEF RingTyped

LEMMA RingWrites ==
    ASSUME RingAssumed, RingInv, NEW r \in Ring!Rings, Ring!WriteCell(r)
    PROVE  RingInv'
<1> PICK G \in RingLogs, c \in KindCounts : Logged(G, c)
  BY DEF RingInv
<1> DEFINE f == filling[r]
<1>1. RingTyped
  BY DEF RingInv
<1>2. /\ f.busy /\ f.entry # Ring!NoEntry
      /\ cells' = [cells EXCEPT ![r][(f.from + f.at) % Capacity] = Ring!CellOf(f.entry, f.at)]
      /\ filling' = [filling EXCEPT ![r] = IF f.at + 1 < Ring!Total(f.entry) THEN [f EXCEPT !.at = @ + 1]
                                           ELSE [f EXCEPT !.from = @ + Ring!Total(f.entry), !.entry = Ring!NoEntry,
                                                          !.batch = Append(@, f.entry)]]
      /\ UNCHANGED <<ringPath, written, unread, draining, tried, pushed, heard>>
  BY DEF Ring!WriteCell
<1>3. /\ f \in Writings /\ f.busy = TRUE /\ f.entry \in Ring!Entry /\ f.at \in Nat /\ f.from \in Nat
      /\ f.batch \in Seq(Ring!Entry) /\ Ring!Total(f.entry) \in Nat
  BY <1>1, <1>2, FillingType, TotalType
<1>4. cells' \in [Ring!Rings -> [0 .. Capacity - 1 -> Mark]]
  <2>1. Ring!CellOf(f.entry, f.at) \in Mark
    BY <1>3, MarkType
  <2> HIDE DEF f
  <2> QED BY <1>1, <1>2, <2>1 DEF RingTyped
<1>5. filling' \in [Ring!Rings -> Writings \cup {Ring!Idle}]
  <2>1. [f EXCEPT !.at = @ + 1] \in Writings
    <3>1. f.at + 1 \in Nat
      BY <1>3
    <3> QED BY <1>3, <3>1 DEF Writings
  <2>2. Append(f.batch, f.entry) \in Seq(Ring!Entry) /\ f.from + Ring!Total(f.entry) \in Nat
    BY <1>3, AppendProperties
  <2>3. [f EXCEPT !.from = @ + Ring!Total(f.entry), !.entry = Ring!NoEntry, !.batch = Append(@, f.entry)] \in Writings
    BY <1>3, <2>2 DEF Writings
  <2> HIDE DEF f
  <2> QED BY <1>1, <1>2, <2>1, <2>3 DEF RingTyped
<1>6. RingTyped'
  BY <1>1, <1>2, <1>4, <1>5 DEF RingTyped
<1>7. G[r] \in Logs /\ Sound(r, G[r]) /\ HeardOf(r, G[r])
  BY DEF Logged, RingLogs
<1>8. PICK h \in {G[r], Laying(G[r])} : Sound(r, h)' /\ filling'[r].busy
  BY <1>1, <1>7, WriteSound
<1>9. /\ h \in Logs /\ h.entry = G[r].entry /\ h.begun = G[r].begun /\ h.sent = G[r].sent /\ h.used = G[r].used
  BY <1>7, <1>8, CountedLog
<1>10. HeardOf(r, h)'
  BY <1>2, <1>7, <1>9 DEF HeardOf, Ring!Moving
<1>11. \A t \in Ring!Rings : t # r => cells'[t] = cells[t] /\ filling'[t] = filling[t]
  BY <1>1, <1>2 DEF RingTyped
<1>12. \A k \in {"main", "work"} : filling'[k].busy => filling[k].busy
  BY <1>2, <1>11, RingNames
<1> QED BY <1>2, <1>6, <1>8, <1>9, <1>10, <1>11, <1>12, SameRoutes

\* What a consumer or the pump does without publishing.
LEMMA RingReads ==
    ASSUME RingAssumed, RingInv, NEW r \in Ring!Rings,
           Ring!DrainBegin(r) \/ Ring!ReadCell(r) \/ Ring!Handle(r) \/ Ring!DrainEnd(r)
              \/ (r = "near" /\ Ring!Backpressure)
    PROVE  RingInv'
<1> PICK G \in RingLogs, c \in KindCounts : Logged(G, c)
  BY DEF RingInv
<1> DEFINE d == draining[r]
           g == G[r]
<1>1. RingTyped
  BY DEF RingInv
<1>2. g \in Logs /\ Sound(r, g) /\ HeardOf(r, g)
  BY DEF Logged, RingLogs
<1>3. CASE Ring!DrainBegin(r)
  <2>1. /\ ~d.busy
        /\ draining' = [draining EXCEPT ![r] = [busy |-> TRUE, limit |-> written[r], at |-> unread[r], cells |-> <<>>]]
        /\ UNCHANGED <<ringPath, cells, written, unread, filling, tried, pushed, heard>>
    BY <1>3 DEF Ring!DrainBegin
  <2>2. [busy |-> TRUE, limit |-> written[r], at |-> unread[r], cells |-> <<>>] \in Drainings
    <3>1. <<>> \in Seq(Mark)
      OBVIOUS
    <3> QED BY <1>1, <3>1, LoadedType DEF Drainings
  <2>3. RingTyped' /\ \A t \in Ring!Rings : t # r => draining'[t] = draining[t]
    BY <1>1, <2>1, <2>2 DEF RingTyped
  <2>4. /\ Knowing(g) \in Logs /\ Knowing(g).entry = g.entry /\ Knowing(g).begun = g.begun
        /\ Knowing(g).sent = g.sent /\ Knowing(g).used = g.used
    BY <1>2, CountedLog
  <2>5. Sound(r, Knowing(g))'
    BY <1>1, <1>2, <1>3, DrainSound
  <2>6. HeardOf(r, Knowing(g))'
    BY <1>2, <2>1, <2>4 DEF HeardOf, Ring!Moving
  <2>7. \A k \in {"main", "work"} : filling'[k].busy => draining'["near"] = draining["near"]
    <3>1. CASE r = "near"
      BY <2>1, <3>1 DEF Logged, Routed, Direct
    <3>2. CASE r # "near"
      BY <2>3, <3>2, RingNames
    <3> QED BY <3>1, <3>2
  <2> HIDE DEF g
  <2> QED BY <2>1, <2>3, <2>4, <2>5, <2>6, <2>7, SameRoutes DEF g
<1>4. CASE Ring!ReadCell(r)
  <2>1. /\ d.busy /\ ~Ring!Whole(d.cells)
        /\ draining' = [draining EXCEPT ![r].cells = Append(@, cells[r][(d.at + Len(d.cells)) % Capacity])]
        /\ UNCHANGED <<ringPath, cells, written, unread, filling, tried, pushed, heard>>
    BY <1>4 DEF Ring!ReadCell
  <2>2. d \in Drainings /\ d.busy = TRUE /\ d.cells \in Seq(Mark) /\ d.at \in Nat /\ Len(d.cells) \in Nat
    <3>1. d \in Drainings /\ d.busy = TRUE /\ d.cells \in Seq(Mark) /\ d.at \in Nat
      BY <1>1, <2>1, DrainingType
    <3> QED BY <3>1
  <2>3. cells[r][(d.at + Len(d.cells)) % Capacity] \in Mark
    <3>1. (d.at + Len(d.cells)) % Capacity \in 0 .. Capacity - 1
      BY <2>2 DEF RingAssumed
    <3> QED BY <1>1, <3>1 DEF RingTyped
  <2>4. [d EXCEPT !.cells = Append(@, cells[r][(d.at + Len(d.cells)) % Capacity])] \in Drainings
    <3>1. Append(d.cells, cells[r][(d.at + Len(d.cells)) % Capacity]) \in Seq(Mark)
      BY <2>2, <2>3, AppendProperties
    <3> QED BY <2>2, <3>1 DEF Drainings
  <2>5. draining' = [draining EXCEPT ![r] = [d EXCEPT !.cells = Append(@, cells[r][(d.at + Len(d.cells)) % Capacity])]]
    BY <2>1
  <2>6. RingTyped' /\ \A t \in Ring!Rings : t # r => draining'[t] = draining[t]
    BY <1>1, <2>1, <2>4, <2>5 DEF RingTyped
  <2>7. Sound(r, g)'
    BY <1>1, <1>2, <1>4, ReadSound
  <2>8. HeardOf(r, g)'
    BY <1>2, <2>1 DEF HeardOf, Ring!Moving
  <2>9. \A k \in {"main", "work"} : filling'[k].busy => draining'["near"] = draining["near"]
    <3>1. CASE r = "near"
      <4> SUFFICES ASSUME NEW k \in {"main", "work"}, filling[k].busy PROVE FALSE
        BY <2>1
      <4>1. Routed(k, g, G[k], c[k])
        BY <3>1 DEF Logged, Direct
      <4>2. d.cells # <<>> /\ Len(d.cells) = Ring!Total(g.entry[g.used + 1])
        BY <3>1, <4>1 DEF Routed
      <4> QED BY <1>1, <1>2, <2>1, <4>2, InHand
    <3>2. CASE r # "near"
      BY <2>6, <3>2, RingNames
    <3> QED BY <3>1, <3>2
  <2> QED BY <1>2, <2>1, <2>6, <2>7, <2>8, <2>9, SameRoutes
<1>5. CASE Ring!Handle(r)
  <2>1. /\ d.busy /\ Ring!Whole(d.cells) /\ ~Ring!Moving(r)
        /\ heard' = [heard EXCEPT ![r] = Append(@, Ring!Heard(d.cells))]
        /\ draining' = [draining EXCEPT ![r] = [d EXCEPT !.at = @ + Len(d.cells), !.cells = <<>>]]
        /\ UNCHANGED <<ringPath, cells, written, unread, filling, tried, pushed>>
    BY <1>5 DEF Ring!Handle
  <2>2. d.cells # <<>>
    BY <2>1 DEF Ring!Whole
  <2>3. /\ Ring!Heard(d.cells) = g.entry[g.used + 1] /\ g.entry[g.used + 1] \in Ring!Entry
        /\ Len(d.cells) = Ring!Total(g.entry[g.used + 1]) /\ g.used + 1 \in Nat /\ g.used \in Nat
    BY <1>1, <1>2, <2>1, <2>2, InHand, LogTypes
  <2>4. d \in Drainings /\ d.busy = TRUE /\ d.at \in Nat /\ Ring!Total(g.entry[g.used + 1]) \in Nat
    BY <1>1, <2>1, <2>3, DrainingType, TotalType
  <2>5. [d EXCEPT !.at = @ + Ring!Total(g.entry[g.used + 1]), !.cells = <<>>] \in Drainings
    <3>1. <<>> \in Seq(Mark)
      OBVIOUS
    <3>2. d.at + Ring!Total(g.entry[g.used + 1]) \in Nat
      BY <2>4
    <3> QED BY <2>4, <3>1, <3>2 DEF Drainings
  <2>6. /\ draining' = [draining EXCEPT ![r] = [d EXCEPT !.at = @ + Ring!Total(g.entry[g.used + 1]), !.cells = <<>>]]
        /\ heard' = [heard EXCEPT ![r] = Append(@, g.entry[g.used + 1])]
    BY <2>1, <2>3
  <2>7. heard[r] \in Seq(Ring!Entry) /\ Append(heard[r], g.entry[g.used + 1]) \in Seq(Ring!Entry)
    BY <1>1, <2>3, AppendProperties DEF RingTyped
  <2>8. /\ RingTyped' /\ heard'[r] = Append(heard[r], g.entry[g.used + 1])
        /\ draining'[r] = [d EXCEPT !.at = @ + Ring!Total(g.entry[g.used + 1]), !.cells = <<>>]
        /\ \A t \in Ring!Rings : t # r => draining'[t] = draining[t] /\ heard'[t] = heard[t]
    <3>1. heard' \in [Ring!Rings -> Seq(Ring!Entry)] /\ draining' \in [Ring!Rings -> Drainings \cup {Ring!Idle}]
      BY <1>1, <2>5, <2>6, <2>7 DEF RingTyped
    <3>2. RingTyped'
      BY <1>1, <2>1, <3>1 DEF RingTyped
    <3> QED BY <1>1, <2>6, <3>2 DEF RingTyped
  <2>9. /\ Using(g) \in Logs /\ Using(g).entry = g.entry /\ Using(g).begun = g.begun /\ Using(g).sent = g.sent
        /\ Using(g).used = g.used + 1
    BY <1>2, CountedLog
  <2>10. Sound(r, Using(g))'
    BY <1>1, <1>2, <2>1, <2>2, <2>8, UseSound
  <2>11. HeardOf(r, Using(g))'
    <3>1. Len(heard[r]) = g.used /\ \A i \in 1 .. g.used : heard[r][i] = g.entry[i]
      BY <1>2, <2>1 DEF HeardOf
    <3>2. /\ Len(heard'[r]) = g.used + 1 /\ heard'[r][g.used + 1] = g.entry[g.used + 1]
          /\ \A i \in 1 .. g.used : heard'[r][i] = heard[r][i]
      BY <2>3, <2>7, <2>8, <3>1, AppendProperties
    <3>3. \A i \in 1 .. g.used + 1 : i \in 1 .. g.used \/ i = g.used + 1
      BY <2>3
    <3>4. \A i \in 1 .. g.used + 1 : heard'[r][i] = g.entry[i]
      BY <3>1, <3>2, <3>3
    <3> QED BY <2>9, <3>2, <3>4 DEF HeardOf
  <2>12. r = "near" => ringPath # "split"
    BY <2>1 DEF Ring!Moving
  <2>13. \A k \in {"main", "work"} : filling'[k].busy => draining'["near"] = draining["near"]
    <3>1. CASE r = "near"
      BY <2>1, <2>12, <3>1 DEF Logged, Direct
    <3>2. CASE r # "near"
      BY <2>8, <3>2, RingNames
    <3> QED BY <3>1, <3>2
  <2> HIDE DEF g
  <2> QED BY <2>1, <2>8, <2>9, <2>10, <2>11, <2>12, <2>13, SameRoutes DEF g
<1>6. ASSUME d.busy, Ring!Reclaim(r), r = "near" => \A k \in {"main", "work"} : ~filling[k].busy
      PROVE  RingInv'
  <2>1. /\ unread' = [unread EXCEPT ![r] = d.at] /\ draining' = [draining EXCEPT ![r] = Ring!Idle]
        /\ UNCHANGED <<ringPath, cells, written, filling, tried, pushed, heard>>
    BY <1>6 DEF Ring!Reclaim
  <2>2. d.at \in Nat
    BY <1>1, <1>6, DrainingType
  <2>3. RingTyped' /\ \A t \in Ring!Rings : t # r => draining'[t] = draining[t] /\ unread'[t] = unread[t]
    BY <1>1, <2>1, <2>2 DEF RingTyped
  <2>4. Sound(r, g)'
    BY <1>1, <1>2, <1>6, ReclaimSound
  <2>5. HeardOf(r, g)'
    BY <1>2, <2>1 DEF HeardOf, Ring!Moving
  <2>6. \A k \in {"main", "work"} : filling'[k].busy => draining'["near"] = draining["near"]
    BY <1>6, <2>1, <2>3, RingNames
  <2> QED BY <1>2, <2>1, <2>3, <2>4, <2>5, <2>6, SameRoutes
<1>7. CASE Ring!DrainEnd(r)
  <2>1. d.busy /\ d.at = d.limit /\ Ring!Reclaim(r)
    BY <1>7 DEF Ring!DrainEnd
  <2>2. d.cells = <<>>
    <3> SUFFICES ASSUME d.cells # <<>> PROVE FALSE
      OBVIOUS
    <3>1. g.used < g.till /\ g.till <= g.sent /\ g.sent <= g.done /\ d.at = g.end[g.used] /\ d.limit = g.end[g.till]
      BY <1>2, <2>1 DEF Sound, Consumed, Produced
    <3>2. /\ g.used \in Nat /\ g.till \in Nat /\ g.sent \in Nat /\ g.done \in Nat /\ g.begun \in Nat
          /\ g.done <= g.begun /\ g.end[g.used] \in Nat /\ g.end[g.till] \in Nat
      <4>1. g.done \in Nat /\ g.begun \in Nat
        BY <1>2, LogTypes
      <4>2. g.done <= g.begun
        BY <1>2, <4>1 DEF Sound, Produced
      <4> QED BY <1>2, <4>2, LogTypes
    <3>3. g.used \in 0 .. g.begun /\ g.till \in 0 .. g.begun /\ Ordered(g)
      BY SMTT(30), <1>2, <3>1, <3>2 DEF Sound
    <3>4. g.end[g.used] < g.end[g.till]
      BY <1>2, <3>1, <3>3, InOrder
    <3>5. g.end[g.used] = g.end[g.till]
      BY <2>1, <3>1
    <3> QED BY <3>2, <3>4, <3>5
  <2>3. r = "near" => \A k \in {"main", "work"} : ~filling[k].busy
    BY <2>2 DEF Logged, Routed, Direct
  <2> QED BY <1>6, <2>1, <2>3
<1>8. CASE r = "near" /\ Ring!Backpressure
  BY <1>6, <1>8 DEF Ring!Backpressure
<1> QED BY <1>3, <1>4, <1>5, <1>7, <1>8

\* The processor, or AAX's timer, tries an entry.
LEMMA RingPushes ==
    ASSUME RingAssumed, RingInv, NEW e \in Ring!Entry, Ring!Push(e)
    PROVE  RingInv'
<1> PICK G \in RingLogs, c \in KindCounts : Logged(G, c)
  BY DEF RingInv
<1> DEFINE g == G["near"]
           n == g.begun
           h == Begun(g, e)
<1>1. RingTyped /\ "near" \in Ring!Rings
  BY RingNames DEF RingInv
<1>2. g \in Logs /\ Sound("near", g) /\ HeardOf("near", g) /\ Ordered(g)
  BY <1>1 DEF Logged, RingLogs, Sound
<1>3. /\ tried < MaxEntries /\ tried' = tried + 1
      /\ filling["near"].busy => ringPath = "inbound" /\ filling["near"].entry = Ring!NoEntry
      /\ UNCHANGED <<ringPath, cells, written, unread, draining, pushed, heard>>
      /\ Ring!Begin("near", e) \/ UNCHANGED filling
  BY DEF Ring!Push, Ring!Entry
<1>4. tried' \in 0 .. MaxEntries
  BY <1>1, <1>3 DEF RingTyped, RingAssumed
<1>5. CASE UNCHANGED filling
  <2>1. RingTyped'
    BY <1>1, <1>3, <1>4, <1>5 DEF RingTyped
  <2>2. Sound("near", g)' /\ HeardOf("near", g)'
    BY <1>2, <1>3, <1>5, SoundKept DEF HeardOf, Ring!Moving
  <2> HIDE DEF g
  <2> QED BY <1>1, <1>2, <1>3, <1>5, <2>1, <2>2, SameRoutes DEF g
<1>6. CASE Ring!Begin("near", e)
  <2>1. /\ filling' \in [Ring!Rings -> Writings \cup {Ring!Idle}]
        /\ \A t \in Ring!Rings : t # "near" => filling'[t] = filling[t]
    BY <1>1, <1>6, FillingKept
  <2>2. RingTyped'
    BY <1>1, <1>3, <1>4, <2>1 DEF RingTyped
  <2>3. /\ h \in Logs
        /\ h.begun = n + 1 /\ h.sent = g.sent /\ h.used = g.used
        /\ \A i \in 0 .. n : h.entry[i] = g.entry[i]
        /\ h.entry[n + 1] = e
    BY <1>2, BegunLog
  <2>4. Sound("near", h)'
    BY <1>1, <1>2, <1>3, <1>6, BeginSound
  <2> HIDE DEF h
  <2>5. n \in Nat /\ g.sent \in Nat /\ g.used \in Nat /\ g.used <= g.sent /\ g.sent <= n
    <3>1. g.used \in Nat /\ g.sent \in Nat /\ g.done \in Nat /\ n \in Nat
      BY <1>2, LogTypes
    <3> QED BY <1>2, <3>1 DEF Sound, Produced, Consumed
  <2>6. /\ \A i \in 1 .. g.sent : h.entry[i] = g.entry[i]
        /\ \A i \in 1 .. g.used : h.entry[i] = g.entry[i]
    BY <2>3, <2>5
  <2>7. HeardOf("near", h)'
    BY <1>2, <1>3, <2>3, <2>6 DEF HeardOf, Ring!Moving
  <2> DEFINE H == [G EXCEPT !["near"] = h]
             b == [k \in {"main", "work"} |->
                      [c[k] EXCEPT ![n + 1] = c[k][n] + (IF e.kind = k THEN 1 ELSE 0)]]
  <2>8. /\ H \in RingLogs /\ H["near"] = h /\ \A t \in Ring!Rings : t # "near" => H[t] = G[t]
        /\ \A t \in Ring!Rings : Sound(t, H[t])' /\ HeardOf(t, H[t])'
    BY <1>1, <1>3, <2>1, <2>3, <2>4, <2>7, OneRing
  <2> HIDE DEF H
  <2>9. ASSUME NEW k \in {"main", "work"}
        PROVE  /\ b[k] \in [Nat -> Nat] /\ \A i \in 0 .. n : b[k][i] = c[k][i]
               /\ b[k][n + 1] = c[k][n] + (IF e.kind = k THEN 1 ELSE 0)
               /\ \A i \in Nat : c[k][i] \in Nat
    <3>1. c[k] \in [Nat -> Nat] /\ n + 1 \in Nat /\ c[k][n] \in Nat
      BY <2>5 DEF KindCounts
    <3>2. c[k][n] + (IF e.kind = k THEN 1 ELSE 0) \in Nat
      BY <3>1
    <3> QED BY <2>5, <3>1, <3>2
  <2>10. b \in KindCounts
    BY <2>9 DEF KindCounts
  <2> HIDE DEF b
  <2>11. ASSUME ringPath = "split", NEW k \in {"main", "work"}
         PROVE  Routed(k, h, G[k], b[k])'
    <3>1. Routed(k, g, G[k], c[k])
      BY <2>11 DEF Logged
    <3>2. \A i \in 1 .. n + 1 : b[k][i] = b[k][i - 1] + (IF h.entry[i].kind = k THEN 1 ELSE 0)
      <4> SUFFICES ASSUME NEW i \in 1 .. n + 1
                   PROVE  b[k][i] = b[k][i - 1] + (IF h.entry[i].kind = k THEN 1 ELSE 0)
        OBVIOUS
      <4>1. CASE i = n + 1
        BY SMTT(30), <2>3, <2>5, <2>9, <4>1
      <4>2. CASE i # n + 1
        <5>1. i \in 1 .. n /\ i \in 0 .. n /\ i - 1 \in 0 .. n
          BY <2>5, <4>2
        <5>2. c[k][i] = c[k][i - 1] + (IF g.entry[i].kind = k THEN 1 ELSE 0)
          BY <3>1, <5>1 DEF Routed
        <5> QED BY <2>3, <2>9, <5>1, <5>2
      <4> QED BY <4>1, <4>2
    <3>3. \A i, j \in 0 .. n + 1 : i <= j => b[k][i] <= b[k][j]
      <4> SUFFICES ASSUME NEW i \in 0 .. n + 1, NEW j \in 0 .. n + 1, i <= j PROVE b[k][i] <= b[k][j]
        OBVIOUS
      <4>1. CASE j # n + 1
        <5>1. i \in 0 .. n /\ j \in 0 .. n
          BY <2>5, <4>1
        <5>2. c[k][i] <= c[k][j]
          BY <3>1, <5>1 DEF Routed
        <5> QED BY <2>9, <5>1, <5>2
      <4>2. CASE j = n + 1 /\ i = n + 1
        <5>1. b[k][n + 1] \in Nat
          BY <2>5, <2>9
        <5> QED BY <4>2, <5>1
      <4>3. CASE j = n + 1 /\ i # n + 1
        <5>1. i \in 0 .. n /\ n \in 0 .. n /\ i <= n /\ i \in Nat /\ n \in Nat
          BY <2>5, <4>3
        <5>2. c[k][i] <= c[k][n]
          BY <3>1, <5>1 DEF Routed
        <5>3. c[k][i] \in Nat /\ c[k][n] \in Nat
          BY <2>9, <5>1
        <5>4. b[k][i] = c[k][i] /\ b[k][n + 1] >= c[k][n]
          BY <2>9, <5>1, <5>3
        <5>5. b[k][n + 1] \in Nat
          BY <2>5, <2>9
        <5> QED BY <4>3, <5>2, <5>3, <5>4, <5>5
      <4> QED BY <4>1, <4>2, <4>3
    <3>4. b[k][g.sent] = c[k][g.sent] /\ b[k][g.used] = c[k][g.used] /\ \A i \in 1 .. g.sent : b[k][i] = c[k][i]
      <4>1. g.sent \in 0 .. n /\ g.used \in 0 .. n /\ \A i \in 1 .. g.sent : i \in 0 .. n
        BY <2>5
      <4> HIDE DEF n
      <4> QED BY <2>9, <4>1
    <3>5. filling[k].busy => h.entry[g.used + 1] = g.entry[g.used + 1]
      <4>1. filling[k].busy => draining["near"].busy /\ draining["near"].cells # <<>>
        BY <3>1 DEF Routed
      <4>2. filling[k].busy => g.used + 1 \in 1 .. g.sent
        BY <1>1, <1>2, <4>1, InHand
      <4> QED BY <2>6, <4>2
    <3>6. filling'[k] = filling[k] /\ pushed' = pushed /\ draining' = draining
      BY <1>3, <2>1, RingNames
    <3>7. /\ Len(pushed[k]) = b[k][g.sent]
          /\ \A i \in 1 .. g.sent : h.entry[i].kind = k => pushed[k][b[k][i]] = h.entry[i]
          /\ G[k].sent = b[k][g.used]
      BY <2>6, <3>1, <3>4 DEF Routed
    <3>8. \A j \in 1 .. G[k].sent : G[k].entry[j] = pushed[k][j]
      BY <3>1 DEF Routed
    <3>9. filling[k].busy =>
            /\ draining["near"].busy /\ draining["near"].cells # <<>>
            /\ Len(draining["near"].cells) = Ring!Total(h.entry[g.used + 1])
            /\ h.entry[g.used + 1].kind = k /\ G[k].begun = G[k].sent + 1 /\ G[k].entry[G[k].begun] = h.entry[g.used + 1]
      BY <3>1, <3>5 DEF Routed
    <3> QED BY <2>3, <3>2, <3>3, <3>6, <3>7, <3>8, <3>9 DEF Routed
  <2>12. ringPath # "split" => Direct(h)'
    BY <1>3, <2>1, <2>3, <2>6, RingNames DEF Logged, Direct
  <2>13. Logged(H, b)'
    BY <1>3, <2>8, <2>11, <2>12, RingNames DEF Logged
  <2> QED BY <2>2, <2>8, <2>10, <2>13 DEF RingInv
<1> QED BY <1>3, <1>5, <1>6

\* The pump begins to push what is in its hand.
LEMMA RingMoves ==
    ASSUME RingAssumed, RingInv, Ring!Move
    PROVE  RingInv'
<1> PICK G \in RingLogs, c \in KindCounts : Logged(G, c)
  BY DEF RingInv
<1> DEFINE g == G["near"]
           e == g.entry[g.used + 1]
           d == draining["near"]
<1>1. RingTyped /\ "near" \in Ring!Rings /\ g \in Logs /\ Sound("near", g)
  BY RingNames DEF RingInv, Logged, RingLogs
<1>2. /\ ringPath = "split" /\ d.busy /\ Ring!Whole(d.cells)
      /\ \A k \in {"main", "work"} : ~filling[k].busy
      /\ Ring!Begin(Ring!Heard(d.cells).kind, Ring!Heard(d.cells))
      /\ UNCHANGED <<ringPath, cells, written, unread, draining, tried, pushed, heard>>
  BY DEF Ring!Move
<1>3. d.cells # <<>>
  BY <1>2 DEF Ring!Whole
<1>4. e \in Ring!Entry /\ Ring!Heard(d.cells) = e /\ Len(d.cells) = Ring!Total(e)
  BY <1>1, <1>2, <1>3, InHand
<1> DEFINE k == e.kind
<1>5. k \in {"main", "work"} /\ k \in Ring!Rings /\ k # "near"
  BY <1>4, RingNames DEF Ring!Entry
<1> HIDE DEF k
<1>6. G[k] \in Logs /\ Sound(k, G[k]) /\ HeardOf(k, G[k]) /\ Ordered(G[k]) /\ Routed(k, g, G[k], c[k])
  BY <1>2, <1>5 DEF Logged, RingLogs, Sound
<1>7. Ring!Begin(k, e) /\ ~filling[k].busy
  BY <1>2, <1>4, <1>5 DEF k
<1> DEFINE h == Begun(G[k], e)
           n == G[k].begun
<1>8. /\ filling' \in [Ring!Rings -> Writings \cup {Ring!Idle}]
      /\ \A t \in Ring!Rings : t # k => filling'[t] = filling[t]
  BY <1>1, <1>4, <1>5, <1>7, FillingKept
<1>9. RingTyped'
  BY <1>1, <1>2, <1>8 DEF RingTyped
<1>10. /\ h \in Logs /\ h.begun = n + 1 /\ h.sent = G[k].sent /\ h.used = G[k].used
       /\ \A i \in 0 .. n : h.entry[i] = G[k].entry[i]
       /\ h.entry[n + 1] = e
  BY <1>4, <1>6, BegunLog
<1>11. Sound(k, h)'
  BY <1>1, <1>2, <1>4, <1>5, <1>6, <1>7, BeginSound
<1> HIDE DEF h
<1>12. n \in Nat /\ G[k].sent \in Nat /\ G[k].used \in Nat /\ G[k].used <= G[k].sent /\ G[k].sent = n
  <2>1. n \in Nat /\ G[k].sent \in Nat /\ G[k].used \in Nat
    BY <1>6, LogTypes
  <2> QED BY <1>6, <1>7, <2>1 DEF Sound, Produced, Consumed, Half
<1>13. HeardOf(k, h)'
  <2>1. \A i \in 1 .. G[k].used : h.entry[i] = G[k].entry[i]
    BY <1>10, <1>12
  <2> QED BY <1>2, <1>6, <1>10, <2>1 DEF HeardOf, Ring!Moving
<1> DEFINE H == [G EXCEPT ![k] = h]
<1>14. /\ H \in RingLogs /\ H[k] = h /\ \A t \in Ring!Rings : t # k => H[t] = G[t]
       /\ \A t \in Ring!Rings : Sound(t, H[t])' /\ HeardOf(t, H[t])'
  BY <1>2, <1>5, <1>8, <1>10, <1>11, <1>13, OneRing
<1> HIDE DEF H
<1>15. H["near"] = g
  BY <1>1, <1>5, <1>14
<1>16. Routed(k, g, h, c[k])'
  <2>1. \A j \in 1 .. G[k].sent : h.entry[j] = G[k].entry[j]
    BY <1>10, <1>12
  <2>2. h.begun = h.sent + 1 /\ h.entry[h.begun] = e
    BY <1>10, <1>12
  <2>3. d.busy /\ d.cells # <<>> /\ Len(d.cells) = Ring!Total(g.entry[g.used + 1]) /\ g.entry[g.used + 1].kind = k
    BY <1>2, <1>3, <1>4 DEF k
  <2>4. h.sent = G[k].sent /\ draining' = draining /\ pushed' = pushed
    BY <1>2, <1>10
  <2> HIDE DEF e, g, n
  <2> QED BY <1>6, <2>1, <2>2, <2>3, <2>4 DEF Routed, e
<1>17. ASSUME NEW l \in {"main", "work"}, l # k
       PROVE  Routed(l, g, G[l], c[l])'
  <2>1. Routed(l, g, G[l], c[l])
    BY <1>2 DEF Logged
  <2>2. filling'[l] = filling[l] /\ draining' = draining /\ pushed' = pushed
    BY <1>2, <1>8, <1>17, RingNames
  <2> QED BY <2>1, <2>2 DEF Routed
<1>18. \A l \in {"main", "work"} : Routed(l, H["near"], H[l], c[l])'
  BY <1>14, <1>15, <1>16, <1>17, RingNames
<1>19. Logged(H, c)'
  BY <1>2, <1>14, <1>18 DEF Logged
<1> QED BY <1>9, <1>14, <1>19 DEF RingInv

\* The producer's batch is there for the taking; at its own end, or at the end of its one entry's kind.
LEMMA RingCommits ==
    ASSUME RingAssumed, RingInv, Ring!Commit("near")
    PROVE  RingInv'
<1> PICK G \in RingLogs, c \in KindCounts : Logged(G, c)
  BY DEF RingInv
<1> DEFINE f == filling["near"]
           g == G["near"]
           h == Publishing(g)
<1>1. RingTyped /\ "near" \in Ring!Rings /\ g \in Logs /\ Sound("near", g) /\ HeardOf("near", g)
  BY RingNames DEF RingInv, Logged, RingLogs
<1>2. /\ f.busy /\ f.entry = Ring!NoEntry
      /\ written' = [written EXCEPT !["near"] = f.from] /\ filling' = [filling EXCEPT !["near"] = Ring!Idle]
      /\ pushed' = [pushed EXCEPT ![Ring!End(f.batch[1])] = @ \o f.batch]
      /\ UNCHANGED <<ringPath, cells, unread, draining, tried, heard>>
  BY DEF Ring!Commit
<1>3. f.from \in Nat /\ f.batch \in Seq(Ring!Entry)
  BY <1>1, <1>2, FillingType
<1>4. /\ g.begun = g.done /\ g.sent < g.begun /\ g.sent \in Nat /\ g.begun \in Nat /\ g.used \in Nat /\ g.used <= g.sent
      /\ Len(f.batch) = g.begun - g.sent /\ \A i \in 1 .. g.begun - g.sent : f.batch[i] = g.entry[g.sent + i]
      /\ ringPath # "inbound" => g.begun <= g.sent + 1
  <2>1. g.sent \in Nat /\ g.begun \in Nat /\ g.used \in Nat
    BY <1>1, LogTypes
  <2> QED BY <1>1, <1>2, <2>1 DEF Sound, Produced, Consumed, Half
<1>5. f.batch[1] \in Ring!Entry /\ f.batch[1] = g.entry[g.sent + 1]
  <2>1. 1 \in 1 .. Len(f.batch) /\ 1 \in 1 .. g.begun - g.sent
    BY <1>4
  <2> QED BY <1>3, <1>4, <2>1
<1> DEFINE k == Ring!End(f.batch[1])
<1>6. k \in Ring!Rings /\ (ringPath = "split" => k = f.batch[1].kind /\ k \in {"main", "work"})
      /\ (ringPath # "split" => k = "near")
  BY <1>5, RingNames DEF Ring!End, Ring!Entry
<1> HIDE DEF k
<1>7. /\ pushed'[k] = pushed[k] \o f.batch /\ pushed[k] \in Seq(Ring!Entry) /\ pushed[k] \o f.batch \in Seq(Ring!Entry)
      /\ \A t \in Ring!Rings : t # k => pushed'[t] = pushed[t]
      /\ pushed' \in [Ring!Rings -> Seq(Ring!Entry)]
  <2>1. pushed' = [pushed EXCEPT ![k] = @ \o f.batch]
    BY <1>2 DEF k
  <2>2. pushed[k] \in Seq(Ring!Entry) /\ pushed[k] \o f.batch \in Seq(Ring!Entry)
    BY SMTT(30), <1>1, <1>3, <1>6, ConcatProperties DEF RingTyped
  <2> QED BY <1>1, <1>6, <2>1, <2>2 DEF RingTyped
<1>8. RingTyped'
  BY <1>1, <1>2, <1>3, <1>7 DEF RingTyped
<1>9. /\ h \in Logs /\ h.entry = g.entry /\ h.begun = g.begun /\ h.sent = g.begun /\ h.used = g.used
  BY <1>1, <1>4, CountedLog
<1>10. /\ written'["near"] = f.from /\ filling'["near"] = Ring!Idle
       /\ \A t \in Ring!Rings : t # "near" => written'[t] = written[t] /\ filling'[t] = filling[t]
  BY <1>1, <1>2 DEF RingTyped
<1>11. Sound("near", h)'
  BY <1>1, <1>2, <1>10, CommitSound
<1> HIDE DEF h
<1>12. HeardOf("near", h)'
  BY <1>1, <1>2, <1>9 DEF HeardOf, Ring!Moving
<1> DEFINE H == [G EXCEPT !["near"] = h]
<1>13. /\ H \in RingLogs /\ H["near"] = h /\ \A t \in Ring!Rings : t # "near" => H[t] = G[t]
       /\ \A t \in Ring!Rings : Sound(t, H[t])' /\ HeardOf(t, H[t])'
  BY <1>1, <1>2, <1>9, <1>10, <1>11, <1>12, OneRing
<1> HIDE DEF H
<1>14. ASSUME ringPath = "split", NEW l \in {"main", "work"}
       PROVE  Routed(l, h, G[l], c[l])'
  <2> DEFINE b == c[l]
             s == g.sent
  <2>1. Routed(l, g, G[l], b)
    BY <1>14 DEF Logged
  <2>2. g.begun = s + 1 /\ f.batch = <<g.entry[s + 1]>>
    <3>1. g.begun = s + 1
      BY <1>4, <1>14
    <3>2. Len(f.batch) = 1
      BY <1>4, <3>1
    <3> QED BY <1>3, <1>5, <3>1, <3>2
  <2>3. b \in [Nat -> Nat] /\ s + 1 \in 1 .. g.begun /\ (s + 1) - 1 = s /\ s \in Nat
    BY <1>4, <2>2 DEF KindCounts
  <2>a. s = g.sent
    OBVIOUS
  <2> HIDE DEF b, s
  <2>4. b[s + 1] = b[s] + (IF g.entry[s + 1].kind = l THEN 1 ELSE 0) /\ b[s] \in Nat /\ b[s + 1] \in Nat
    <3>1. b[s] \in Nat /\ b[s + 1] \in Nat
      BY <2>3
    <3>2. \A i \in 1 .. g.begun : b[i] = b[i - 1] + (IF g.entry[i].kind = l THEN 1 ELSE 0)
      BY <2>1 DEF Routed
    <3>3. b[s + 1] = b[(s + 1) - 1] + (IF g.entry[s + 1].kind = l THEN 1 ELSE 0)
      BY <2>3, <3>2
    <3> QED BY <2>3, <3>1, <3>3
  <2>5. /\ Len(pushed'[l]) = b[s + 1]
        /\ \A i \in 1 .. s + 1 : g.entry[i].kind = l => pushed'[l][b[i]] = g.entry[i]
        /\ \A j \in 1 .. G[l].sent : pushed'[l][j] = pushed[l][j]
    <3>1. pushed[l] \in Seq(Ring!Entry) /\ Len(pushed[l]) = b[s]
      BY <1>1, <2>1, <2>a, RingNames DEF RingTyped, Routed
    <3>2. ASSUME NEW i \in 1 .. s, g.entry[i].kind = l
          PROVE  b[i] \in 1 .. b[s] /\ pushed[l][b[i]] = g.entry[i]
      <4>1. i \in 1 .. g.begun /\ i - 1 \in Nat /\ i \in Nat /\ i \in 0 .. g.begun /\ s \in 0 .. g.begun /\ i <= s
        BY <2>2, <2>3
      <4>2. b[i] = b[i - 1] + 1 /\ b[i] <= b[s]
        BY <2>1, <3>2, <4>1 DEF Routed
      <4>3. b[i] \in Nat /\ b[i - 1] \in Nat
        BY <2>3, <4>1
      <4>4. pushed[l][b[i]] = g.entry[i]
        BY <2>1, <2>a, <3>2 DEF Routed
      <4> QED BY <2>4, <4>2, <4>3, <4>4
    <3>3. \A j \in 1 .. G[l].sent : j \in 1 .. b[s]
      <4>1. G[l].sent = b[g.used]
        BY <2>1 DEF Routed
      <4>2. b[g.used] <= b[s] /\ b[g.used] \in Nat
        <5>1. g.used \in 0 .. g.begun /\ s \in 0 .. g.begun /\ g.used <= s /\ g.used \in Nat
          <6>1. g.used \in Nat /\ g.used <= s /\ s \in Nat /\ g.begun = s + 1
            BY <1>4, <2>2, <2>3, <2>a
          <6> HIDE DEF g
          <6> QED BY <6>1
        <5> QED BY <2>1, <2>3, <5>1 DEF Routed
      <4> QED BY <2>4, <4>1, <4>2
    <3>4. CASE l = k
      <4>1. pushed'[l] = Append(pushed[l], g.entry[s + 1])
        <5>1. pushed'[l] = pushed[l] \o <<g.entry[s + 1]>>
          BY <1>7, <2>2, <3>4
        <5> QED BY <3>1, <5>1
      <4>2. g.entry[s + 1].kind = l
        BY <1>5, <1>6, <1>14, <2>a, <3>4
      <4>3. g.entry[s + 1] \in Ring!Entry
        BY <1>5, <2>a
      <4>4. /\ Len(pushed'[l]) = b[s] + 1 /\ pushed'[l][b[s] + 1] = g.entry[s + 1]
            /\ \A j \in 1 .. b[s] : pushed'[l][j] = pushed[l][j]
        BY <3>1, <4>1, <4>3, AppendProperties
      <4>5. b[s + 1] = b[s] + 1
        BY <2>4, <4>2
      <4>6. \A i \in 1 .. s + 1 : i \in 1 .. s \/ i = s + 1
        BY <2>3
      <4> QED BY <3>2, <3>3, <4>4, <4>5, <4>6
    <3>5. CASE l # k
      <4>1. pushed'[l] = pushed[l]
        BY <1>7, <3>5, RingNames
      <4>2. g.entry[s + 1].kind # l
        BY <1>5, <1>6, <1>14, <2>a, <3>5
      <4>3. b[s + 1] = b[s]
        BY <2>4, <4>2
      <4>4. \A i \in 1 .. s + 1 : i \in 1 .. s \/ i = s + 1
        BY <2>3
      <4> QED BY <3>1, <3>2, <4>1, <4>2, <4>3, <4>4
    <3> QED BY <3>4, <3>5
  <2>6. filling'[l] = filling[l] /\ draining' = draining
    BY <1>2, <1>10, RingNames
  <2> HIDE DEF g
  <2>7. /\ \A j \in 1 .. G[l].sent : G[l].entry[j] = pushed'[l][j]
        /\ h.sent = s + 1
    BY <1>9, <2>1, <2>2, <2>5 DEF Routed
  <2> QED BY <1>9, <2>1, <2>2, <2>5, <2>6, <2>7 DEF Routed, b
<1>15. ASSUME ringPath # "split"
       PROVE  Direct(h)'
  <2>1. Direct(g)
    BY <1>15 DEF Logged
  <2>2. pushed["near"] \in Seq(Ring!Entry) /\ Len(pushed["near"]) = g.sent
    BY <1>1, <2>1 DEF RingTyped, Direct
  <2>3. pushed'["near"] = pushed["near"] \o f.batch
    BY <1>6, <1>7, <1>15
  <2> DEFINE old == pushed["near"]
  <2>a. /\ old \in Seq(Ring!Entry) /\ Len(old) = g.sent /\ Len(f.batch) = g.begun - g.sent
        /\ g.sent \in Nat /\ g.begun \in Nat
    BY <1>4, <2>2
  <2>b. /\ Len(old \o f.batch) = Len(old) + Len(f.batch)
        /\ \A i \in 1 .. Len(old) + Len(f.batch) : (old \o f.batch)[i] = IF i <= Len(old) THEN old[i]
                                                                       ELSE f.batch[i - Len(old)]
    BY <1>3, <2>a, ConcatProperties
  <2>4. Len(pushed'["near"]) = g.begun
    <3>1. Len(pushed'["near"]) = Len(old) + Len(f.batch)
      BY <2>3, <2>b
    <3> HIDE DEF g, f, old
    <3> QED BY <2>a, <3>1
  <2>5. \A i \in 1 .. g.begun : pushed'["near"][i] = g.entry[i]
    <3> SUFFICES ASSUME NEW i \in 1 .. g.begun PROVE pushed'["near"][i] = g.entry[i]
      OBVIOUS
    <3>a. i \in 1 .. Len(old) + Len(f.batch) /\ i \in Nat
      <4> HIDE DEF g, f, old
      <4> QED BY <2>a
    <3>b. pushed'["near"][i] = IF i <= Len(old) THEN old[i] ELSE f.batch[i - Len(old)]
      BY <2>3, <2>b, <3>a
    <3>1. CASE i <= g.sent
      <4>1. i \in 1 .. g.sent /\ i <= Len(old)
        BY <2>a, <3>1
      <4> QED BY <2>1, <3>b, <4>1 DEF Direct
    <3>2. CASE ~(i <= g.sent)
      <4>1. i - g.sent \in 1 .. g.begun - g.sent /\ g.sent + (i - g.sent) = i /\ ~(i <= Len(old))
        <5> HIDE DEF g, f, old
        <5> QED BY <2>a, <3>2
      <4>2. pushed'["near"][i] = f.batch[i - g.sent]
        BY <2>a, <3>b, <4>1
      <4>3. f.batch[i - g.sent] = g.entry[g.sent + (i - g.sent)]
        BY <1>4, <4>1
      <4> QED BY <4>1, <4>2, <4>3
    <3> QED BY <3>1, <3>2
  <2>6. filling'["main"] = filling["main"] /\ filling'["work"] = filling["work"]
    BY <1>10, RingNames
  <2> QED BY <1>9, <2>1, <2>4, <2>5, <2>6 DEF Direct
<1>16. Logged(H, c)'
  BY <1>2, <1>13, <1>14, <1>15, RingNames DEF Logged
<1> QED BY <1>8, <1>13, <1>16 DEF RingInv

\* The pump's push is committed: its source is past that entry.
LEMMA RingHandsOver ==
    ASSUME RingAssumed, RingInv, NEW k \in {"main", "work"}, Ring!Commit(k)
    PROVE  RingInv'
<1> PICK G \in RingLogs, c \in KindCounts : Logged(G, c)
  BY DEF RingInv
<1> DEFINE f == filling[k]
           g == G["near"]
           d == draining["near"]
           u == g.used
           h == Publishing(G[k])
           w == Using(g)
<1>1. /\ RingTyped /\ "near" \in Ring!Rings /\ k \in Ring!Rings /\ k # "near" /\ g \in Logs /\ G[k] \in Logs
      /\ Sound("near", g) /\ Sound(k, G[k]) /\ HeardOf(k, G[k])
  BY RingNames DEF RingInv, Logged, RingLogs
<1>2. /\ f.busy /\ f.entry = Ring!NoEntry
      /\ written' = [written EXCEPT ![k] = f.from] /\ filling' = [filling EXCEPT ![k] = Ring!Idle]
      /\ draining' = [draining EXCEPT !["near"] = [d EXCEPT !.at = @ + Ring!Total(f.batch[1]), !.cells = <<>>]]
      /\ pushed' = pushed /\ UNCHANGED <<ringPath, cells, unread, tried, heard>>
  BY <1>1 DEF Ring!Commit
<1>3. ringPath = "split"
  BY <1>2 DEF Logged, Direct
<1>4. Routed(k, g, G[k], c[k])
  BY <1>3 DEF Logged
<1>5. /\ d.busy /\ d.cells # <<>> /\ Len(d.cells) = Ring!Total(g.entry[u + 1]) /\ g.entry[u + 1].kind = k
      /\ G[k].begun = G[k].sent + 1 /\ G[k].entry[G[k].begun] = g.entry[u + 1]
  BY <1>2, <1>4 DEF Routed
<1>6. /\ u \in Nat /\ g.sent \in Nat /\ g.begun \in Nat /\ u + 1 \in 1 .. g.sent /\ u + 1 \in 1 .. g.begun
      /\ g.entry[u + 1] \in Ring!Entry
  <2>1. u \in Nat /\ g.sent \in Nat /\ g.begun \in Nat /\ g.done \in Nat
    BY <1>1, LogTypes
  <2>2. u + 1 \in 1 .. g.sent /\ g.entry[u + 1] \in Ring!Entry
    BY <1>1, <1>5, InHand
  <2>3. g.sent <= g.done /\ g.done <= g.begun
    BY <1>1, <2>1 DEF Sound, Produced
  <2> HIDE DEF g
  <2> QED BY <2>1, <2>2, <2>3
<1>7. /\ G[k].sent \in Nat /\ G[k].done = G[k].begun /\ f.batch[1] = g.entry[u + 1] /\ f.from \in Nat
  <2>1. G[k].sent \in Nat /\ G[k].done \in Nat /\ f.from \in Nat
    BY <1>1, <1>2, LogTypes, FillingType
  <2>2. /\ G[k].done = G[k].begun
        /\ \A i \in 1 .. G[k].done - G[k].sent : f.batch[i] = G[k].entry[G[k].sent + i]
    BY <1>1, <1>2 DEF Sound, Produced, Half
  <2>3. 1 \in 1 .. G[k].done - G[k].sent
    BY <1>5, <2>1, <2>2
  <2> QED BY <1>5, <2>1, <2>2, <2>3
<1> DEFINE past == [d EXCEPT !.at = @ + Ring!Total(g.entry[u + 1]), !.cells = <<>>]
<1>8. past \in Drainings
  <2>1. d \in Drainings /\ d.at \in Nat /\ Ring!Total(g.entry[u + 1]) \in Nat
    BY <1>1, <1>5, <1>6, DrainingType, TotalType
  <2>2. d.at + Ring!Total(g.entry[u + 1]) \in Nat /\ <<>> \in Seq(Mark)
    BY <2>1
  <2> QED BY <2>1, <2>2 DEF Drainings
<1>9. draining' = [draining EXCEPT !["near"] = past]
  <2> DEFINE m == Ring!Total(f.batch[1])
             n == Ring!Total(g.entry[u + 1])
  <2>1. m = n
    BY <1>7
  <2>2. draining' = [draining EXCEPT !["near"] = [d EXCEPT !.at = @ + m, !.cells = <<>>]]
    BY <1>2
  <2> HIDE DEF m, n
  <2>3. draining' = [draining EXCEPT !["near"] = [d EXCEPT !.at = @ + n, !.cells = <<>>]]
    BY <2>1, <2>2
  <2> QED BY <2>3 DEF n
<1> HIDE DEF past
<1>10. RingTyped'
  BY <1>1, <1>2, <1>7, <1>8, <1>9 DEF RingTyped
<1>11. /\ written'[k] = f.from /\ filling'[k] = Ring!Idle /\ draining'["near"] = past
       /\ \A t \in Ring!Rings : t # k => written'[t] = written[t] /\ filling'[t] = filling[t]
       /\ \A t \in Ring!Rings : t # "near" => draining'[t] = draining[t]
  BY <1>1, <1>2, <1>9 DEF RingTyped
<1>12. /\ h \in Logs /\ h.entry = G[k].entry /\ h.sent = G[k].begun /\ h.used = G[k].used
       /\ w \in Logs /\ w.entry = g.entry /\ w.begun = g.begun /\ w.sent = g.sent /\ w.used = u + 1
  BY <1>1, <1>7, CountedLog
<1>13. Sound(k, h)'
  BY <1>1, <1>2, <1>11, CommitSound
<1>14. Sound("near", Using(g))'
  <2>1. draining'["near"] = [draining["near"] EXCEPT !.at = @ + Ring!Total(g.entry[g.used + 1]), !.cells = <<>>]
    BY <1>11 DEF past
  <2>2. /\ cells'["near"] = cells["near"] /\ written'["near"] = written["near"] /\ unread'["near"] = unread["near"]
        /\ filling'["near"] = filling["near"] /\ ringPath' = ringPath
        /\ draining["near"].busy /\ draining["near"].cells # <<>>
    BY <1>1, <1>2, <1>5, <1>11
  <2> QED BY <1>1, <2>1, <2>2, UseSound
<1> HIDE DEF h, w
<1>15. Sound("near", w)'
  BY <1>14 DEF w
<1>16. HeardOf(k, h)' /\ HeardOf("near", w)'
  BY <1>1, <1>2, <1>3, <1>12 DEF HeardOf, Ring!Moving
<1> DEFINE H == [t \in Ring!Rings |-> IF t = k THEN h ELSE IF t = "near" THEN w ELSE G[t]]
<1>17. H \in RingLogs
  BY <1>12 DEF RingLogs
<1>18. H[k] = h /\ H["near"] = w /\ \A t \in Ring!Rings : t # k /\ t # "near" => H[t] = G[t]
  BY <1>1
<1> HIDE DEF H
<1>19. \A t \in Ring!Rings : Sound(t, H[t])' /\ HeardOf(t, H[t])'
  <2> SUFFICES ASSUME NEW t \in Ring!Rings, t # k, t # "near" PROVE Sound(t, H[t])' /\ HeardOf(t, H[t])'
    BY <1>13, <1>15, <1>16, <1>18
  <2>1. H[t] = G[t]
    BY <1>18
  <2>2. Sound(t, G[t]) /\ HeardOf(t, G[t])
    BY DEF Logged
  <2>3. Sound(t, G[t])'
    BY <1>2, <1>11, <2>2, SoundKept
  <2>4. HeardOf(t, G[t])'
    BY <1>2, <2>2 DEF HeardOf, Ring!Moving
  <2>5. H[t]' = G[t]
    BY <2>1 DEF H
  <2> QED BY <2>1, <2>3, <2>4
<1>20. \A l \in {"main", "work"} :
          /\ c[l][u] \in Nat /\ c[l][u + 1] = c[l][u] + (IF g.entry[u + 1].kind = l THEN 1 ELSE 0)
  <2> SUFFICES ASSUME NEW l \in {"main", "work"}
               PROVE  c[l][u] \in Nat /\ c[l][u + 1] = c[l][u] + (IF g.entry[u + 1].kind = l THEN 1 ELSE 0)
    OBVIOUS
  <2>1. \A i \in 1 .. g.begun : c[l][i] = c[l][i - 1] + (IF g.entry[i].kind = l THEN 1 ELSE 0)
    BY <1>3 DEF Logged, Routed
  <2>2. (u + 1) - 1 = u
    BY <1>6
  <2> QED BY <1>6, <2>1, <2>2 DEF KindCounts
<1>21. Routed(k, w, h, c[k])'
  <2>1. c[k][u] = G[k].sent /\ c[k][u + 1] = h.sent /\ h.sent = G[k].sent + 1
    BY <1>4, <1>5, <1>7, <1>12, <1>20 DEF Routed
  <2>2. G[k].entry[h.sent] = pushed[k][h.sent]
    BY SMTT(30), <1>4, <1>5, <1>6, <1>12, <2>1 DEF Routed
  <2>3. \A j \in 1 .. h.sent : h.entry[j] = pushed'[k][j]
    <3>1. \A j \in 1 .. h.sent : j \in 1 .. G[k].sent \/ j = h.sent
      BY <1>7, <2>1
    <3> QED BY <1>2, <1>4, <1>12, <2>2, <3>1 DEF Routed
  <2>4. ~filling'[k].busy
    BY <1>11 DEF Ring!Idle
  <2> HIDE DEF g
  <2> QED BY SMTT(30), <1>2, <1>4, <1>12, <2>1, <2>3, <2>4 DEF Routed
<1>22. ASSUME NEW l \in {"main", "work"}, l # k
       PROVE  Routed(l, w, G[l], c[l])'
  <2>1. Routed(l, g, G[l], c[l])
    BY <1>3 DEF Logged
  <2>2. c[l][u + 1] = c[l][u]
    BY <1>5, <1>20, <1>22
  <2>3. ~filling'[l].busy
    BY <1>5, <1>11, <1>22, <2>1, RingNames DEF Routed
  <2> HIDE DEF g
  <2> QED BY <1>2, <1>12, <2>1, <2>2, <2>3 DEF Routed, g
<1>23. \A l \in {"main", "work"} : Routed(l, H["near"], H[l], c[l])'
  BY <1>18, <1>21, <1>22, RingNames
<1>24. Logged(H, c)'
  BY <1>2, <1>3, <1>19, <1>23 DEF Logged
<1> QED BY <1>10, <1>17, <1>24 DEF RingInv

LEMMA RingInvariance ==
    ASSUME RingAssumed, RingInv, [Ring!Next]_ringVars
    PROVE  RingInv'
<1>1. CASE \E e \in Ring!Entry : Ring!Push(e)
  BY <1>1, RingPushes
<1>2. CASE Ring!Fills
  <2> PICK r \in Ring!Rings : Ring!WriteCell(r) \/ Ring!Commit(r)
    BY <1>2 DEF Ring!Fills
  <2>1. CASE Ring!WriteCell(r)
    BY <2>1, RingWrites
  <2>2. CASE Ring!Commit(r)
    BY <2>2, RingNames, RingCommits, RingHandsOver
  <2> QED BY <2>1, <2>2
<1>3. CASE \E r \in Ring!Rings : Ring!Drains(r)
  BY <1>3, RingReads DEF Ring!Drains
<1>4. CASE Ring!Pumps
  BY <1>4, RingNames, RingMoves, RingReads DEF Ring!Pumps
<1>5. CASE UNCHANGED ringVars
  <2>1. UNCHANGED <<ringPath, cells, written, unread, filling, draining, tried, pushed, heard>>
    BY <1>5 DEF ringVars
  <2> PICK G \in RingLogs, c \in KindCounts : Logged(G, c)
    BY DEF RingInv
  <2>2. RingTyped'
    BY <2>1 DEF RingInv, RingTyped
  <2>3. \A r \in Ring!Rings : Sound(r, G[r])' /\ HeardOf(r, G[r])'
    <3> SUFFICES ASSUME NEW r \in Ring!Rings PROVE Sound(r, G[r])' /\ HeardOf(r, G[r])'
      OBVIOUS
    <3>1. Sound(r, G[r]) /\ HeardOf(r, G[r])
      BY DEF Logged
    <3>2. Sound(r, G[r])'
      BY <2>1, <3>1, SoundKept
    <3>3. HeardOf(r, G[r])'
      BY <2>1, <3>1 DEF HeardOf, Ring!Moving
    <3> QED BY <3>2, <3>3
  <2>4. Logged(G, c)'
    BY <2>1, <2>3 DEF Logged, Routed, Direct
  <2> QED BY <2>2, <2>4 DEF RingInv
<1>6. CASE \E r \in Ring!Rings : Ring!Quiet(r)
  BY <1>5, <1>6 DEF Ring!Quiet, Ring!ringVars, ringVars
<1> QED BY <1>1, <1>2, <1>3, <1>4, <1>5, <1>6 DEF Ring!Next


\* A sequence that another goes on from.
LEMMA GoesOn ==
    ASSUME NEW T, NEW s \in Seq(T), NEW t \in Seq(T), Len(s) <= Len(t), \A i \in 1 .. Len(s) : s[i] = t[i]
    PROVE  Ring!IsPrefix(s, t)
<1> DEFINE p == SubSeq(s, 1, Len(s))
           q == SubSeq(t, 1, Len(s))
<1>1. Len(s) \in Nat /\ Len(t) \in Nat
  OBVIOUS
<1>2. p \in Seq(T) /\ q \in Seq(T) /\ Len(p) = Len(s) /\ Len(q) = Len(s)
  BY <1>1
<1>3. \A i \in 1 .. Len(s) : p[i] = s[i] /\ q[i] = t[i]
  BY <1>1
<1> HIDE DEF p, q
<1>4. p = q
  BY <1>1, <1>2, <1>3, SeqEqual
<1> QED BY <1>4 DEF Ring!IsPrefix, p, q

\* Where a sound ring's positions lie.
LEMMA Positions ==
    ASSUME RingAssumed, RingTyped, NEW r \in Ring!Rings, NEW g \in Logs, Sound(r, g)
    PROVE  /\ unread[r] <= written[r] /\ written[r] - unread[r] <= Capacity
           /\ draining[r].busy => draining[r].at \in unread[r] .. written[r]
<1>1. /\ g.begun \in Nat /\ g.done \in Nat /\ g.sent \in Nat /\ g.used \in Nat
      /\ g.end[g.begun] \in Nat /\ g.end[g.sent] \in Nat /\ g.end[g.used] \in Nat
  BY LogTypes
<1>2. g.used <= g.sent /\ g.sent <= g.done /\ g.done <= g.begun
  <2>1. g.used <= g.sent /\ g.sent <= g.done
    BY DEF Sound, Produced, Consumed
  <2>2. g.done <= g.begun
    BY <1>1 DEF Sound, Produced
  <2> QED BY <2>1, <2>2
<1>3. g.used \in 0 .. g.begun /\ g.sent \in 0 .. g.begun /\ g.begun \in 0 .. g.begun /\ g.sent <= g.begun
  BY <1>1, <1>2
<1>4. g.end[g.used] <= g.end[g.sent] /\ g.end[g.sent] <= g.end[g.begun]
  BY <1>2, <1>3, InOrder DEF Sound
<1>5. /\ unread[r] <= g.end[g.used] /\ written[r] = g.end[g.sent]
      /\ Loaded(r) <= unread[r] /\ g.end[g.begun] <= Loaded(r) + Capacity
  BY DEF Sound, Produced, Consumed
<1>6. Loaded(r) \in Nat /\ unread[r] \in Nat /\ Capacity \in Nat
  BY LoadedType DEF RingAssumed
<1>7. draining[r].busy => draining[r].at = g.end[g.used]
  BY DEF Sound, Consumed
<1> QED BY <1>1, <1>4, <1>5, <1>6, <1>7

LEMMA RingsHold ==
    ASSUME RingAssumed, RingInv
    PROVE  Ring!TypeOK /\ Ring!WholeInOrder
<1> PICK G \in RingLogs, c \in KindCounts : Logged(G, c)
  BY DEF RingInv
<1> DEFINE g == G["near"]
<1>1. RingTyped /\ g \in Logs /\ \A r \in Ring!Rings : G[r] \in Logs /\ Sound(r, G[r]) /\ HeardOf(r, G[r])
  BY RingNames DEF RingInv, Logged, RingLogs
<1>2. Ring!TypeOK
  <2>1. \A r \in Ring!Rings : unread[r] <= written[r] /\ written[r] - unread[r] <= Capacity
    BY <1>1, Positions
  <2>2. \A r \in Ring!Rings : draining[r].busy => draining[r].at \in unread[r] .. written[r]
    BY <1>1, Positions
  <2>3. tried \in 0 .. MaxEntries
    BY <1>1 DEF RingTyped
  <2>4. \A r \in Ring!Rings : \A i \in 1 .. Len(pushed[r]) : pushed[r][i] \in Ring!Entry
    <3> SUFFICES ASSUME NEW r \in Ring!Rings PROVE \A i \in 1 .. Len(pushed[r]) : pushed[r][i] \in Ring!Entry
      OBVIOUS
    <3>1. pushed[r] \in Seq(Ring!Entry)
      BY <1>1 DEF RingTyped
    <3> QED BY <3>1
  <2> QED BY <2>1, <2>2, <2>3, <2>4 DEF Ring!TypeOK
<1>3. ASSUME NEW r \in Ring!Ends
      PROVE  Ring!IsPrefix(heard[r], pushed[r])
  <2>1. /\ r \in Ring!Rings /\ ~Ring!Moving(r)
        /\ (ringPath = "split" => r \in {"main", "work"}) /\ (ringPath # "split" => r = "near")
    BY <1>3, RingNames DEF Ring!Ends, Ring!Moving
  <2>2. /\ heard[r] \in Seq(Ring!Entry) /\ pushed[r] \in Seq(Ring!Entry)
        /\ Len(heard[r]) = G[r].used /\ \A i \in 1 .. G[r].used : heard[r][i] = G[r].entry[i]
    BY <1>1, <2>1 DEF RingTyped, HeardOf
  <2>3. /\ G[r].used \in Nat /\ G[r].sent \in Nat /\ G[r].used <= G[r].sent /\ G[r].sent <= G[r].done
        /\ G[r].done \in Nat /\ G[r].begun \in Nat /\ G[r].done <= G[r].begun
    <3>1. G[r].used \in Nat /\ G[r].sent \in Nat /\ G[r].done \in Nat /\ G[r].begun \in Nat /\ Sound(r, G[r])
      BY <1>1, <2>1, LogTypes
    <3> QED BY <3>1 DEF Sound, Produced, Consumed
  <2>4. G[r].sent <= Len(pushed[r]) /\ \A i \in 1 .. G[r].sent : pushed[r][i] = G[r].entry[i]
    <3>1. CASE ringPath = "split"
      <4>1. Routed(r, g, G[r], c[r])
        BY <2>1, <3>1 DEF Logged
      <4>2. g.used \in Nat /\ g.sent \in Nat /\ g.begun \in Nat /\ g.used <= g.sent /\ g.sent <= g.begun
        <5>1. g.used \in Nat /\ g.sent \in Nat /\ g.done \in Nat /\ g.begun \in Nat /\ Sound("near", g)
          BY <1>1, RingNames, LogTypes
        <5>2. g.used <= g.sent /\ g.sent <= g.done /\ g.done <= g.begun
          BY <5>1 DEF Sound, Produced, Consumed
        <5> HIDE DEF g
        <5> QED BY <5>1, <5>2
      <4>3. g.used \in 0 .. g.begun /\ g.sent \in 0 .. g.begun
        <5> HIDE DEF g
        <5> QED BY <4>2
      <4>4. c[r][g.used] <= c[r][g.sent]
        BY <4>1, <4>2, <4>3 DEF Routed
      <4> QED BY <4>1, <4>4 DEF Routed
    <3>2. CASE ringPath # "split"
      <4>1. r = "near" /\ Direct(g)
        BY <2>1, <3>2 DEF Logged
      <4> QED BY <2>3, <4>1 DEF Direct
    <3> QED BY <3>1, <3>2
  <2>5. Len(heard[r]) <= Len(pushed[r]) /\ \A i \in 1 .. Len(heard[r]) : heard[r][i] = pushed[r][i]
    <3>1. Len(pushed[r]) \in Nat
      BY <2>2
    <3>2. G[r].used <= Len(pushed[r]) /\ \A i \in 1 .. G[r].used : i \in 1 .. G[r].sent
      BY <2>3, <2>4, <3>1
    <3> QED BY <2>2, <2>4, <3>2
  <2> QED BY <2>2, <2>5, GoesOn
<1> QED BY <1>2, <1>3 DEF Ring!WholeInOrder


-----------------------------------------------------------------------------
(* Proofs.  The sum: a step of it is a step of one, and the others rest.      *)

\* The bounds are numbers, a ring has room for a cell, and a meter's absent post is none.
ASSUME ProcessorSum == /\ MaxFrames \in Nat /\ MaxPublishes \in Nat /\ MaxMessages \in Nat
                       /\ MeterAssumption /\ RingAssumed /\ StoreAssumed

LEMMA OneAtATime ==
    ASSUME [MCNext]_mcvars
    PROVE  /\ [PNext]_pvars /\ [Meter!Next]_meterVars /\ [Frame!Next]_blockVars
           /\ [Ring!Next]_ringVars /\ [Stored!Next]_storeVars
BY DEF MCNext, mcvars, wireVars

SumInv == MeterInv /\ BlockInv /\ RingInv /\ StoreInv

LEMMA SumInvariance == MCSpec => []SumInv
<1>1. MCInit => SumInv
  BY ProcessorSum, MeterInvariance, BlockInvariance, RingStart, StoreInvariance DEF MCInit, SumInv
<1>2. SumInv /\ [MCNext]_mcvars => SumInv'
  <2> SUFFICES ASSUME SumInv, [MCNext]_mcvars PROVE SumInv'
    OBVIOUS
  <2>1. [Meter!Next]_meterVars /\ [Frame!Next]_blockVars /\ [Ring!Next]_ringVars /\ [Stored!Next]_storeVars
    BY OneAtATime
  <2>2. MeterInv' /\ BlockInv'
    BY <2>1, ProcessorSum, MeterInvariance, BlockInvariance DEF SumInv
  <2>3. RingInv'
    BY <2>1, ProcessorSum, RingInvariance DEF SumInv
  <2>4. StoreInv'
    BY <2>1, ProcessorSum, StoreInvariance DEF SumInv
  <2> QED BY <2>2, <2>3, <2>4 DEF SumInv
<1> QED BY <1>1, <1>2, PTL DEF MCSpec

LEMMA SumIsSide == MCSpec => PSpec
<1>1. MCInit => PInit
  BY DEF MCInit
<1>2. [MCNext]_mcvars => [PNext]_pvars
  BY OneAtATime
<1> QED BY <1>1, <1>2, PTL DEF MCSpec, PSpec

\* However the five proceed: what a slot, a message, a cell or a word of a store holds is of its type, no index runs past
\* what it counts, and a ring's positions stay within its size of each other.
THEOREM EachIsTyped == MCSpec => []ProcessorTyped
<1>1. SumInv => Meter!TypeOK /\ Frame!TypeOK /\ Ring!TypeOK /\ Stored!TypeOK
  BY ProcessorSum, MetersHold, BlocksHold, RingsHold, StoresHold DEF SumInv
<1> QED BY <1>1, SumInvariance, SumIsSide, SideTypeCorrect, PTL DEF ProcessorTyped

\* Whatever is coalesced, held back or refused on its way from a block to the editor: a snapshot's tag counts the change
\* it carries, a peak not yet drawn is somewhere on its way at its height, a trigger and a frame are news once at most,
\* and what a ring's consumer is called with is what was pushed for it, whole and in order.
THEOREM WhatWasIsCarried == MCSpec => []CarriesWhatWas
<1>1. SumInv => Meter!PeaksKept /\ Meter!TriggersOnce /\ Frame!NewsOnce /\ Ring!WholeInOrder
  BY ProcessorSum, MetersHold, BlocksHold, RingsHold DEF SumInv
<1> QED BY <1>1, SumInvariance, SumIsSide, PumpCarriesItsChange, PTL DEF CarriesWhatWas

\* By whichever of its three ways a block's frame comes, one posted, messaged or stored earlier never follows it.
THEOREM NeverOlderShown == MCSpec => [][Frame!NeverOlder]_mcvars
<1>1. SumInv /\ [MCNext]_mcvars => [Frame!NeverOlder]_mcvars
  <2> SUFFICES ASSUME SumInv, [MCNext]_mcvars PROVE Frame!NeverOlder
    OBVIOUS
  <2>1. [Frame!Next]_blockVars
    BY OneAtATime
  <2>2. frame' >= frame
    BY <2>1, ProcessorSum, BlockInvariance DEF SumInv
  <2> QED BY <2>2 DEF Frame!NeverOlder
<1> QED BY <1>1, SumInvariance, PTL DEF MCSpec

\* A store's reader sees a register: each frame it passes on is one that was, whole, the latest while it was copied.
THEOREM StoresRefine == MCSpec => Stored!Refines
<1>1. MCInit => Stored!NearLatest!LVInit /\ Stored!FarLatest!LVInit
  BY ProcessorSum, StoresStart DEF MCInit
<1>2. SumInv /\ SumInv' /\ [MCNext]_mcvars => /\ [Stored!NearLatest!LVNext]_(Stored!NearLatest!lvvars)
                                              /\ [Stored!FarLatest!LVNext]_(Stored!FarLatest!lvvars)
  <2> SUFFICES ASSUME SumInv, SumInv', [MCNext]_mcvars
               PROVE  /\ [Stored!NearLatest!LVNext]_(Stored!NearLatest!lvvars)
                      /\ [Stored!FarLatest!LVNext]_(Stored!FarLatest!lvvars)
    OBVIOUS
  <2>1. [Stored!Next]_storeVars
    BY OneAtATime
  <2> QED BY <2>1, ProcessorSum, StoreSteps DEF SumInv
<1> QED BY <1>1, <1>2, SumInvariance, PTL DEF MCSpec, Stored!Refines, Stored!NearLatest!LVSpec, Stored!FarLatest!LVSpec


=============================================================================
