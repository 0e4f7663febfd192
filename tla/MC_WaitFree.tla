---------------------------- MODULE MC_WaitFree ----------------------------
(* The cells and rings a thread that must not wait shares with others: both  *)
(* directions of Data_port, Change_set, and Lock_free_queue in its four      *)
(* kinds.  They share nothing, so a behaviour is about one of them.          *)
EXTENDS DataPort, TLC, TLAPS

CONSTANTS v0, v1, v2,
          a, b, Addresses, None, Batches,                          \* ChangeSet
          w1, w2, r1, r2, Writers, Readers, Away, Slots, MaxPushes, Kinds  \* LockFreeQueue

VARIABLES subject,   \* what this behaviour is about
          audioIndex, audioBusy, audioStorage, audioWriting, audioValue, audioCurr,
          audioSlot, audioReading, audioOut,
          read, pending, merging, buffers, pushing, batch, state, consuming, loaded, left, heard,
          kind, pos, ring, registry, temp, late, unseen, overtaken, pc, at, least, toScan, passed

Audio == INSTANCE DataPortAudio WITH
    index <- audioIndex, busy <- audioBusy, storage <- audioStorage, writing <- audioWriting,
    value <- audioValue, curr <- audioCurr, slot <- audioSlot, reading <- audioReading, out <- audioOut

Changes == INSTANCE ChangeSet WITH Values <- {v1, v2}

Queues == INSTANCE LockFreeQueueProofs WITH Values <- {v1, v2}, storage <- ring, value <- passed

ASSUME WaitFreeAssumption == Changes!ChangeSetConstants /\ Queues!QueueAssumption

\* One address, the other one, and both at once.
MCBatches == {(a :> v1 @@ b :> None), (a :> None @@ b :> v2), (a :> v2 @@ b :> v1)}

\* A lone writer pushes either value; of two, each pushes its own.
Either == [w \in Writers |-> {v1, v2}]
Own == [w \in Writers |-> IF w = w1 THEN {v1} ELSE {v2}]

Queue(many, threads, pushes) ==
    [many |-> many, threads |-> threads, pushes |-> pushes, capacity |-> 2, slow |-> {}]

Spsc == Queue({}, {w1, r1}, Either)
\* w1's store of `temp` may be seen late; the sides of many treat theirs alike.
Mpsc == [Queue({"push"}, {w1, w2, r1}, Own) EXCEPT !.slow = {w1}]

\* A registry with room for one thread refuses the other for good.
FullMpsc == [Mpsc EXCEPT !.capacity = 1]

AllKinds ==
    {Spsc, Mpsc, FullMpsc,
     Queue({"pop"}, {w1, r1, r2}, Own),
     Queue({"push", "pop"}, {w1, r1, r2}, Own)}

audio == <<audioIndex, audioBusy, audioStorage, audioWriting, audioValue, audioCurr,
           audioSlot, audioReading, audioOut>>
changes == <<read, pending, merging, buffers, pushing, batch, state, consuming, loaded, left, heard>>
queues == <<kind, pos, ring, registry, temp, late, unseen, overtaken, pc, at, least, toScan, passed>>

MCInit == /\ Init /\ Audio!Init /\ Changes!Init /\ Queues!Init
          /\ subject \in {"main", "audio", "changes", "queues"}
          /\ subject = "queues" \/ kind = CHOOSE k \in Kinds : TRUE

MCNext == \/ subject = "main" /\ Next /\ UNCHANGED <<audio, changes, queues, subject>>
          \/ subject = "audio" /\ Audio!Next /\ UNCHANGED <<vars, changes, queues, subject>>
          \/ subject = "changes" /\ Changes!Next /\ UNCHANGED <<vars, audio, queues, subject>>
          \/ subject = "queues" /\ Queues!Next /\ UNCHANGED <<vars, audio, changes, subject>>

allVars == <<vars, audio, changes, queues, subject>>

\* Each component's own fairness.
MCSpec == /\ MCInit /\ [][MCNext]_allVars
          /\ WF_vars(subject = "main" /\ (WriteTear \/ WriteCopied \/ WriteEnd))
          /\ WF_vars(subject = "main" /\ Reader)
          /\ WF_changes(subject = "changes" /\ Changes!Consuming)
          /\ \A t \in Writers \cup Readers :
                /\ WF_queues(subject = "queues" /\ t \in kind.threads /\ Queues!Runs(t))
                /\ SF_queues(subject = "queues" /\ t \in kind.threads /\ Queues!Claim(t))

\* The type invariants of the four.
AllTyped == TypeOK /\ Audio!TypeOK /\ Changes!TypeOK /\ Queues!TypeOK

\* No buffer of a Change_set is written while the audio thread walks it, and nobody gets into a
\* slot of a queue that a thread is not done with, save a thread whose claim was seen before its scope.
Exclusive == Changes!BuffersApart /\ Queues!SlotsExclusive

\* Data_port<T, Audio> is a latest-value register too: what the audio thread reads is a value that was
\* written, the newest or the one it read before.  A Change_set delivers the newest value of each address,
\* and a batch whole.  A queue, whatever its kind, hands over each value once, in the order pushed, until a
\* claim is seen before its scope.
OthersRefine == Audio!Refines /\ Changes!Refines /\ Queues!Refines

\* Once the writers fall silent: a port's reader has what was written last, everything a Change_set owes
\* is delivered, and everything in a queue is popped.
NothingOwed == /\ subject = "main" => LastWriteArrives
               /\ subject = "changes" => Changes!NothingOwed
               /\ subject = "queues" => Queues!Drains

-----------------------------------------------------------------------------
(* Proofs.  For every set of values: both directions of Data_port never hand *)
(* out a half-copied T, and both implement the latest-value register.       *)
(* First Port_direction::Main.                                              *)

\* Why no copy is torn: BUSY is set exactly while the writer is inside a write,
\* only the writer's slot is ever half-written, and that only between two bytes
\* of a copy; an exchange under way found a fresh value, which only it consumes.
IInv == /\ TypeOK
        /\ busy <=> writing # "idle"
        /\ storage[Other(index)] # Torn
        /\ writing # "tearing" => storage[index] # Torn
        /\ writing = "store" => storage[index] = value
        /\ writing # "idle" => slot = index
        /\ reading = "exchange" => dirty
        /\ reading = "copy" => curr.index = index
        /\ out # Torn

LEMMA InitInv == Init => IInv
<1> SUFFICES ASSUME Init PROVE IInv
  OBVIOUS
<1> USE DataPortAssumption DEF Init
<1>1. curr \in Word
  BY DEF Word, Loaded
<1>2. TypeOK
  BY <1>1 DEF TypeOK
<1>3. busy <=> writing # "idle"
  OBVIOUS
<1> QED BY <1>2, <1>3 DEF IInv, Other

\* The inductive invariant is preserved by every step of either thread.
LEMMA NextInv == IInv /\ [Next]_vars => IInv'
<1> SUFFICES ASSUME IInv, [Next]_vars PROVE IInv'
  OBVIOUS
<1> USE DataPortAssumption DEF IInv, TypeOK, Other, Word, Loaded
<1>1. ASSUME NEW v \in Values, WriteBegin(v) PROVE IInv'
  BY <1>1 DEF WriteBegin
<1>2. CASE WriteTear
  BY <1>2 DEF WriteTear
<1>3. CASE WriteCopied
  BY <1>3 DEF WriteCopied
<1>4. CASE WriteEnd
  BY <1>4 DEF WriteEnd
<1>5. CASE ReadLoad
  BY <1>5 DEF ReadLoad
<1>6. CASE ReadExchange
  <2>1. CASE Loaded = [curr EXCEPT !.busy = FALSE]
    <3>1. Loaded.busy = FALSE /\ Loaded.index = curr.index
      BY <2>1
    <3>2. writing = "idle" /\ curr.index = index
      BY <3>1
    <3>3. /\ curr' = Flipped(curr) /\ index' = Other(index) /\ busy' = FALSE /\ dirty' = FALSE
          /\ reading' = "copy" /\ UNCHANGED <<storage, writing, value, slot, out>>
      BY <1>6, <2>1, <3>1 DEF ReadExchange, Flipped
    <3>4. curr' \in Word /\ curr'.index = index' /\ index' \in {0, 1}
      BY <3>2, <3>3 DEF Flipped
    <3>5. index = Other(index')
      BY <3>3
    <3>6. TypeOK'
      BY <3>3, <3>4, Zenon
    <3> QED BY <3>2, <3>3, <3>4, <3>5, <3>6
  <2>2. CASE Loaded # [curr EXCEPT !.busy = FALSE]
    <3>1. /\ curr' = Loaded
          /\ UNCHANGED <<index, busy, dirty, storage, writing, value, slot, reading, out>>
      BY <1>6, <2>2 DEF ReadExchange
    <3>2. Loaded \in Word
      OBVIOUS
    <3>3. TypeOK'
      BY <3>1, <3>2, Zenon
    <3> QED BY <3>1, <3>3, Zenon
  <2> QED BY <2>1, <2>2
<1>7. CASE ReadCopy
  BY <1>7 DEF ReadCopy
<1>8. CASE UNCHANGED vars
  BY <1>8 DEF vars
<1> QED
  BY <1>1, <1>2, <1>3, <1>4, <1>5, <1>6, <1>7, <1>8 DEF Next, Writer, Reader

LEMMA Invariance == Spec => []IInv
BY InitInv, NextInv, PTL DEF Spec

\* TypeOK for every Values.
THEOREM TypeCorrect == Spec => []TypeOK
<1>1. IInv => TypeOK
  BY DEF IInv
<1> QED BY <1>1, Invariance, PTL

\* However the reader's exchange falls against the writer's copy, read() returns a whole T.
THEOREM ReaderNeverTorn == Spec => []NeverTorn
<1>1. IInv => NeverTorn
  BY DEF IInv, NeverTorn
<1> QED BY <1>1, Invariance, PTL

\* Data_port<T, Main> implements the latest-value register.
THEOREM MainRefinesRegister == Spec => Refines
<1>1. Init => Abs!LVInit
  BY DataPortAssumption DEF Init, Abs!LVInit, Other
<1>2. IInv /\ [Next]_vars => [Abs!LVNext]_Abs!lvvars
  <2> SUFFICES ASSUME IInv, [Next]_vars PROVE [Abs!LVNext]_Abs!lvvars
    OBVIOUS
  <2> USE DEF IInv, TypeOK, Other, Abs!LVNext, Abs!Publish, Abs!Take, Abs!Deliver, Abs!lvvars
  <2>1. ASSUME NEW v \in Values, WriteBegin(v) PROVE [Abs!LVNext]_Abs!lvvars
    BY <2>1 DEF WriteBegin
  <2>2. CASE WriteTear
    BY <2>2 DEF WriteTear
  <2>3. CASE WriteCopied
    BY <2>3 DEF WriteCopied
  <2>4. CASE WriteEnd
    <3>1. dirty' = TRUE /\ writing' = "idle" /\ storage[index] = value
      BY <2>4 DEF WriteEnd
    <3>2. UNCHANGED <<index, storage, value, out>>
      BY <2>4 DEF WriteEnd
    <3>3. storage[index] \in Values
      BY <3>1
    <3>4. CASE dirty
      BY <2>4, <3>1, <3>2, <3>4 DEF WriteEnd
    <3>5. CASE ~dirty
      BY <3>1, <3>2, <3>3, <3>5
    <3> QED BY <3>4, <3>5
  <2>5. CASE ReadLoad
    BY <2>5 DEF ReadLoad
  <2>6. CASE ReadExchange
    <3>1. CASE Loaded = [curr EXCEPT !.busy = FALSE]
      <4>1. Loaded.busy = FALSE
        BY <3>1 DEF Word
      <4>2. ~busy /\ writing = "idle"
        BY <4>1 DEF Loaded
      <4>3. dirty' = FALSE /\ index' = Other(index) /\ UNCHANGED <<storage, writing, value, slot, out>>
        BY <2>6, <3>1, <4>1 DEF ReadExchange, Flipped, Loaded
      <4>4. dirty
        BY <2>6 DEF ReadExchange
      <4> QED BY <4>2, <4>3, <4>4
    <3>2. CASE Loaded # [curr EXCEPT !.busy = FALSE]
      BY <2>6, <3>2 DEF ReadExchange
    <3> QED BY <3>1, <3>2
  <2>7. CASE ReadCopy
    BY <2>7 DEF ReadCopy
  <2>8. CASE UNCHANGED vars
    BY <2>8 DEF vars
  <2> QED
    BY <2>1, <2>2, <2>3, <2>4, <2>5, <2>6, <2>7, <2>8 DEF Next, Writer, Reader
<1> QED
  BY <1>1, <1>2, Invariance, PTL DEF Spec, Refines, Abs!LVSpec

-----------------------------------------------------------------------------
(* Proofs.  Port_direction::Audio. *)

\* The writer fills the slot the reader is not in: until its exchange lands
\* `index` is the one it loaded, and that slot holds a whole value.
AudioInv == /\ Audio!TypeOK
            /\ audioBusy <=> audioReading # "idle"
            /\ audioWriting # "idle" => audioCurr.index = audioIndex
            /\ audioWriting = "exchange" => audioStorage[Audio!Other(audioIndex)] = audioValue
            /\ audioReading # "idle" => audioSlot = audioIndex
            /\ audioStorage[audioIndex] # Torn
            /\ audioOut # Torn

LEMMA AudioInitInv == Audio!Init => AudioInv
<1> SUFFICES ASSUME Audio!Init PROVE AudioInv
  OBVIOUS
<1> USE DataPortAssumption DEF Audio!Init
<1>1. audioCurr \in Audio!Word
  BY DEF Audio!Word, Audio!Loaded
<1>2. Audio!TypeOK
  BY <1>1 DEF Audio!TypeOK
<1> QED BY <1>2 DEF AudioInv

\* The inductive invariant of the audio direction is preserved by every step.
LEMMA AudioNextInv == AudioInv /\ [Audio!Next]_Audio!vars => AudioInv'
<1> SUFFICES ASSUME AudioInv, [Audio!Next]_Audio!vars PROVE AudioInv'
  OBVIOUS
<1> USE DataPortAssumption DEF AudioInv, Audio!TypeOK, Audio!Other
<1>1. CASE Audio!ReadBegin
  BY <1>1 DEF Audio!ReadBegin
<1>2. CASE Audio!ReadCopy
  BY <1>2 DEF Audio!ReadCopy
<1>3. CASE Audio!ReadEnd
  BY <1>3 DEF Audio!ReadEnd
<1>4. ASSUME NEW v \in Values, Audio!WriteLoad(v) PROVE AudioInv'
  BY <1>4 DEF Audio!WriteLoad, Audio!Loaded, Audio!Word
<1>5. CASE Audio!WriteTear
  BY <1>5 DEF Audio!WriteTear, Audio!Word
<1>6. CASE Audio!WriteCopied
  BY <1>6 DEF Audio!WriteCopied, Audio!Word
<1>7. CASE Audio!WriteExchange
  <2>1. Audio!Loaded \in Audio!Word
    BY DEF Audio!Loaded, Audio!Word
  <2>2. UNCHANGED <<audioStorage, audioValue, audioSlot, audioReading, audioOut>>
    BY <1>7 DEF Audio!WriteExchange
  <2>3. CASE Audio!Loaded = [audioCurr EXCEPT !.busy = FALSE]
    <3>1. audioIndex' = Audio!Other(audioIndex) /\ audioBusy' = FALSE /\ audioWriting' = "idle" /\ UNCHANGED audioCurr
      BY <1>7, <2>3 DEF Audio!WriteExchange
    <3>2. Audio!Loaded.busy = FALSE
      BY <2>3 DEF Audio!Word
    <3>3. audioReading = "idle"
      BY <3>2 DEF Audio!Loaded
    <3>4. audioIndex' \in {0, 1} /\ audioStorage[Audio!Other(audioIndex)] \in Values
      BY <1>7, <3>1 DEF Audio!WriteExchange
    <3>5. Audio!TypeOK'
      BY <2>2, <3>1, <3>4, Zenon
    <3> QED BY <2>2, <3>1, <3>3, <3>4, <3>5
  <2>4. CASE Audio!Loaded # [audioCurr EXCEPT !.busy = FALSE]
    <3>1. audioCurr' = Audio!Loaded /\ UNCHANGED <<audioIndex, audioBusy, audioWriting>>
      BY <1>7, <2>4 DEF Audio!WriteExchange
    <3>2. audioCurr'.index = audioIndex
      BY <3>1 DEF Audio!Loaded
    <3>3. Audio!TypeOK'
      BY <2>1, <2>2, <3>1, Zenon
    <3> QED BY <2>2, <3>1, <3>2, <3>3, Zenon
  <2> QED BY <2>3, <2>4
<1>8. CASE UNCHANGED Audio!vars
  BY <1>8 DEF Audio!vars
<1> QED
  BY <1>1, <1>2, <1>3, <1>4, <1>5, <1>6, <1>7, <1>8
  DEF Audio!Next, Audio!Writer, Audio!Reader

LEMMA AudioInvariance == Audio!Spec => []AudioInv
BY AudioInitInv, AudioNextInv, PTL DEF Audio!Spec

\* The wait-free reader on the audio thread never gets a half-copied T.
THEOREM AudioNeverTorn == Audio!Spec => []Audio!NeverTorn
<1>1. AudioInv => Audio!NeverTorn
  BY DEF AudioInv, Audio!NeverTorn
<1> QED BY <1>1, AudioInvariance, PTL

\* Data_port<T, Audio> implements the latest-value register.
THEOREM AudioRefinesRegister == Audio!Spec => Audio!Refines
<1>1. Audio!Init => Audio!Abs!LVInit
  BY DataPortAssumption DEF Audio!Init, Audio!Abs!LVInit
<1>2. AudioInv /\ [Audio!Next]_Audio!vars => [Audio!Abs!LVNext]_Audio!Abs!lvvars
  <2> SUFFICES ASSUME AudioInv, [Audio!Next]_Audio!vars
               PROVE  [Audio!Abs!LVNext]_Audio!Abs!lvvars
    OBVIOUS
  <2> USE DEF AudioInv, Audio!TypeOK, Audio!Other, Audio!Abs!LVNext,
              Audio!Abs!Publish, Audio!Abs!Take, Audio!Abs!Deliver, Audio!Abs!lvvars
  <2>1. CASE Audio!ReadBegin
    BY <2>1 DEF Audio!ReadBegin
  <2>2. CASE Audio!ReadCopy
    BY <2>2 DEF Audio!ReadCopy
  <2>3. CASE Audio!ReadEnd
    BY <2>3 DEF Audio!ReadEnd
  <2>4. ASSUME NEW v \in Values, Audio!WriteLoad(v)
        PROVE  [Audio!Abs!LVNext]_Audio!Abs!lvvars
    BY <2>4 DEF Audio!WriteLoad
  <2>5. CASE Audio!WriteTear
    BY <2>5 DEF Audio!WriteTear, Audio!Word
  <2>6. CASE Audio!WriteCopied
    BY <2>6 DEF Audio!WriteCopied, Audio!Word
  <2>7. CASE Audio!WriteExchange
    <3>1. CASE Audio!Loaded = [audioCurr EXCEPT !.busy = FALSE]
      <4>1. Audio!Loaded.busy = FALSE
        BY <3>1 DEF Audio!Word
      <4>2. audioReading = "idle"
        BY <4>1 DEF Audio!Loaded
      <4>3. audioIndex' = Audio!Other(audioIndex) /\ UNCHANGED <<audioStorage, audioValue, audioSlot, audioReading, audioOut>>
        BY <2>7, <3>1 DEF Audio!WriteExchange
      <4>4. audioStorage[Audio!Other(audioIndex)] \in Values
        BY <2>7 DEF Audio!WriteExchange
      <4> QED BY <4>2, <4>3, <4>4
    <3>2. CASE Audio!Loaded # [audioCurr EXCEPT !.busy = FALSE]
      BY <2>7, <3>2 DEF Audio!WriteExchange
    <3> QED BY <3>1, <3>2
  <2>8. CASE UNCHANGED Audio!vars
    BY <2>8 DEF Audio!vars
  <2> QED
    BY <2>1, <2>2, <2>3, <2>4, <2>5, <2>6, <2>7, <2>8
    DEF Audio!Next, Audio!Writer, Audio!Reader
<1> QED
  BY <1>1, <1>2, AudioInvariance, PTL
  DEF Audio!Spec, Audio!Refines, Audio!Abs!LVSpec

-----------------------------------------------------------------------------
(* Proofs.  All four: whatever steps the others take, each behaves as it does alone. *)

\* A step of one leaves the others alone.
LEMMA EachAlone ==
    MCSpec => Spec /\ Audio!Spec /\ Changes!Spec /\ Queues!Spec
<1>1. MCInit => Init /\ Audio!Init /\ Changes!Init /\ Queues!Init
  BY DEF MCInit
<1>2. [MCNext]_allVars => /\ [Next]_vars /\ [Audio!Next]_Audio!vars
                          /\ [Changes!Next]_Changes!vars /\ [Queues!Next]_Queues!vars
  <2> SUFFICES ASSUME [MCNext]_allVars
               PROVE  /\ [Next]_vars /\ [Audio!Next]_Audio!vars
                      /\ [Changes!Next]_Changes!vars /\ [Queues!Next]_Queues!vars
    OBVIOUS
  <2>1. UNCHANGED audio => UNCHANGED Audio!vars
    BY DEF audio, Audio!vars
  <2>2. UNCHANGED changes => UNCHANGED Changes!vars
    BY DEF changes, Changes!vars, Changes!word, Changes!producer, Changes!consumer
  <2>3. UNCHANGED queues => UNCHANGED Queues!vars
    BY DEF queues, Queues!vars, Queues!shared, Queues!locals
  <2>4. CASE MCNext
    BY <2>1, <2>2, <2>3, <2>4 DEF MCNext
  <2>5. CASE UNCHANGED allVars
    BY <2>1, <2>2, <2>3, <2>5 DEF allVars
  <2> QED BY <2>4, <2>5
<1> QED BY <1>1, <1>2, PTL DEF MCSpec, Spec, Audio!Spec, Changes!Spec, Queues!Spec

\* The four are well typed.
THEOREM EachTyped == MCSpec => []AllTyped
<1>1. Audio!Spec => []Audio!TypeOK
  <2>1. AudioInv => Audio!TypeOK
    BY DEF AudioInv
  <2> QED BY <2>1, AudioInvariance, PTL
<1>2. Changes!Spec => []Changes!TypeOK
  BY WaitFreeAssumption, Changes!TypeCorrect
<1>3. Queues!Spec => []Queues!TypeOK
  BY WaitFreeAssumption, Queues!TypeCorrect
<1> QED BY <1>1, <1>2, <1>3, TypeCorrect, EachAlone, PTL DEF AllTyped

\* No buffer of a Change_set is written while the audio thread walks it, and nobody gets into a
\* slot of a queue of any kind that a thread is not done with, save one whose claim was seen before
\* its scope: whichever threads' stores are seen late.
THEOREM NobodyElse == MCSpec => []Exclusive
<1>1. Changes!Spec => []Changes!BuffersApart
  BY WaitFreeAssumption, Changes!NeverInOneBuffer
<1>2. Queues!Spec => []Queues!SlotsExclusive
  BY WaitFreeAssumption, Queues!OneInASlot
<1> QED BY <1>1, <1>2, EachAlone, PTL DEF Exclusive

\* The other direction of the port is a register, a Change_set the latest value of each
\* address, and a queue of any kind first in, first out until a claim is seen before its scope.
THEOREM EachImplements == MCSpec => OthersRefine
<1>1. Changes!Spec => Changes!Refines
  BY WaitFreeAssumption, Changes!RefinesMap
<1>2. Queues!Spec => Queues!Refines
  BY WaitFreeAssumption, Queues!RefinesFifo
<1> QED BY <1>1, <1>2, AudioRefinesRegister, EachAlone, PTL DEF OthersRefine

=============================================================================
