----------------------------- MODULE ChangeSet -----------------------------
(***************************************************************************)
(* tiny::Change_set: the latest value per address, from producers behind a *)
(* mutex (or one producer) to an audio thread that never waits.            *)
(*                                                                         *)
(* Two buffers and one word {READ, PENDING, MERGING}.  The consumer holds  *)
(* buffer `read`; the other one is the producer's, either free or pending. *)
(* One write of an address is one step, so the other thread can run in the *)
(* middle of a batch.                                                      *)
(***************************************************************************)
EXTENDS Integers, TLAPS

CONSTANTS Addresses, Values,
          None,      \* an address whose dirty bit is clear
          Batches    \* what is pushed: a value, or None, per address

ChangeSetConstants == /\ None \notin Values
                      /\ Batches \subseteq [Addresses -> Values \cup {None}]

VARIABLES read, pending, merging,  \* _state
          buffers,    \* _buffers: a value per dirty address
          pushing,    \* the producer's program counter
          batch,      \* what is left to put of the batch being pushed
          state,      \* the producer's copy of the word
          consuming,  \* the consumer's program counter
          loaded,     \* the consumer's copy of the word
          left,       \* addresses the for_each under way has not reached
          heard       \* what on_change was last given for each address

word == <<read, pending, merging>>
producer == <<pushing, batch, state>>
consumer == <<consuming, loaded, left, heard>>
vars == <<word, buffers, producer, consumer>>

Changes == [Addresses -> Values \cup {None}]
Nothing == [a \in Addresses |-> None]

\* other(state): the buffer the consumer does not hold.
Other(i) == 1 - i
Target == Other(state.read)

Word == [read : {0, 1}, pending : BOOLEAN, merging : BOOLEAN]
Loaded == [read |-> read, pending |-> pending, merging |-> merging]
Store(w) == read' = w.read /\ pending' = w.pending /\ merging' = w.merging

Init ==
    /\ read = 0 /\ pending = FALSE /\ merging = FALSE
    /\ buffers = [i \in {0, 1} |-> Nothing]
    /\ pushing = "idle" /\ batch = Nothing /\ state = Loaded
    /\ consuming = "idle" /\ loaded = Loaded /\ left = {}
    /\ heard = Nothing

-----------------------------------------------------------------------------
(* push, push_n: do_push under the producers' mutex.  Repeats of an address  *)
(* in one batch have collapsed: a batch gives each address its last value.   *)

\* The top of the loop: what the word says decides whose the other buffer is.
Route == /\ state' = Loaded
         /\ pushing' = IF pending THEN "claim" ELSE "clear"

PushBegin(b) ==
    /\ pushing = "idle" /\ b # Nothing
    /\ batch' = b
    /\ Route
    /\ UNCHANGED <<word, buffers, consumer>>

\* Hold the pending batch.
Claim ==
    /\ pushing = "claim" /\ state = Loaded
    /\ Store([state EXCEPT !.merging = TRUE])
    /\ pushing' = "merge"
    /\ UNCHANGED <<buffers, batch, state, consumer>>

\* The consumer took it first, or the weak exchange failed for no reason.
ClaimFails ==
    /\ pushing = "claim"
    /\ Route
    /\ UNCHANGED <<word, buffers, batch, consumer>>

Clear ==
    /\ pushing = "clear"
    /\ buffers' = [buffers EXCEPT ![Target] = Nothing]
    /\ pushing' = "fill"
    /\ UNCHANGED <<word, batch, state, consumer>>

Put(a) ==
    /\ pushing \in {"merge", "fill"} /\ batch[a] # None
    /\ buffers' = [buffers EXCEPT ![Target][a] = batch[a]]
    /\ batch' = [batch EXCEPT ![a] = None]
    /\ UNCHANGED <<word, pushing, state, consumer>>

\* Mutant: the word keeps MERGING.
MergeEndHolding ==
    /\ pushing = "merge" /\ batch = Nothing
    /\ pushing' = "idle"
    /\ UNCHANGED <<word, buffers, batch, state, consumer>>

MergeEnd ==
    /\ pushing = "merge" /\ batch = Nothing
    /\ Store(state)
    /\ pushing' = "idle"
    /\ UNCHANGED <<buffers, batch, state, consumer>>

FillEnd ==
    /\ pushing = "fill" /\ batch = Nothing
    /\ Store([state EXCEPT !.pending = TRUE])
    /\ pushing' = "idle"
    /\ UNCHANGED <<buffers, batch, state, consumer>>

-----------------------------------------------------------------------------
(* consume, wait-free. *)

ConsumeLoad ==
    /\ consuming = "idle"
    /\ pending /\ ~merging
    /\ loaded' = Loaded
    /\ consuming' = "take"
    /\ UNCHANGED <<word, buffers, producer, left, heard>>

\* A merge that began meanwhile leaves the batch for the next call.
ConsumeTake ==
    /\ consuming = "take"
    /\ IF Loaded = loaded
       THEN /\ Store([read |-> Other(loaded.read), pending |-> FALSE, merging |-> FALSE])
            /\ consuming' = "deliver" /\ left' = Addresses
       ELSE /\ consuming' = "idle"
            /\ UNCHANGED <<word, left>>
    /\ UNCHANGED <<buffers, producer, loaded, heard>>

\* for_each on the buffer taken: on_change for an address whose bit is set.
Visit(a) ==
    /\ consuming = "deliver" /\ a \in left
    /\ left' = left \ {a}
    /\ heard' = IF buffers[Other(loaded.read)][a] # None
                THEN [heard EXCEPT ![a] = buffers[Other(loaded.read)][a]] ELSE heard
    /\ UNCHANGED <<word, buffers, producer, consuming, loaded>>

ConsumeEnd ==
    /\ consuming = "deliver" /\ left = {}
    /\ consuming' = "idle"
    /\ UNCHANGED <<word, buffers, producer, loaded, left, heard>>

-----------------------------------------------------------------------------
Working == \/ Claim \/ ClaimFails \/ Clear \/ (\E a \in Addresses : Put(a)) \/ MergeEnd \/ FillEnd
Consuming == ConsumeLoad \/ ConsumeTake \/ (\E a \in Addresses : Visit(a)) \/ ConsumeEnd
Next == (\E b \in Batches : PushBegin(b)) \/ Working \/ Consuming

Spec == Init /\ [][Next]_vars

\* The audio thread calls consume() every block and never waits in it.
Fairness == WF_vars(Consuming)
FairSpec == Spec /\ Fairness

-----------------------------------------------------------------------------
TypeOK ==
    /\ read \in {0, 1} /\ pending \in BOOLEAN /\ merging \in BOOLEAN
    /\ buffers \in [{0, 1} -> Changes]
    /\ pushing \in {"idle", "claim", "merge", "clear", "fill"}
    /\ batch \in Changes /\ state \in Word
    /\ consuming \in {"idle", "take", "deliver"}
    /\ loaded \in Word /\ left \subseteq Addresses /\ heard \in Changes

\* "The consumer holds the one it last took; the other is the producer's": no
\* buffer is written while the audio thread walks it.
BuffersApart ==
    ~(pushing \in {"merge", "clear", "fill"} /\ consuming = "deliver" /\ Target = Other(loaded.read))

\* What a buffer and what is still to be put into it come to.
Over(old, new) == [a \in Addresses |-> IF new[a] # None THEN new[a] ELSE old[a]]

\* The changes owed.  A merge counts from the moment it holds the pending batch,
\* for no consumer can take that batch before the merge is complete.
Owed == IF pushing = "merge" THEN Over(buffers[Other(read)], batch)
        ELSE IF pending THEN buffers[Other(read)] ELSE Nothing

\* What is heard.  A delivery counts from the moment the batch is taken.
Told == IF consuming = "deliver"
        THEN Over(heard, [a \in Addresses |-> IF a \in left THEN buffers[read][a] ELSE None])
        ELSE heard

Map == INSTANCE ChangeMap WITH owed <- Owed, heard <- Told

\* "`push_n` lands as a unit, so a consumer sees a whole batch or none of it",
\* and repeated writes to an address collapse to the newest: never an older one,
\* never twice.
Refines == Map!CMSpec

\* A batch found merging is left for the next call, but not for good: once no
\* more is pushed, everything pushed is delivered.
NothingOwed == <>[](pushing = "idle") => <>[](~pending /\ consuming = "idle")

-----------------------------------------------------------------------------
(* For every set of addresses, values and batches.                          *)

\* What the word says while the producer and the consumer rely on it: a producer
\* filling a free buffer, or holding the pending one, knows that nobody takes it;
\* a consumer walks the buffer that the word says is its own.
Held ==
    /\ pushing = "claim" => state.pending /\ ~state.merging
    /\ pushing \in {"clear", "fill"} => ~pending /\ state = Loaded
    /\ pushing = "merge" => pending /\ state = [read |-> read, pending |-> TRUE, merging |-> FALSE]
    /\ merging <=> pushing = "merge"
    /\ consuming = "take" => loaded.pending /\ ~loaded.merging
    /\ consuming = "deliver" => read = Other(loaded.read)

\* What is in the buffer being filled and what is still to be put there make up
\* the batch that was pushed.
Whole ==
    /\ pushing \in {"claim", "clear"} => batch \in Batches
    /\ pushing = "fill" => Over(buffers[Other(read)], batch) \in Batches

CInv == TypeOK /\ Held /\ Whole

LEMMA NothingType == Nothing \in Changes
BY DEF Nothing, Changes

LEMMA OverType ==
    ASSUME NEW old \in Changes, NEW new \in Changes
    PROVE  /\ Over(old, new) \in Changes
           /\ Over(old, Nothing) = old /\ Over(Nothing, new) = new
BY DEF Over, Changes, Nothing

LEMMA LoadedType == TypeOK => Loaded \in Word
BY DEF TypeOK, Loaded, Word

LEMMA InitCInv == Init => CInv
<1> SUFFICES ASSUME Init PROVE CInv
  OBVIOUS
<1>1. Loaded \in Word
  BY DEF Init, Loaded, Word
<1>2. TypeOK
  BY <1>1, NothingType DEF Init, TypeOK
<1>3. Held /\ Whole
  BY DEF Init, Held, Whole
<1> QED BY <1>2, <1>3 DEF CInv

\* A step that leaves the word, the buffers and the producer alone.
LEMMA ProducerKept ==
    ASSUME CInv, UNCHANGED <<word, buffers, producer>>,
           consuming' \in {"idle", "take", "deliver"}, loaded' \in Word,
           left' \subseteq Addresses, heard' \in Changes,
           consuming' = "take" => loaded'.pending /\ ~loaded'.merging,
           consuming' = "deliver" => read = Other(loaded'.read)
    PROVE  CInv'
<1> USE DEF CInv, word, producer
<1>1. TypeOK'
  BY DEF TypeOK
<1>2. Held'
  BY DEF Held, Loaded
<1>3. Whole'
  BY DEF Whole, Over
<1> QED BY <1>1, <1>2, <1>3

\* Putting one change moves it from the batch to the buffer: they come to the same.
LEMMA PutKeepsOver ==
    ASSUME NEW old \in Changes, NEW new \in Changes, NEW a \in Addresses, new[a] # None
    PROVE  Over([old EXCEPT ![a] = new[a]], [new EXCEPT ![a] = None]) = Over(old, new)
BY DEF Over, Changes

LEMMA PutStep ==
    ASSUME CInv, NEW a \in Addresses, Put(a)
    PROVE  /\ state.read = read /\ UNCHANGED <<word, pushing, state, consumer>>
           /\ buffers' \in [{0, 1} -> Changes] /\ batch' \in Changes
           /\ buffers'[read] = buffers[read]
           /\ Over(buffers'[Other(read)], batch') = Over(buffers[Other(read)], batch)
<1>1. state.read = read
  BY DEF Put, CInv, Held, Loaded
<1>2. read \in {0, 1} /\ Other(read) \in {0, 1} /\ Other(read) # read
  BY DEF CInv, TypeOK, Other
<1>3. buffers \in [{0, 1} -> Changes] /\ batch \in Changes /\ batch[a] # None
  BY DEF CInv, TypeOK, Put
<1>4. /\ buffers' = [buffers EXCEPT ![Other(read)] = [buffers[Other(read)] EXCEPT ![a] = batch[a]]]
      /\ batch' = [batch EXCEPT ![a] = None]
  BY <1>1, <1>2, <1>3 DEF Put, Target
<1>5. [buffers[Other(read)] EXCEPT ![a] = batch[a]] \in Changes /\ batch' \in Changes
  BY <1>2, <1>3, <1>4 DEF Changes
<1>6. buffers' \in [{0, 1} -> Changes] /\ buffers'[read] = buffers[read]
      /\ buffers'[Other(read)] = [buffers[Other(read)] EXCEPT ![a] = batch[a]]
  BY <1>2, <1>3, <1>4, <1>5
<1>7. Over(buffers'[Other(read)], batch') = Over(buffers[Other(read)], batch)
  <2>1. buffers[Other(read)] \in Changes
    BY <1>2, <1>3
  <2>2. Over([buffers[Other(read)] EXCEPT ![a] = batch[a]], [batch EXCEPT ![a] = None])
            = Over(buffers[Other(read)], batch)
    BY <1>3, <2>1, PutKeepsOver
  <2> QED BY <1>4, <1>6, <2>2, Zenon
<1> QED BY <1>1, <1>5, <1>6, <1>7 DEF Put

LEMMA WorkingKeeps ==
    ASSUME CInv, Working
    PROVE  CInv'
<1> USE DEF CInv
<1>t. read \in {0, 1} /\ Other(read) \in {0, 1} /\ batch \in Changes /\ buffers \in [{0, 1} -> Changes]
  BY DEF TypeOK, Other
<1>a. CASE Claim
  <2>1. /\ state = Loaded /\ pushing = "claim" /\ pushing' = "merge"
        /\ read' = read /\ pending' = pending /\ merging' = TRUE
        /\ UNCHANGED <<buffers, batch, state, consuming, loaded, left, heard>>
    BY <1>a, LoadedType DEF Claim, Store, Loaded, consumer
  <2>2. state = [read |-> read, pending |-> TRUE, merging |-> FALSE] /\ pending = TRUE
    BY <2>1 DEF Held, Loaded, TypeOK
  <2>3. TypeOK'
    BY <2>1 DEF TypeOK
  <2>4. Held'
    BY <2>1, <2>2 DEF Held
  <2>5. Whole'
    BY <2>1 DEF Whole
  <2> QED BY <2>3, <2>4, <2>5
<1>b. CASE ClaimFails
  <2>1. /\ pushing = "claim" /\ state' = Loaded
        /\ pushing' = IF pending THEN "claim" ELSE "clear"
        /\ UNCHANGED <<read, pending, merging, buffers, batch, consuming, loaded, left, heard>>
    BY <1>b DEF ClaimFails, Route, word, consumer
  <2>2. TypeOK'
    BY <2>1, LoadedType DEF TypeOK
  <2>3. Held'
    BY <2>1 DEF Held, Loaded
  <2>4. Whole'
    BY <2>1 DEF Whole
  <2> QED BY <2>2, <2>3, <2>4
<1>c. CASE Clear
  <2>0. state.read = read
    BY <1>c DEF Clear, Held, Loaded
  <2>1. /\ pushing = "clear" /\ pushing' = "fill"
        /\ buffers' = [buffers EXCEPT ![Other(read)] = Nothing]
        /\ UNCHANGED <<read, pending, merging, batch, state, consuming, loaded, left, heard>>
    BY <1>c, <2>0 DEF Clear, Target, word, consumer
  <2>2. buffers' \in [{0, 1} -> Changes] /\ buffers'[Other(read)] = Nothing
    BY <1>t, <2>1, NothingType
  <2>3. TypeOK'
    BY <2>1, <2>2 DEF TypeOK
  <2>4. Held'
    BY <2>1 DEF Held, Loaded
  <2>5. Over(buffers'[Other(read')], batch') = batch
    BY <1>t, <2>1, <2>2, OverType
  <2>6. Whole'
    BY <2>1, <2>5 DEF Whole
  <2> QED BY <2>3, <2>4, <2>6
<1>d. ASSUME NEW a \in Addresses, Put(a) PROVE CInv'
  <2>1. /\ UNCHANGED <<word, pushing, state, consumer>>
        /\ buffers' \in [{0, 1} -> Changes] /\ batch' \in Changes
        /\ Over(buffers'[Other(read)], batch') = Over(buffers[Other(read)], batch)
    BY <1>d, PutStep
  <2>2. pushing \in {"merge", "fill"}
    BY <1>d DEF Put
  <2>3. TypeOK'
    BY <2>1 DEF TypeOK, word, consumer
  <2>4. Held'
    BY <2>1 DEF Held, Loaded, word, consumer
  <2>5. Whole'
    BY <2>1, <2>2 DEF Whole, word
  <2> QED BY <2>3, <2>4, <2>5
<1>e. CASE MergeEnd
  <2>1. /\ pushing = "merge" /\ pushing' = "idle"
        /\ read' = read /\ pending' = TRUE /\ merging' = FALSE
        /\ UNCHANGED <<buffers, batch, state, consuming, loaded, left, heard>>
    BY <1>e DEF MergeEnd, Store, Held, consumer
  <2>2. TypeOK'
    BY <2>1 DEF TypeOK
  <2>3. Held' /\ Whole'
    BY <2>1 DEF Held, Whole
  <2> QED BY <2>2, <2>3
<1>f. CASE FillEnd
  <2>1. /\ pushing = "fill" /\ pushing' = "idle"
        /\ read' = read /\ pending' = TRUE /\ merging' = merging
        /\ UNCHANGED <<buffers, batch, state, consuming, loaded, left, heard>>
    BY <1>f DEF FillEnd, Store, Held, Loaded, consumer
  <2>2. TypeOK'
    BY <2>1 DEF TypeOK
  <2>3. Held' /\ Whole'
    BY <2>1 DEF Held, Whole
  <2> QED BY <2>2, <2>3
<1> QED BY <1>a, <1>b, <1>c, <1>d, <1>e, <1>f DEF Working

\* The exchange of a consumer that got the word it had loaded.
LEMMA TakeStep ==
    ASSUME CInv, ConsumeTake, Loaded = loaded
    PROVE  /\ pending /\ pushing \in {"idle", "claim"}
           /\ read' = Other(read) /\ Other(read') = read /\ pending' = FALSE /\ merging' = FALSE
           /\ consuming = "take" /\ consuming' = "deliver" /\ left' = Addresses
           /\ UNCHANGED <<buffers, producer, loaded, heard>>
<1>1. pending /\ ~merging
  BY DEF CInv, Held, ConsumeTake, Loaded
<1>2. pushing \in {"idle", "claim"}
  BY <1>1 DEF CInv, TypeOK, Held
<1> QED BY <1>1, <1>2 DEF ConsumeTake, Store, Loaded, CInv, TypeOK, Other

LEMMA ConsumingKeeps ==
    ASSUME CInv, Consuming
    PROVE  CInv'
<1> USE DEF CInv
<1>a. CASE ConsumeLoad
  BY <1>a, LoadedType, ProducerKept DEF ConsumeLoad, Loaded, TypeOK
<1>b. CASE ConsumeTake /\ Loaded = loaded
  <2>1. /\ pushing \in {"idle", "claim"}
        /\ read' = Other(read) /\ pending' = FALSE /\ merging' = FALSE
        /\ consuming' = "deliver" /\ left' = Addresses
        /\ UNCHANGED <<buffers, producer, loaded, heard>>
    BY <1>b, TakeStep
  <2>2. TypeOK'
    <3>1. read' \in {0, 1}
      BY <2>1 DEF TypeOK, Other
    <3> QED BY <2>1, <3>1 DEF TypeOK, producer
  <2>3. Held'
    BY <1>b, <2>1 DEF Held, producer, Loaded
  <2>4. Whole'
    BY <2>1 DEF Whole, producer
  <2> QED BY <2>2, <2>3, <2>4
<1>c. CASE ConsumeTake /\ Loaded # loaded
  BY <1>c, ProducerKept DEF ConsumeTake, TypeOK
<1>d. ASSUME NEW a \in Addresses, Visit(a) PROVE CInv'
  <2>1. buffers[Other(loaded.read)] \in Changes
    BY DEF TypeOK, Word, Other
  <2>2. heard' \in Changes
    BY <1>d, <2>1 DEF Visit, TypeOK, Changes
  <2> QED BY <1>d, <2>2, ProducerKept DEF Visit, TypeOK, Held
<1>e. CASE ConsumeEnd
  BY <1>e, ProducerKept DEF ConsumeEnd, TypeOK
<1> QED BY <1>a, <1>b, <1>c, <1>d, <1>e DEF Consuming

LEMMA BeginKeeps ==
    ASSUME ChangeSetConstants, CInv, NEW b \in Batches, PushBegin(b)
    PROVE  CInv'
<1> USE DEF CInv
<1>1. /\ pushing = "idle" /\ batch' = b /\ state' = Loaded
      /\ pushing' = IF pending THEN "claim" ELSE "clear"
      /\ UNCHANGED <<read, pending, merging, buffers, consuming, loaded, left, heard>>
  BY DEF PushBegin, Route, word, consumer
<1>2. b \in Changes
  BY DEF ChangeSetConstants, Changes
<1>3. TypeOK'
  BY <1>1, <1>2, LoadedType DEF TypeOK
<1>4. Held'
  BY <1>1 DEF Held, Loaded
<1>5. Whole'
  BY <1>1 DEF Whole
<1> QED BY <1>3, <1>4, <1>5

LEMMA CInvariance ==
    ASSUME ChangeSetConstants
    PROVE  Spec => []CInv
<1>1. CInv /\ [Next]_vars => CInv'
  <2> SUFFICES ASSUME CInv, [Next]_vars PROVE CInv'
    OBVIOUS
  <2>1. CASE UNCHANGED vars
    BY <2>1 DEF CInv, TypeOK, Held, Whole, Over, Loaded, vars, word, producer, consumer
  <2> QED BY <2>1, BeginKeeps, WorkingKeeps, ConsumingKeeps DEF Next
<1> QED BY <1>1, InitCInv, PTL DEF Spec

\* A Change_set is well typed, whatever is pushed.
THEOREM TypeCorrect ==
    ASSUME ChangeSetConstants
    PROVE  Spec => []TypeOK
<1>1. CInv => TypeOK
  BY DEF CInv
<1> QED BY <1>1, CInvariance, PTL

\* Whichever of a merge and a take gets the word first, the producer and the
\* audio thread are never in the same buffer.
THEOREM NeverInOneBuffer ==
    ASSUME ChangeSetConstants
    PROVE  Spec => []BuffersApart
<1>1. CInv => BuffersApart
  BY DEF CInv, TypeOK, Held, BuffersApart, Target, Loaded, Word, Other
<1> QED BY <1>1, CInvariance, PTL

-----------------------------------------------------------------------------
(* It implements ChangeMap.                                                  *)

MapNext == [Map!CMNext]_<<Owed, Told>>

\* Nothing is told while the consumer stands still and its buffer is not written.
LEMMA ToldKept ==
    ASSUME UNCHANGED <<read, consumer>>, buffers'[read] = buffers[read]
    PROVE  UNCHANGED Told
BY DEF Told, Over, consumer

LEMMA WorkingRefines ==
    ASSUME CInv, Working
    PROVE  MapNext
<1> USE DEF CInv
<1>t. /\ read \in {0, 1} /\ Other(read) \in {0, 1} /\ Other(read) # read
      /\ batch \in Changes /\ buffers \in [{0, 1} -> Changes]
      /\ buffers[read] \in Changes /\ buffers[Other(read)] \in Changes
  BY DEF TypeOK, Other
<1>a. CASE Claim
  <2>0. state = Loaded /\ state.pending /\ ~state.merging /\ read' = state.read
    BY <1>a DEF Claim, Held, Store
  <2>1. /\ pushing = "claim" /\ pushing' = "merge" /\ pending
        /\ UNCHANGED <<read, buffers, batch, consumer>>
    BY <1>a, <2>0 DEF Claim, Loaded
  <2>2. Owed = buffers[Other(read)] /\ Owed' = Over(buffers[Other(read)], batch)
    BY <2>1 DEF Owed, Over
  <2>3. UNCHANGED Told
    BY <2>1, ToldKept
  <2>4. batch \in Batches
    BY <2>1 DEF Whole
  <2>5. Map!Push
    BY <2>2, <2>3, <2>4 DEF Map!Push, Map!Over, Over
  <2> QED BY <2>5 DEF MapNext, Map!CMNext
<1>b. CASE ClaimFails
  <2>1. /\ pushing = "claim" /\ pushing' \in {"claim", "clear"}
        /\ UNCHANGED <<read, pending, buffers, batch, consumer>>
    BY <1>b DEF ClaimFails, Route, word
  <2>2. UNCHANGED Owed
    BY <2>1 DEF Owed, Over, Nothing
  <2> QED BY <2>1, <2>2, ToldKept DEF MapNext
<1>c. CASE Clear
  <2>0. state.read = read /\ ~pending
    BY <1>c DEF Clear, Held, Loaded
  <2>1. /\ pushing = "clear" /\ pushing' = "fill"
        /\ buffers' = [buffers EXCEPT ![Other(read)] = Nothing]
        /\ UNCHANGED <<read, pending, consumer>>
    BY <1>c, <2>0 DEF Clear, Target, word
  <2>2. UNCHANGED Owed
    BY <2>0, <2>1 DEF Owed, Nothing
  <2>3. buffers'[read] = buffers[read]
    BY <1>t, <2>1
  <2> QED BY <2>1, <2>2, <2>3, ToldKept DEF MapNext
<1>d. ASSUME NEW a \in Addresses, Put(a) PROVE MapNext
  <2>1. /\ UNCHANGED <<read, pending, pushing, consumer>> /\ buffers'[read] = buffers[read]
        /\ Over(buffers'[Other(read)], batch') = Over(buffers[Other(read)], batch)
    BY <1>d, PutStep DEF word
  <2>2. pushing = "merge" \/ ~pending
    BY <1>d DEF Put, Held
  <2>3. UNCHANGED Owed
    BY <2>1, <2>2 DEF Owed, Nothing
  <2> QED BY <2>1, <2>3, ToldKept DEF MapNext
<1>e. CASE MergeEnd
  <2>0. state = [read |-> read, pending |-> TRUE, merging |-> FALSE]
    BY <1>e DEF MergeEnd, Held
  <2>1. /\ pushing = "merge" /\ pushing' = "idle" /\ batch = Nothing /\ pending' = TRUE
        /\ UNCHANGED <<read, buffers, consumer>>
    BY <1>e, <2>0 DEF MergeEnd, Store
  <2>2. Owed = Over(buffers[Other(read)], Nothing) /\ Owed' = buffers[Other(read)]
    BY <2>1 DEF Owed
  <2>3. UNCHANGED Owed
    BY <1>t, <2>2, OverType
  <2> QED BY <2>1, <2>3, ToldKept DEF MapNext
<1>f. CASE FillEnd
  <2>0. state = Loaded /\ ~pending
    BY <1>f DEF FillEnd, Held
  <2>1. /\ pushing = "fill" /\ pushing' = "idle" /\ batch = Nothing /\ pending' = TRUE
        /\ UNCHANGED <<read, buffers, consumer>>
    BY <1>f, <2>0 DEF FillEnd, Store, Loaded
  <2>2. Owed = Nothing /\ Owed' = buffers[Other(read)]
    BY <2>0, <2>1 DEF Owed
  <2>3. Over(buffers[Other(read)], Nothing) = buffers[Other(read)]
        /\ Over(Nothing, buffers[Other(read)]) = buffers[Other(read)]
    BY <1>t, OverType
  <2>4. buffers[Other(read)] \in Batches
    BY <2>1, <2>3 DEF Whole
  <2>5. UNCHANGED Told
    BY <2>1, ToldKept
  <2>6. Map!Push
    BY <2>2, <2>3, <2>4, <2>5 DEF Map!Push, Map!Over, Over
  <2> QED BY <2>6 DEF MapNext, Map!CMNext
<1> QED BY <1>a, <1>b, <1>c, <1>d, <1>e, <1>f DEF Working

LEMMA ConsumingRefines ==
    ASSUME CInv, Consuming
    PROVE  MapNext
<1> USE DEF CInv
<1>q. ASSUME UNCHANGED <<word, buffers, producer>> PROVE UNCHANGED Owed
  BY <1>q DEF Owed, Over, Nothing, word, producer
<1>t. heard \in Changes /\ left \subseteq Addresses /\ buffers \in [{0, 1} -> Changes] /\ read \in {0, 1}
  BY DEF TypeOK
<1>a. CASE ConsumeLoad
  <2>1. UNCHANGED Told
    BY <1>a DEF ConsumeLoad, Told
  <2> QED BY <1>a, <1>q, <2>1 DEF ConsumeLoad, MapNext
<1>b. CASE ConsumeTake /\ Loaded = loaded
  <2>1. /\ pending /\ pushing \in {"idle", "claim"} /\ pushing' = pushing
        /\ read' = Other(read) /\ pending' = FALSE
        /\ consuming = "take" /\ consuming' = "deliver" /\ left' = Addresses
        /\ UNCHANGED <<buffers, heard>>
    BY <1>b, TakeStep DEF producer
  <2>2. Owed = buffers[Other(read)] /\ Owed' = Nothing
    BY <2>1 DEF Owed, Nothing
  <2>3. Told = heard /\ Told' = Over(heard, buffers[Other(read)])
    BY <2>1 DEF Told, Over
  <2>4. Map!Consume
    BY <2>2, <2>3 DEF Map!Consume, Map!Over, Over, Map!Nothing, Nothing
  <2> QED BY <2>4 DEF MapNext, Map!CMNext
<1>c. CASE ConsumeTake /\ Loaded # loaded
  <2>1. UNCHANGED Told
    BY <1>c DEF ConsumeTake, Told
  <2> QED BY <1>c, <1>q, <2>1 DEF ConsumeTake, MapNext
<1>d. ASSUME NEW a \in Addresses, Visit(a) PROVE MapNext
  <2>1. Other(loaded.read) = read
    BY <1>d DEF Visit, Held
  <2>2. /\ consuming = "deliver" /\ a \in left /\ left' = left \ {a}
        /\ heard' = IF buffers[read][a] # None THEN [heard EXCEPT ![a] = buffers[read][a]] ELSE heard
        /\ UNCHANGED <<read, buffers, consuming>>
    BY <1>d, <2>1 DEF Visit, word
  <2>3. \A x \in Addresses :
            (IF (IF x \in left' THEN buffers[read][x] ELSE None) # None
             THEN (IF x \in left' THEN buffers[read][x] ELSE None) ELSE heard'[x])
          = (IF (IF x \in left THEN buffers[read][x] ELSE None) # None
             THEN (IF x \in left THEN buffers[read][x] ELSE None) ELSE heard[x])
    BY <1>t, <2>2 DEF Changes
  <2>4. UNCHANGED Told
    BY <2>2, <2>3 DEF Told, Over
  <2> QED BY <1>d, <1>q, <2>4 DEF Visit, MapNext
<1>e. CASE ConsumeEnd
  <2>1. Told = Over(heard, Nothing) /\ Told' = heard
    BY <1>e DEF ConsumeEnd, Told, Over, Nothing
  <2>2. UNCHANGED Told
    BY <1>t, <2>1, OverType, NothingType
  <2> QED BY <1>e, <1>q, <2>2 DEF ConsumeEnd, MapNext
<1> QED BY <1>a, <1>b, <1>c, <1>d, <1>e DEF Consuming

\* A Change_set is the latest value per address: a batch lands as a unit, what is
\* owed is delivered at once, and never an older value after a newer.
THEOREM RefinesMap ==
    ASSUME ChangeSetConstants
    PROVE  Spec => Refines
<1>1. Init => Map!CMInit
  BY DEF Init, Map!CMInit, Owed, Told, Nothing, Map!Nothing
<1>2. CInv /\ [Next]_vars => MapNext
  <2> SUFFICES ASSUME CInv, [Next]_vars PROVE MapNext
    OBVIOUS
  <2>1. ASSUME NEW b \in Batches, PushBegin(b) PROVE MapNext
    <3>1. /\ pushing = "idle" /\ pushing' \in {"claim", "clear"}
          /\ UNCHANGED <<read, pending, buffers, consumer>>
      BY <2>1 DEF PushBegin, Route, word
    <3>2. UNCHANGED Owed
      BY <3>1 DEF Owed, Nothing
    <3> QED BY <3>1, <3>2, ToldKept DEF MapNext
  <2>2. CASE UNCHANGED vars
    <3>1. UNCHANGED Owed /\ UNCHANGED Told
      BY <2>2 DEF Owed, Told, Over, Nothing, vars, word, producer, consumer
    <3> QED BY <3>1 DEF MapNext
  <2> QED BY <2>1, <2>2, WorkingRefines, ConsumingRefines DEF Next
<1> QED BY <1>1, <1>2, CInvariance, PTL DEF Spec, Refines, Map!CMSpec, MapNext

=============================================================================
