----------------------------- MODULE BlockStore -----------------------------
(***************************************************************************)
(* Block_store: a sequence word and two slots for the latest frame, read    *)
(* from afar by a copy that no one holds the writer back for.  The reader    *)
(* brackets its copy with two reads of the word.  AAX's Direct Data timer     *)
(* reads the algorithm's store ("direct"); in the web format the pump copies  *)
(* one module's store into the other's, whose owner reads that ("pumped").    *)
(* A frame is told apart by the number of its publication, a slot is copied   *)
(* word by word.                                                              *)
(***************************************************************************)
EXTENDS Naturals

CONSTANTS Words,         \* words of a frame
          MaxPublishes,  \* bound: publications
          MaxWipes       \* bound: resets of the host's that wipe the private data

VARIABLES
    path,
    seq, slots,    \* the stores
    filling,       \* per store, the frame its producer copies in, and how far it is
    copying,       \* per store, the reader's copy, and the seq it began at
    got,           \* per store, the frame the reader accepted last
    given,         \* per store, the frame it passed on last
    seen,          \* per store, the seq of that frame (_block_seen, _state_seen, state.seen)
    published, wipes

storeVars == <<path, seq, slots, filling, copying, got, given, seen, published, wipes>>

Near == 1
Far == 2
Stores == {Near, Far}
Frame(n) == [w \in 1 .. Words |-> n]
Frames == {Frame(n) : n \in 0 .. MaxPublishes}
Empty == Frame(0)
Idle == [busy |-> FALSE]
Last == IF path = "direct" THEN Near ELSE Far

Init ==
    /\ path \in {"direct", "pumped"}
    /\ seq = [s \in Stores |-> 0] /\ slots = [s \in Stores |-> [i \in 0 .. 1 |-> Empty]]
    /\ filling = [s \in Stores |-> Idle] /\ copying = [s \in Stores |-> Idle]
    /\ got = [s \in Stores |-> Empty] /\ given = got /\ seen = [s \in Stores |-> 0]
    /\ published = 0 /\ wipes = 0

-----------------------------------------------------------------------------
(* The producer: the slot the readers are not pointed at, then the word.     *)

Fill(s, frame) == /\ ~filling[s].busy
                  /\ filling' = [filling EXCEPT ![s] = [busy |-> TRUE, frame |-> frame, word |-> 1]]

Publish == /\ published < MaxPublishes /\ published' = published + 1
           /\ Fill(Near, Frame(published'))
           /\ UNCHANGED <<path, seq, slots, copying, got, given, seen, wipes>>

Back(s) == seq[s] % 2
Front(s) == IF seq[s] = 0 THEN Empty ELSE slots[s][(seq[s] - 1) % 2]

\* copy_words into the slot.
StoreWord(s) ==
    LET f == filling[s] IN
    /\ f.busy /\ f.word <= Words
    /\ slots' = [slots EXCEPT ![s][Back(s)][f.word] = f.frame[f.word]]
    /\ filling' = [filling EXCEPT ![s].word = @ + 1]
    /\ UNCHANGED <<path, seq, copying, got, given, seen, published, wipes>>

PublishEnd(s) ==
    /\ filling[s].busy /\ filling[s].word > Words
    /\ seq' = [seq EXCEPT ![s] = @ + 1] /\ filling' = [filling EXCEPT ![s] = Idle]
    /\ UNCHANGED <<path, slots, copying, got, given, seen, published, wipes>>

\* The host wipes AAX's private data at a reset; neither the algorithm nor the timer is at work then.
Wipe ==
    /\ path = "direct" /\ seq[Near] # 0 /\ wipes < MaxWipes /\ wipes' = wipes + 1
    /\ ~filling[Near].busy /\ ~copying[Near].busy
    /\ seq' = [seq EXCEPT ![Near] = 0]
    /\ slots' = [slots EXCEPT ![Near] = [i \in 0 .. 1 |-> Empty]]
    /\ UNCHANGED <<path, filling, copying, got, given, seen, published>>

-----------------------------------------------------------------------------
(* The reader of a store: nothing published, or nothing new, is left alone.  *)

\* The pump writes the frame on before it reads again.
Wakes(s) == ~copying[s].busy /\ (s = Near /\ path = "pumped" => ~filling[Far].busy)

\* A store wiped back to nothing: what was read stays with the reader.
Forget(s) == /\ Wakes(s) /\ seq[s] = 0 /\ seen[s] # 0 /\ seen' = [seen EXCEPT ![s] = 0]
             /\ UNCHANGED <<path, seq, slots, filling, copying, got, given, published, wipes>>

CopyBegin(s) ==
    /\ Wakes(s) /\ seq[s] \notin {0, seen[s]}
    /\ copying' = [copying EXCEPT ![s] = [busy |-> TRUE, seq |-> seq[s], frame |-> Empty, word |-> 1]]
    /\ UNCHANGED <<path, seq, slots, filling, got, given, seen, published, wipes>>

\* A wakeup that finds nothing new.
Quiet(s) == Wakes(s) /\ seq[s] = seen[s] /\ UNCHANGED storeVars

\* copy_words out of the slot the word pointed at.
LoadWord(s) ==
    LET c == copying[s] IN
    /\ c.busy /\ c.word <= Words
    /\ copying' = [copying EXCEPT ![s].frame[c.word] = slots[s][(c.seq - 1) % 2][c.word], ![s].word = @ + 1]
    /\ UNCHANGED <<path, seq, slots, filling, got, given, seen, published, wipes>>

Copied(s) == copying[s].busy /\ copying[s].word = Words + 1

\* A publish during the copy may have torn it: left for the next wakeup.
Reject(s) == /\ Copied(s) /\ seq[s] # copying[s].seq
             /\ copying' = [copying EXCEPT ![s] = Idle]
             /\ UNCHANGED <<path, seq, slots, filling, got, given, seen, published, wipes>>

\* Mutant: the word is not read a second time.
AcceptTorn(s) == /\ Copied(s)
                 /\ got' = [got EXCEPT ![s] = copying[s].frame]
                 /\ copying' = [copying EXCEPT ![s].word = @ + 1]
                 /\ UNCHANGED <<path, seq, slots, filling, given, seen, published, wipes>>

Accept(s) == /\ Copied(s) /\ seq[s] = copying[s].seq
             /\ got' = [got EXCEPT ![s] = copying[s].frame]
             /\ copying' = [copying EXCEPT ![s].word = @ + 1]
             /\ UNCHANGED <<path, seq, slots, filling, given, seen, published, wipes>>

\* On to the data model, the mailbox or, by the pump, into the other store.
Give(s) ==
    /\ copying[s].busy /\ copying[s].word = Words + 2
    /\ given' = [given EXCEPT ![s] = got[s]] /\ seen' = [seen EXCEPT ![s] = copying[s].seq]
    /\ copying' = [copying EXCEPT ![s] = Idle]
    /\ IF path = "pumped" /\ s = Near THEN Fill(Far, got[s]) ELSE UNCHANGED filling
    /\ UNCHANGED <<path, seq, slots, got, published, wipes>>

-----------------------------------------------------------------------------
Fills == \E s \in Stores : StoreWord(s) \/ PublishEnd(s)
Fetches(s) == Forget(s) \/ CopyBegin(s) \/ LoadWord(s) \/ Reject(s) \/ Accept(s) \/ Give(s)
Next == Publish \/ Fills \/ Wipe \/ \E s \in Stores : Fetches(s) \/ Quiet(s)

TypeOK == /\ got[Near] \in Frames /\ got[Far] \in Frames
          /\ \A s \in Stores : seq[s] <= MaxPublishes /\ seen[s] <= MaxPublishes

\* However slow its reader, a store hands over whole frames only, each the one current when it was accepted.
NearLatest == INSTANCE LatestValue WITH Values <- Frames, Initial <- Empty,
                                        latest <- Front(Near), taken <- got[Near], out <- given[Near]
FarLatest == INSTANCE LatestValue WITH Values <- Frames, Initial <- Empty,
                                       latest <- Front(Far), taken <- got[Far], out <- given[Far]
Refines == NearLatest!LVSpec /\ FarLatest!LVSpec

\* Once nothing is published any more the last frame is read, through both stores; except that a wipe may bring the
\* count back to the very number that was read before it.
LastArrives == given[Last] = Front(Near) \/ (wipes > 0 /\ seen[Near] = seq[Near])

=============================================================================
