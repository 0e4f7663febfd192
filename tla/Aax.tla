--------------------------------- MODULE Aax ---------------------------------
(* The AAX wrapper: the data model (the host's parameters, the chunks) and   *)
(* the algorithm, which share no memory.  Values and host state reach the    *)
(* algorithm as packets, a reset rebuilds it from a snapshot, and what it    *)
(* proposes returns through a ring the Direct Data timer drains.             *)
EXTENDS StreamSync, Sequences, SequencesExt

CONSTANTS MaxPackets, RingSize,
          Chunks,     \* what a session may load
          Budgets     \* what the host and the user may still do: calls of each kind

VARIABLES
    params, mirror, revision,                 \* the host's parameters, the copy chunks are built from
    dirty, segment,                           \* coefficients to post, the last ones posted
    runtime, runtimeDirty,                    \* the host's state, to post
    posted, coefs, runtimePort,               \* packets on their way, and what the ports hold
    alg, ring,                                \* the algorithm's private data, and the ring out of it
    signal, notices, awaited, direct,         \* the host's latency, its notices; the timer's step
    main, pendingLoad, cached, saver,         \* chunks
    counted, chosen, crossed,                 \* history, see the properties
    left

model == <<params, mirror, revision, counted, dirty, segment, runtimeDirty>>
ports == <<posted, coefs, runtimePort>>
latencies == <<ring, signal, notices, awaited, direct, crossed>>
chunks == <<main, pendingLoad, cached, saver, chosen>>
aaxVars == <<model, runtime, ports, alg, latencies, chunks, left>>

Calls == {"auto", "load", "save", "bypass", "cycle", "pdc", "mode", "note"}
Some(S) == S \cup {None}
Settings == [value : Values, bypassed : BOOLEAN]
NoRuntime == [seq |-> 0, accepted |-> 0, offline |-> FALSE, pdc |-> TRUE]
NoAlg == [made |-> FALSE, kernel |-> NewKernel(0), bypass |-> NewBypass, names |-> {}, seen |-> None,
          coefSeq |-> 0, latSeq |-> 0, reported |-> 0, offline |-> FALSE, skipped |-> FALSE]
Idle == [todo |-> <<>>, chunk |-> None]

TypeOK ==
    /\ params \in Settings /\ mirror \in Settings /\ dirty \in BOOLEAN
    /\ segment.settings \in Settings /\ coefs.settings \in Settings /\ Len(posted) <= MaxPackets
    /\ alg.kernel \in Kernels /\ alg.bypass \in BypassStates(Values) /\ alg.names \subseteq Keys
    /\ alg.seen \in Some(Values) /\ alg.reported \in Values
    /\ ring \in BoundedSeq(Values, RingSize) /\ signal \in Values /\ notices \in BOOLEAN /\ awaited \in BOOLEAN
    /\ direct \in {"idle", "flag"} /\ pendingLoad \in Some(Chunks)

Init ==
    /\ params = [value |-> 0, bypassed |-> FALSE] /\ mirror = params /\ revision = 1 /\ counted = mirror
    /\ dirty = TRUE /\ segment = [seq |-> 0, settings |-> params] /\ runtime = NoRuntime /\ runtimeDirty = TRUE
    /\ posted = <<>> /\ coefs = [seq |-> 0, settings |-> params] /\ runtimePort = NoRuntime
    /\ alg = NoAlg /\ ring = <<>> /\ signal = 0 /\ notices = FALSE /\ awaited = FALSE /\ direct = "idle"
    /\ main = Idle /\ pendingLoad = None /\ cached = None /\ saver = None
    /\ chosen = None /\ crossed = FALSE /\ left \in Budgets

May(call) == left[call] > 0
Spend(call) == May(call) /\ left' = [left EXCEPT ![call] = @ - 1]
MainIsFree == main = Idle

----------------------------------------------------------------------------
(* The data model: parameters and packets.                                   *)

algorithm == <<alg, latencies>>

\* UpdateParameterNormalizedValue: the parameter and its mirror, then the revision.
Update == <<"value", "revision">>
UpdateParameter(v) ==
    /\ MainIsFree /\ Spend("auto")
    /\ main' = [todo |-> Update, chunk |-> [params EXCEPT !.value = v]]
    /\ chosen' = IF pendingLoad = None THEN None ELSE chosen
    /\ UNCHANGED <<model, runtime, ports, algorithm, pendingLoad, cached, saver>>

UpdateBypass(on) ==
    /\ MainIsFree /\ Spend("bypass")
    /\ main' = [todo |-> <<"bypassed", "revision">>, chunk |-> [params EXCEPT !.bypassed = on]]
    /\ chosen' = IF pendingLoad = None THEN None ELSE chosen
    /\ UNCHANGED <<model, runtime, ports, algorithm, pendingLoad, cached, saver>>

Moved(main2) == IF main2.todo = <<>> THEN Idle ELSE main2

\* What a save that is being built could have read: each state the mirror has since it began.
Watched == IF saver # None /\ "key" \in DOMAIN saver THEN [saver EXCEPT !.said = @ \cup {mirror'}] ELSE saver

\* Mutant: the revision is counted before the mirror moves.
CountsFirst ==
    /\ main.todo # <<>> /\ main' = Moved([main EXCEPT !.todo = Tail(@)])
    /\ IF Head(main.todo) = "revision"
       THEN mirror' = params /\ saver' = Watched /\ UNCHANGED <<revision, counted, params, dirty>>
       ELSE LET field == Head(main.todo) IN
            /\ params' = [params EXCEPT ![field] = main.chunk[field]] /\ revision' = revision + 1
            /\ counted' = mirror /\ dirty' = TRUE /\ UNCHANGED <<mirror, saver>>
    /\ UNCHANGED <<segment, runtimeDirty, runtime, ports, algorithm, pendingLoad, cached, chosen, left>>

\* A load is a parameter's update, the bypass's, and the whole mirror again.
UpdateStep ==
    /\ main.todo # <<>> /\ main' = Moved([main EXCEPT !.todo = Tail(@)])
    /\ IF Head(main.todo) = "revision"
       THEN revision' = revision + 1 /\ counted' = mirror /\ UNCHANGED <<params, mirror, dirty, saver>>
       ELSE LET field == Head(main.todo) IN
            /\ params' = [params EXCEPT ![field] = main.chunk[field]]
            /\ mirror' = [mirror EXCEPT ![field] = main.chunk[field]]
            /\ dirty' = TRUE /\ saver' = Watched /\ UNCHANGED <<revision, counted>>
    /\ UNCHANGED <<segment, runtimeDirty, runtime, ports, algorithm, pendingLoad, cached, chosen, left>>

\* GenerateCoefficients: what is dirty is posted.
GenerateCoefficients ==
    /\ MainIsFree /\ <<dirty, runtimeDirty>> # <<FALSE, FALSE>> /\ Len(posted) + 1 < MaxPackets
    /\ LET new == [seq |-> segment.seq + 1, settings |-> params]
           first == IF runtimeDirty THEN <<[runtime |-> runtime]>> ELSE <<>>
       IN IF dirty THEN segment' = new /\ posted' = posted \o first \o <<[coefs |-> new]>>
                   ELSE UNCHANGED segment /\ posted' = posted \o first
    /\ dirty' = FALSE /\ runtimeDirty' = FALSE
    /\ UNCHANGED <<params, mirror, revision, counted, runtime, coefs, runtimePort, algorithm, chunks, left>>

\* TimerWakeup: the runtime packet, and a load that waits.
TimerWakeup ==
    /\ MainIsFree /\ <<runtimeDirty, pendingLoad>> # <<FALSE, None>> /\ Len(posted) < MaxPackets
    /\ runtimeDirty' = FALSE /\ posted' = IF runtimeDirty THEN Append(posted, [runtime |-> runtime]) ELSE posted
    /\ pendingLoad' = None
    /\ main' = IF pendingLoad = None THEN main
               ELSE [todo |-> Update \o <<"bypassed", "revision", "revision">>, chunk |-> pendingLoad]
    /\ UNCHANGED <<params, mirror, revision, counted, dirty, segment, runtime, coefs, runtimePort, algorithm,
                   cached, saver, chosen, left>>

\* SetChunk, on main or off it.
SetChunk(chunk) ==
    /\ MainIsFree /\ Spend("load") /\ pendingLoad' = None /\ chosen' = chunk
    /\ main' = [todo |-> Update \o <<"bypassed", "revision", "revision">>, chunk |-> chunk]
    /\ UNCHANGED <<model, runtime, ports, algorithm, cached, saver>>

SetChunkElsewhere(chunk) ==
    /\ Spend("load") /\ pendingLoad' = chunk /\ chosen' = chunk
    /\ UNCHANGED <<model, runtime, ports, algorithm, main, cached, saver>>

\* The host delivers packets in the order they were posted.
Deliver ==
    /\ posted # <<>> /\ posted' = Tail(posted)
    /\ IF "runtime" \in DOMAIN Head(posted) THEN runtimePort' = Head(posted).runtime /\ UNCHANGED coefs
                                            ELSE coefs' = Head(posted).coefs /\ UNCHANGED runtimePort
    /\ UNCHANGED <<model, runtime, algorithm, chunks, left>>

----------------------------------------------------------------------------
(* GetChunkSize and GetChunk, off main: the load that waits, the cached      *)
(* chunk while its key holds, or one built from the mirror.                  *)

savers == <<model, runtime, ports, algorithm, main, pendingLoad, chosen>>

GetChunkSize ==
    /\ saver = None /\ Spend("save") /\ UNCHANGED <<savers, cached>>
    /\ LET after == IF MainIsFree THEN chosen ELSE None IN
       saver' = IF pendingLoad # None THEN [image |-> pendingLoad, said |-> {pendingLoad}, after |-> chosen]
                ELSE IF cached # None /\ cached.key = revision
                     THEN [image |-> cached.image, said |-> {counted, mirror}, after |-> after]
                ELSE [key |-> revision, value |-> mirror.value, said |-> {mirror}, after |-> after]

BuildChunk ==
    /\ saver # None /\ "key" \in DOMAIN saver
    /\ LET image == [value |-> saver.value, bypassed |-> mirror.bypassed]
       IN /\ cached' = [image |-> image, key |-> saver.key]
          /\ saver' = [image |-> image, said |-> saver.said, after |-> saver.after]
    /\ UNCHANGED <<savers, left>>

\* The image this thread sized.
GetChunk == /\ saver # None /\ "image" \in DOMAIN saver /\ saver' = None /\ UNCHANGED <<savers, cached, left>>

----------------------------------------------------------------------------
(* Notifications, and the Direct Data timer.                                 *)

host == <<model, ports, chunks>>

Runtime(new) == /\ runtime' = new /\ runtimeDirty' = TRUE
                /\ UNCHANGED <<params, mirror, revision, counted, dirty, segment, ports, alg, chunks>>

\* _drain_returns and SetCustomData: the latency is proposed, then an answer is awaited.
DrainReturns ==
    /\ direct = "idle" /\ ring # <<>> /\ signal' = Head(ring) /\ notices' = TRUE /\ direct' = "flag"
    /\ UNCHANGED <<host, runtime, alg, ring, awaited, crossed, left>>

AwaitAnswer ==
    /\ direct = "flag" /\ direct' = "idle" /\ awaited' = TRUE /\ ring' = Tail(ring)
    /\ UNCHANGED <<host, runtime, alg, signal, notices, crossed, left>>

\* SignalLatencyChanged: what the host took is read back, if it is awaited.
SignalLatencyChanged ==
    /\ notices /\ notices' = FALSE /\ awaited' = FALSE /\ crossed' = (crossed \/ ~awaited)
    /\ IF awaited THEN Runtime([runtime EXCEPT !.accepted = signal, !.seq = @ + 1])
                  ELSE UNCHANGED <<host, runtime, alg>>
    /\ UNCHANGED <<ring, signal, direct, left>>

DelayCompensationState == /\ Spend("pdc") /\ Runtime([runtime EXCEPT !.pdc = ~@]) /\ UNCHANGED latencies
OfflineMode == /\ Spend("mode") /\ Runtime([runtime EXCEPT !.offline = ~@]) /\ UNCHANGED latencies

----------------------------------------------------------------------------
(* The algorithm.                                                            *)

Pushed(queue, samples) == IF Len(queue) < RingSize THEN Append(queue, samples) ELSE queue

\* ResetFieldData: the snapshot a reset is given, of the parameters as they are now.
Snapshot == [runtime |-> runtime, seq |-> segment.seq, settings |-> params]

\* construct_instance: the private data was wiped and is made anew, or it survives the reset.
Constructed(wiped) == [(IF wiped THEN NoAlg ELSE alg) EXCEPT !.made = TRUE]

\* adopt_reset_state: the latency the host accepted, if it answered, and the values.
Adopted(a, snapshot) ==
    LET answered == snapshot.runtime.seq # 0 IN
    [a EXCEPT !.seen = snapshot.settings.value, !.bypass = SetBypassed(@, snapshot.settings.bypassed),
              !.coefSeq = snapshot.seq, !.offline = snapshot.runtime.offline,
              !.latSeq = IF answered THEN snapshot.runtime.seq ELSE @,
              !.reported = IF answered THEN snapshot.runtime.accepted ELSE @]

\* alg_init: the instance is configured for the snapshot, and a latency the host does not hold proposed.
InitInstance(wiped) ==
    /\ (alg.made => Spend("cycle")) /\ (~alg.made => wiped /\ UNCHANGED left) /\ direct = "idle"
    /\ LET a == Adopted(Constructed(wiped), Snapshot)
           l == Latency(a.seen)
           r0 == IF wiped THEN <<>> ELSE ring
       IN /\ ring' = IF l # a.reported THEN Pushed(r0, l) ELSE r0
          /\ alg' = [a EXCEPT !.kernel = Configure(a.seen), !.bypass = BypassConfigured(@, MaxLatency, l),
                              !.reported = IF ring' # r0 THEN l ELSE @]
    /\ crossed' = (<<notices, awaited>> # <<FALSE, FALSE>> \/ (~wiped /\ ring # <<>>))
    /\ UNCHANGED <<host, runtime, signal, notices, awaited, direct>>

Answered(a) == runtimePort.seq # 0 /\ runtimePort.seq # a.latSeq

\* render_instance: the latency the host accepted ...
Accepts(a) ==
    IF ~Answered(a) THEN a
    ELSE [a EXCEPT !.latSeq = runtimePort.seq, !.kernel = Adopt(@, runtimePort.accepted),
                   !.bypass = SetLatency(@, runtimePort.accepted)]

\* ... apply_coefs, which diffs a new segment against what was seen ...
Applies(a) ==
    IF coefs.seq = a.coefSeq THEN a
    ELSE [a EXCEPT !.coefSeq = coefs.seq, !.seen = coefs.settings.value,
                   !.kernel = IF coefs.settings.value = a.seen THEN @ ELSE Set(@, coefs.settings.value),
                   !.bypass = SetBypassed(@, coefs.settings.bypassed)]

\* ... a restart after a skip ...
Resumes(a) ==
    [a EXCEPT !.skipped = CanSkip(a.bypass),
              !.kernel = IF a.skipped /\ ~CanSkip(a.bypass) THEN Restart(@, a.seen) ELSE @]

\* ... the notes, and the block around them ...
Plays(a, note) ==
    IF note = None THEN a
    ELSE IF note[1] = "on" THEN [a EXCEPT !.kernel = NoteOn(@, note[2]), !.names = @ \cup {note[2]}]
    ELSE [a EXCEPT !.kernel = IF note[2] \in a.names THEN NoteOff(@, note[2]) ELSE @, !.names = @ \ {note[2]}]
Heard(a) == [a EXCEPT !.kernel = IF CanSkip(a.bypass) THEN Miss(@) ELSE Hear(@), !.bypass = BypassProcessed(@, TRUE)]

Proposed(a) == IF CanSkip(a.bypass) THEN None ELSE Proposal(a.kernel)

\* ... and a proposal, counted as made once the ring has taken it.
Render(note) ==
    /\ alg.made /\ (IF note = None THEN UNCHANGED left ELSE Spend("note"))
    /\ \E a \in {Plays(Resumes(Applies(Accepts(alg))), note)} :
       LET wants == Proposed(a) \notin {None, a.reported} /\ Admits(a.bypass, Proposed(a)) /\ runtimePort.pdc
       IN /\ ring' = IF wants THEN Pushed(ring, Proposed(a)) ELSE ring
          /\ alg' = [Heard(a) EXCEPT !.reported = IF ring' # ring THEN Proposed(a) ELSE @]
    /\ UNCHANGED <<host, runtime, signal, notices, awaited, direct, crossed>>

----------------------------------------------------------------------------

\* The host makes an algorithm at first.
FirstInit == ~alg.made /\ InitInstance(TRUE)
Working == UpdateStep \/ BuildChunk \/ GetChunk \/ AwaitAnswer

Next ==
    \/ \E v \in Values : UpdateParameter(v)
    \/ \E on \in BOOLEAN : UpdateBypass(on) \/ InitInstance(on)
    \/ \E chunk \in Chunks : SetChunk(chunk) \/ SetChunkElsewhere(chunk)
    \/ GenerateCoefficients \/ TimerWakeup \/ Deliver \/ GetChunkSize
    \/ DrainReturns \/ SignalLatencyChanged \/ DelayCompensationState \/ OfflineMode
    \/ \E note \in {None} \cup ({"on", "off"} \X Keys) : Render(note)
    \/ Working

\* Calls end, both timers run, the host delivers packets and notices, and blocks keep coming.
Spec == Init /\ [][Next]_aaxVars
        /\ WF_aaxVars(UpdateStep) /\ WF_aaxVars(AwaitAnswer) /\ WF_aaxVars(DrainReturns)
        /\ SF_aaxVars(TimerWakeup) /\ SF_aaxVars(GenerateCoefficients) /\ WF_aaxVars(Deliver)
        /\ WF_aaxVars(SignalLatencyChanged) /\ WF_aaxVars(Render(None)) /\ WF_aaxVars(FirstInit)

----------------------------------------------------------------------------

Settled == alg.made /\ MainIsFree /\ ~dirty /\ posted = <<>> /\ alg.coefSeq = coefs.seq

\* With every packet applied, the algorithm runs with the host's value and bypass, resets included.
ValuesAgree == Settled => alg.kernel.value = params.value /\ alg.bypass.wanted = params.bypassed

\* The processor's latency is the dry signal's, and with no proposal and no answer on its way it is what the host took,
\* whichever resets, late packets and crossed notices came before.
LatencyAgrees ==
    alg.made => /\ alg.kernel.latency = alg.bypass.latency
                /\ \/ ring # <<>> \/ direct # "idle" \/ awaited
                   \/ runtime.seq # runtimePort.seq \/ Answered(alg)
                   \/ alg.kernel.latency = signal

\* What the processor remembers is never of before a gap it did not hear.
NoStaleRun == alg.made /\ ~alg.skipped => alg.kernel.past # "stale" \/ CanSkip(alg.bypass)

\* A note the processor sounds can be ended by the host.
NotesHeld == alg.made => alg.kernel.voices \subseteq alg.names

\* A cached chunk whose key still holds is what the parameters say.
CacheHonest == MainIsFree /\ cached # None => (cached.key = revision => cached.image = mirror)

\* pending_load.hpp: "a save straight after a load returns what was loaded", where main changed nothing meanwhile.
\* One that main moves under (a load it has taken and not finished, an edit, a bypass) may be of both: each of its
\* values is one the state had between its beginning and its end, or before a count that had still to come.
SaveAfterLoad ==
    saver # None /\ "image" \in DOMAIN saver =>
        /\ \A f \in {"value", "bypassed"} : \E s \in saver.said : saver.image[f] = s[f]
        /\ \A s \in saver.said : saver.said = {s} /\ saver.after # None => saver.image = saver.after

\* Whatever loads come, on main and off it, the one asked for last waits or is what the parameters say, until
\* something else changes them.
LastLoadStays == MainIsFree /\ chosen # None => (IF pendingLoad # None THEN pendingLoad ELSE mirror) = chosen

\* A latency the processor wants is the one it runs with in the end, if the host compensates at all, unless
\* the host's notice came before it was awaited, or its answer crossed a reset.
LatencyLanded ==
    crossed \/ ~runtime.pdc \/ CanSkip(alg.bypass) \/ alg.kernel.latency = Latency(alg.kernel.value)

=============================================================================
