-------------------------------- MODULE Auv2 --------------------------------
(* The AUv2 wrapper: one object, whose parameter store `Globals()` the host, *)
(* the editor, loads and `Render` share.  A host's set goes to a queue, or   *)
(* while bypassed to an epoch that has `Render` restate the store; loads and *)
(* presets off main wait for main.  An offline render may be held back.      *)
EXTENDS StreamSync, Sequences, SequencesExt

CONSTANTS MaxQueue,
          Budgets     \* what the host and the user may still do: calls of each kind

VARIABLES
    ready, globals, kernel, sync, bypass,     \* ready: between Initialize and Cleanup
    queue, changes, needsResync, epoch, seen, \* what waits for Render
    needsClear, offline,
    pendingLoad, pendingPreset,               \* a load, a preset, for main
    latency, reported, pending, accepted, posted,
    names,
    main, pc, block,
    asked, told,                              \* the host: to read the latency, the latency it read
    late, quietly, chosen, applied,           \* history, see the properties
    left

values == <<globals, queue, changes, needsResync, epoch, seen, late>>
loads == <<pendingLoad, pendingPreset, chosen, applied>>
handshake == <<latency, reported, pending, accepted, posted, asked, told, quietly>>
auv2Vars == <<ready, kernel, sync, bypass, needsClear, offline, names, main, pc, block, left, values, loads,
              handshake>>

Calls == {"edit", "set", "load", "reset", "mode", "bypass", "cycle", "note"}
Some(S) == S \cup {None}
Idle == [at |-> "idle", value |-> None]
NoBlock == [reached |-> TRUE, input |-> FALSE, notes |-> <<>>, offline |-> FALSE, resync |-> FALSE,
            skipping |-> FALSE, events |-> <<>>, skip |-> FALSE, proposed |-> None]

TypeOK ==
    /\ ready \in BOOLEAN /\ globals \in Values /\ kernel \in Kernels
    /\ sync \in SyncStates(TRUE) /\ bypass \in BypassStates(Values)
    /\ queue \in BoundedSeq(Values, MaxQueue) /\ changes \in Some(Values)
    /\ epoch \in 0..1 /\ seen \in 0..1 /\ pendingLoad \in Some(Values) /\ pendingPreset \in Some(Values)
    /\ pending \in Some(Values) /\ accepted \in Some(Values) /\ latency \in Values /\ names \subseteq Keys
    /\ main \in [at : {"idle", "set", "edit", "load"}, value : Some(Values)]
    /\ pc \in {"idle", "collect", "sync", "events", "finish"}

Init ==
    /\ ready = FALSE /\ globals = 0 /\ kernel = NewKernel(0) /\ sync = NewSync(TRUE) /\ bypass = NewBypass
    /\ queue = <<>> /\ changes = None /\ needsResync = FALSE /\ epoch = 0 /\ seen = 0
    /\ needsClear = FALSE /\ offline = FALSE /\ pendingLoad = None /\ pendingPreset = None
    /\ latency = 0 /\ reported = 0 /\ pending = None /\ accepted = None /\ posted = FALSE
    /\ names = {} /\ main = Idle /\ pc = "idle" /\ block = NoBlock /\ asked = FALSE /\ told = 0
    /\ late = FALSE /\ quietly = FALSE /\ chosen = None /\ applied = None /\ left \in Budgets

May(call) == left[call] > 0
Spend(call) == May(call) /\ left' = [left EXCEPT ![call] = @ - 1]
MainIsFree == main = Idle

----------------------------------------------------------------------------
(* Initialize, Cleanup and the latency.                                      *)

render == <<sync, needsClear, names, pc, block>>

\* A latency not yet reported is told; the host reads it after Initialize anyway.
Initialize ==
    /\ ~ready /\ MainIsFree /\ ready' = TRUE
    /\ kernel' = Configure(globals) /\ sync' = SyncConfigured(sync)
    /\ latency' = Latency(globals) /\ reported' = Latency(globals) /\ asked' = TRUE
    /\ bypass' = BypassConfigured(bypass, MaxLatency, Latency(globals))
    /\ UNCHANGED <<needsClear, offline, names, main, pc, block, left, values, loads, pending, accepted, posted,
                   told, quietly>>

\* The relay goes with its post, and the handshake is left to the next Initialize.
Cleanup ==
    /\ ready /\ pc = "idle" /\ MainIsFree /\ Spend("cycle") /\ ready' = FALSE
    /\ posted' = FALSE /\ pending' = None /\ accepted' = None /\ quietly' = FALSE
    /\ UNCHANGED <<render, kernel, bypass, offline, main, values, loads, latency, reported, asked, told>>

\* GetLatency, on any thread: whoever asks accepts what is proposed.
GetLatency ==
    /\ asked /\ asked' = FALSE /\ pending' = None
    /\ IF pending = None THEN told' = latency /\ UNCHANGED <<accepted, latency>>
       ELSE told' = pending /\ accepted' = pending /\ latency' = pending
    /\ UNCHANGED <<render, ready, kernel, bypass, offline, main, left, values, loads, reported, posted, quietly>>

\* _relay: PropertyChanged.
TellLatency ==
    /\ posted /\ posted' = FALSE /\ asked' = TRUE
    /\ UNCHANGED <<render, ready, kernel, bypass, offline, main, left, values, loads, latency, reported,
                   pending, accepted, told, quietly>>

Reset == /\ Spend("reset") /\ needsClear' = TRUE
         /\ UNCHANGED <<ready, kernel, sync, bypass, offline, names, main, pc, block, values, loads, handshake>>

\* SetProperty: the offline render mode, and the bypass.
SetOffline == /\ Spend("mode") /\ offline' = ~offline
              /\ UNCHANGED <<render, ready, kernel, bypass, main, values, loads, handshake>>

SetBypass(on) == /\ Spend("bypass") /\ bypass' = SetBypassed(bypass, on)
                 /\ UNCHANGED <<render, ready, kernel, offline, main, values, loads, handshake>>

----------------------------------------------------------------------------
(* Values: the host's sets, the editor's, and loads.                         *)

rest == <<render, ready, kernel, bypass, offline, handshake>>

\* SetParameter and ScheduleParameter: while bypassed the epoch, else the queue, or with it full a resync ...
SetParameter(v) ==
    /\ MainIsFree /\ Spend("set") /\ main' = [at |-> "set", value |-> v]
    /\ IF bypass.wanted THEN epoch' = 1 - seen /\ UNCHANGED <<queue, needsResync>>
       ELSE IF Len(queue) < MaxQueue THEN queue' = Append(queue, v) /\ UNCHANGED <<epoch, needsResync>>
       ELSE needsResync' = TRUE /\ UNCHANGED <<queue, epoch>>
    /\ UNCHANGED <<rest, globals, changes, seen, late, loads>>

\* ... and the store after it.
ParameterStored ==
    /\ main.at = "set" /\ main' = Idle /\ globals' = main.value
    /\ UNCHANGED <<rest, left, queue, changes, needsResync, epoch, seen, late, loads>>

\* The editor's set: the store, then the change list.
Edit(v) ==
    /\ MainIsFree /\ Spend("edit") /\ globals' = v /\ main' = [at |-> "edit", value |-> v]
    /\ UNCHANGED <<rest, queue, changes, needsResync, epoch, seen, late, loads>>

\* _update_state, for a load or a preset, from main.
Apply(v) == globals' = v /\ main' = [at |-> "load", value |-> v] /\ applied' = v

\* What an edit or a load stored reaches the change list.
Changed ==
    /\ main.at \in {"edit", "load"} /\ main' = Idle /\ changes' = main.value
    /\ UNCHANGED <<rest, left, globals, queue, needsResync, epoch, seen, late, loads>>

\* RestoreState and NewFactoryPresetSet on main: at once, in place of what waits.
LoadOnMain(v) ==
    /\ MainIsFree /\ Spend("load") /\ Apply(v) /\ chosen' = v /\ pendingLoad' = None /\ pendingPreset' = None
    /\ UNCHANGED <<rest, queue, changes, needsResync, epoch, seen, late>>

\* RestoreState off main: it replaces a preset that waits.
RestoreState(v) ==
    /\ Spend("load") /\ pendingPreset' = None /\ pendingLoad' = v /\ chosen' = v
    /\ UNCHANGED <<rest, main, values, applied>>

\* NewFactoryPresetSet off main: it replaces a load that waits.
NewFactoryPresetSet(v) ==
    /\ Spend("load") /\ pendingLoad' = None /\ pendingPreset' = v /\ chosen' = v
    /\ UNCHANGED <<rest, main, values, applied>>

\* _apply_pending, from the relay: the load, then the preset.
ApplyPending ==
    /\ MainIsFree
    /\ <<pendingLoad, pendingPreset>> # <<None, None>>
    /\ IF pendingLoad # None THEN Apply(pendingLoad) /\ pendingLoad' = None /\ UNCHANGED pendingPreset
       ELSE Apply(pendingPreset) /\ pendingPreset' = None /\ UNCHANGED pendingLoad
    /\ UNCHANGED <<rest, left, queue, changes, needsResync, epoch, seen, late, chosen>>

----------------------------------------------------------------------------
(* Render, in its order.                                                     *)

still == <<ready, offline, main, left, loads>>

\* The top of a block: the accepted latency; what is to be restated, and whether the bypass skips.
Enter(reached, input, notes) ==
    /\ ready /\ pc = "idle" /\ pc' = "collect" /\ (IF notes = <<>> THEN UNCHANGED left ELSE Spend("note"))
    /\ accepted' = None /\ needsResync' = FALSE /\ seen' = epoch
    /\ kernel' = (IF accepted = None THEN kernel ELSE Adopt(kernel, accepted))
    /\ bypass' = (IF accepted = None THEN bypass ELSE SetLatency(bypass, accepted))
    /\ block' = [NoBlock EXCEPT !.reached = reached, !.input = input, !.notes = notes, !.offline = offline,
                                !.resync = needsResync \/ epoch # seen, !.skipping = CanSkip(bypass)]
    /\ UNCHANGED <<ready, sync, needsClear, offline, names, main, loads, globals, queue, changes, epoch, late,
                   latency, reported, pending, posted, asked, told, quietly>>

One(v) == IF v = None THEN <<>> ELSE <<v>>
Sets(vs) == [i \in DOMAIN vs |-> [kind |-> "set", value |-> vs[i]]]

\* Mutant: the queue is discarded, and nothing restated.
CollectedNot == IF block.resync THEN <<>> ELSE One(changes) \o queue

\* The store in place of what waits, or what waits: the changes, then the queue.
Collected == IF block.resync THEN <<globals>> ELSE One(changes) \o queue

Collect ==
    /\ pc = "collect" /\ pc' = "sync" /\ queue' = <<>> /\ changes' = None
    /\ block' = [block EXCEPT !.events = Sets(Collected)]
    /\ UNCHANGED <<still, kernel, sync, bypass, needsClear, names, globals, needsResync, epoch, seen, late,
                   handshake>>

FactsOf == [hostReset |-> needsClear, offline |-> block.offline, skipping |-> block.skipping,
            reached |-> block.reached, content |-> block.input \/ block.notes # <<>>, frames |-> 1]
RestartValue == IF block.events = <<>> THEN globals ELSE Last(block.events).value

\* The value every write under way or delivered leaves behind.
Meant == IF main.at = "set" THEN main.value ELSE globals

Named == {n.value : n \in {m \in Range(block.notes) : m.kind = "on"}}

\* Notes are named after the restart, which forgets the ones before it.
NamesAfter(plan) == IF plan = "hold" THEN names ELSE (IF plan = "stream" THEN {} ELSE names) \cup Named

\* A restart where the input is discontinuous.  A hold ends the block here, its events dropped: the store
\* has them.
Restarted ==
    /\ pc = "sync" /\ needsClear' = FALSE /\ sync' = SyncNext(sync, FactsOf)
    /\ LET plan == SyncPlan(sync, FactsOf)
           b == IF plan = "stream" THEN Snap(bypass) ELSE bypass
           final == IF block.events # <<>> THEN Last(block.events).value
                    ELSE IF plan \in {"stream", "resume"} THEN globals ELSE kernel.value
       IN /\ pc' = IF plan = "hold" THEN "idle" ELSE "events"
          /\ kernel' = (IF plan = "hold" THEN Miss(kernel)
                        ELSE IF plan = "none" THEN kernel ELSE Restart(kernel, RestartValue))
          /\ bypass' = b
          /\ names' = NamesAfter(plan)
          /\ block' = IF plan = "hold" THEN NoBlock
                      ELSE [block EXCEPT !.events = @ \o block.notes, !.skip = CanSkip(b)]
          /\ late' = (IF block.events = <<>> /\ plan = "none" THEN late ELSE final # Meant)
    /\ UNCHANGED <<still, globals, queue, changes, needsResync, epoch, seen, handshake>>

\* The events, in their order.
EventAt ==
    /\ pc = "events" /\ block.events # <<>> /\ block' = [block EXCEPT !.events = Tail(@)]
    /\ LET e == Head(block.events) IN
       /\ kernel' = CASE e.kind = "set" -> Set(kernel, e.value)
                      [] e.kind = "on" -> NoteOn(kernel, e.value)
                      [] e.kind = "off" -> IF e.value \in names THEN NoteOff(kernel, e.value) ELSE kernel
       /\ names' = IF e.kind = "off" THEN names \ {e.value} ELSE names
    /\ UNCHANGED <<still, sync, bypass, needsClear, pc, values, handshake>>

Rest ==
    /\ pc = "events" /\ block.events = <<>> /\ pc' = "finish"
    /\ kernel' = IF block.skip THEN Miss(kernel) ELSE Hear(kernel)
    /\ block' = [block EXCEPT !.proposed =
                    IF ~block.skip /\ Proposal(kernel) # None /\ Admits(bypass, Proposal(kernel))
                    THEN Proposal(kernel) ELSE None]
    /\ UNCHANGED <<still, sync, bypass, needsClear, names, values, handshake>>

\* The bypass's pass over the block, and a latency not yet reported: told through the relay, but not in a
\* bounce.
Finish ==
    /\ pc = "finish" /\ pc' = "idle" /\ block' = NoBlock /\ bypass' = BypassProcessed(bypass, TRUE)
    /\ IF block.proposed \notin {None, reported}
       THEN /\ pending' = block.proposed /\ reported' = block.proposed
            /\ posted' = (posted \/ ~block.offline) /\ quietly' = block.offline
       ELSE UNCHANGED <<pending, reported, posted, quietly>>
    /\ UNCHANGED <<still, kernel, sync, needsClear, names, values, latency, accepted, asked, told>>

----------------------------------------------------------------------------

Notes == {<<>>} \cup {<<[kind |-> k, value |-> key]>> : k \in {"on", "off"}, key \in Keys}
Blocks == \E reached \in BOOLEAN : Enter(reached, FALSE, <<>>)
Working == Collect \/ Restarted \/ EventAt \/ Rest \/ Finish

Next ==
    \/ Initialize \/ Cleanup \/ GetLatency \/ TellLatency \/ Reset \/ SetOffline
    \/ \E on \in BOOLEAN : SetBypass(on)
    \/ \E v \in Values : SetParameter(v) \/ Edit(v) \/ LoadOnMain(v) \/ RestoreState(v) \/ NewFactoryPresetSet(v)
    \/ ParameterStored \/ Changed \/ ApplyPending
    \/ \E reached, input \in BOOLEAN, notes \in Notes : (reached => ~input) /\ Enter(reached, input, notes)
    \/ Working

\* Blocks keep coming, at whatever positions; calls end; the relays deliver; the host reads the
\* latency it is told of and initializes again.
Spec == Init /\ [][Next]_auv2Vars
        /\ WF_auv2Vars(Working) /\ SF_auv2Vars(Blocks) /\ WF_auv2Vars(ParameterStored \/ Changed)
        /\ WF_auv2Vars(Initialize) /\ SF_auv2Vars(ApplyPending) /\ WF_auv2Vars(TellLatency) /\ WF_auv2Vars(GetLatency)

----------------------------------------------------------------------------

Settled == ready /\ pc = "idle" /\ MainIsFree /\ queue = <<>> /\ changes = None /\ ~needsResync /\ epoch = seen
           /\ ~sync.edge /\ ~sync.pending

\* The processor runs with the value in the store, once what was sent to it has been delivered, unless what
\* was delivered last was not what was stored last.
ValuesAgree == Settled /\ ~late => kernel.value = globals

\* While the processor runs, its latency is the dry signal's, and the one the wrapper answers with but for
\* one just accepted.
LatencyAgrees == pc \in {"events", "finish"} => /\ kernel.latency = bypass.latency
                                                /\ kernel.latency = latency \/ accepted # None

\* The processor never runs on with what it remembers of before a gap or a hold, and the output it leaves
\* unwritten when it is skipped is never read.
NoStaleRun == /\ pc = "events" /\ ~block.skip => kernel.past # "stale"
              /\ pc = "finish" /\ block.skip => Branch(bypass) = "dry"

\* A note the processor sounds, the host can end.
NotesHeld == kernel.voices \subseteq names

\* Of the loads and presets asked for, on main and off it, the last is the one that stays.
LastLoadStays == pendingLoad = None /\ pendingPreset = None => applied = chosen

\* A latency the processor wants, and that no bounce swallowed, is the one it runs with in the end, and the
\* one the host last read.
LatencyLanded ==
    quietly \/ CanSkip(bypass) \/ (kernel.latency = Latency(kernel.value) /\ told = latency)

=============================================================================
