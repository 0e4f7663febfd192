-------------------------------- MODULE Auv3 --------------------------------
(* The AUv3 wrapper: the audio unit, and its kernel with a copy of the host  *)
(* values.  Every set off the render thread goes through `setParameter`; a   *)
(* render is cut into slices at its events, and each slice is a process call *)
(* of the kernel, its bypass pass included.                                  *)
EXTENDS StreamSync, Sequences, SequencesExt

CONSTANT Budgets     \* what the host and the user may still do: calls of each kind

VARIABLES
    ready, hostValue, kernel, sync, bypass,   \* ready: render resources are allocated
    changes, needsClear, offline,
    pendingLoad,                              \* a load that waits for main
    latency, reported, pending, accepted, posted,
    answer,                                   \* the latency the property holds, as observers know it
    names,
    main, pc, block,
    asked, told,                              \* the host: to read the latency, the latency it read
    late, quietly, raced, chosen, applied, switched, \* history, see the properties
    left

values == <<hostValue, changes, late>>
loads == <<pendingLoad, chosen, applied>>
handshake == <<latency, reported, pending, accepted, posted, answer, asked, told, quietly, raced>>
auv3Vars == <<ready, kernel, sync, bypass, needsClear, offline, names, main, pc, block, switched, left,
              values, loads, handshake>>

Calls == {"set", "auto", "load", "reset", "mode", "bypass", "cycle", "note"}
Some(S) == S \cup {None}
Idle == [at |-> "idle", value |-> None]
NoBlock == [at |-> 0, events |-> <<>>, skip |-> FALSE]
BlockFrames == 2

TypeOK ==
    /\ ready \in BOOLEAN /\ hostValue \in Values /\ kernel \in Kernels
    /\ sync \in SyncStates(FALSE) /\ bypass \in BypassStates(Values)
    /\ changes \in Some(Values) /\ pendingLoad \in Some(Values)
    /\ pending \in Some(Values) /\ accepted \in Some(Values) /\ latency \in Values /\ answer \in Values
    /\ names \subseteq Keys /\ main \in [at : {"idle", "set"}, value : Some(Values)]
    /\ pc \in {"idle", "slice"} /\ block.at \in 0..BlockFrames

Init ==
    /\ ready = FALSE /\ hostValue = 0 /\ kernel = NewKernel(0) /\ sync = NewSync(FALSE) /\ bypass = NewBypass
    /\ changes = None /\ needsClear = FALSE /\ offline = FALSE /\ pendingLoad = None
    /\ latency = 0 /\ reported = 0 /\ pending = None /\ accepted = None /\ posted = FALSE /\ answer = 0
    /\ names = {} /\ main = Idle /\ pc = "idle" /\ block = NoBlock /\ asked = FALSE /\ told = 0
    /\ late = FALSE /\ quietly = FALSE /\ raced = FALSE /\ chosen = None /\ applied = None /\ switched = FALSE
    /\ left \in Budgets

May(call) == left[call] > 0
Spend(call) == May(call) /\ left' = [left EXCEPT ![call] = @ - 1]
MainIsFree == main = Idle

----------------------------------------------------------------------------
(* Main: render resources, and the latency.                                  *)

render == <<sync, needsClear, names, pc, block, switched>>

\* updateReportedLatency, given what the kernel has: observers are told of a change, and read it.
Report(known) == /\ answer' = known /\ asked' = (asked \/ answer # known)

\* DSPKernel::initialize: configured for the host values it holds, and what the host is about to be told.
Initialized ==
    LET samples == Latency(hostValue) IN
    /\ kernel' = Configure(hostValue) /\ sync' = SyncConfigured(sync)
    /\ latency' = samples /\ reported' = samples /\ bypass' = BypassConfigured(bypass, MaxLatency, samples)

\* deInitialize: a proposal outstanding is of a configuration that ends; the names go.
DeInitialized == pending' = None /\ accepted' = None /\ names' = {}

\* allocateRenderResources: the kernel is initialized and its latency reported.
Allocate ==
    /\ ~ready /\ MainIsFree /\ ready' = TRUE /\ switched' = FALSE
    /\ Initialized /\ Report(Latency(hostValue))
    /\ UNCHANGED <<needsClear, offline, names, main, pc, block, left, values, loads, pending, accepted, posted,
                   told, quietly, raced>>

\* deallocateRenderResources: the relay stops, the handshake and the names are cleared.
Deallocate ==
    /\ ready /\ pc = "idle" /\ MainIsFree /\ Spend("cycle") /\ ready' = FALSE /\ DeInitialized
    /\ posted' = FALSE /\ quietly' = FALSE /\ raced' = FALSE
    /\ UNCHANGED <<sync, needsClear, pc, block, switched, kernel, bypass, offline, main, values, loads, latency,
                   reported, answer, asked, told>>

\* _relay: the proposal is peeked at, and reported.
TellLatency ==
    /\ posted /\ MainIsFree /\ posted' = FALSE /\ Report(IF pending = None THEN latency ELSE pending)
    /\ UNCHANGED <<render, ready, kernel, bypass, offline, main, left, values, loads, latency, reported,
                   pending, accepted, told, quietly, raced>>

\* Mutant: reading the latency accepts nothing.
ReadsOnly ==
    /\ asked /\ asked' = FALSE /\ told' = answer
    /\ UNCHANGED <<render, ready, kernel, bypass, offline, main, left, values, loads, reported, posted, answer,
                   quietly, raced, pending, accepted, latency>>

\* The latency getter: a host that reads it accepts what is proposed.
ReadLatency ==
    /\ asked /\ asked' = FALSE /\ told' = answer /\ pending' = None
    /\ raced' = (raced \/ pending \notin {None, answer})
    /\ IF pending = None THEN UNCHANGED <<accepted, latency>> ELSE accepted' = pending /\ latency' = pending
    /\ UNCHANGED <<render, ready, kernel, bypass, offline, main, left, values, loads, reported, posted, answer,
                   quietly>>

Reset == /\ Spend("reset") /\ needsClear' = TRUE
         /\ UNCHANGED <<ready, kernel, sync, bypass, offline, names, main, pc, block, switched, values, loads,
                        handshake>>

SetRenderingOffline == /\ Spend("mode") /\ offline' = ~offline
                       /\ UNCHANGED <<render, ready, kernel, bypass, main, values, loads, handshake>>

SetBypass(on) == /\ Spend("bypass") /\ bypass' = SetBypassed(bypass, on)
                 /\ UNCHANGED <<render, ready, kernel, offline, main, values, loads, handshake>>

----------------------------------------------------------------------------
(* Values off the render thread.                                             *)

rest == <<render, ready, kernel, bypass, offline, handshake>>

\* DSPKernel::setParameter: the change list, and then the host values.
Change(v) == changes' = v /\ main' = [at |-> "set", value |-> v]

\* The parameter tree's observer, for the host and for the editor.
SetParameter(v) ==
    /\ MainIsFree /\ Spend("set") /\ Change(v) /\ UNCHANGED <<rest, hostValue, late, loads>>

ParameterStored ==
    /\ main.at = "set" /\ main' = Idle /\ hostValue' = main.value
    /\ UNCHANGED <<rest, left, changes, late, loads>>

\* setFullState on main: at once, in place of what waits.
LoadOnMain(v) ==
    /\ MainIsFree /\ Spend("load") /\ Change(v) /\ applied' = v /\ chosen' = v /\ pendingLoad' = None
    /\ UNCHANGED <<rest, hostValue, late>>

\* setFullState off main.
SetFullState(v) ==
    /\ Spend("load") /\ pendingLoad' = v /\ chosen' = v /\ UNCHANGED <<rest, main, values, applied>>

\* applyPendingState, from the relay.
ApplyPending ==
    /\ MainIsFree /\ pendingLoad # None /\ Change(pendingLoad) /\ applied' = pendingLoad /\ pendingLoad' = None
    /\ UNCHANGED <<rest, left, hostValue, late, chosen>>

----------------------------------------------------------------------------
(* A render: begin_block, then the slices.                                   *)

still == <<ready, offline, main, left, loads>>

Costs(events) == IF events = <<>> THEN UNCHANGED left
                 ELSE Spend(IF events[1].kind \in {"on", "off"} THEN "note" ELSE "auto")

Facts3 == [hostReset |-> needsClear, offline |-> offline, skipping |-> CanSkip(bypass),
           reached |-> TRUE, content |-> FALSE, frames |-> BlockFrames]
AtStart(events) == {i \in DOMAIN events : events[i].kind = "set" /\ events[i].time = 0}
RestartValue(events) == IF AtStart(events) = {} THEN hostValue ELSE events[Max(AtStart(events))].value

Meant == IF main.at = "set" THEN main.value ELSE hostValue

\* begin_block: the accepted latency, the changes, and a restart where the input is discontinuous.
BeginBlock(events) ==
    /\ ready /\ pc = "idle" /\ pc' = "slice" /\ Costs(events) /\ needsClear' = FALSE
    /\ accepted' = None /\ changes' = None /\ sync' = SyncNext(sync, Facts3)
    /\ LET plan == SyncPlan(sync, Facts3)
           k1 == IF accepted = None THEN kernel ELSE Adopt(kernel, accepted)
           k2 == IF changes = None THEN k1 ELSE Set(k1, changes)
           k3 == IF plan = "none" THEN k2 ELSE Restart(k2, RestartValue(events))
           b1 == IF accepted = None THEN bypass ELSE SetLatency(bypass, accepted)
           b2 == IF plan = "stream" THEN Snap(b1) ELSE b1
       IN /\ kernel' = k3 /\ bypass' = b2
          /\ block' = [at |-> 0, events |-> events, skip |-> CanSkip(b2)]
          /\ names' = IF plan = "stream" THEN {} ELSE names
          /\ late' = (IF changes = None /\ plan = "none" THEN late ELSE k3.value # Meant)
          /\ switched' = (switched /\ plan = "none")
    /\ UNCHANGED <<ready, offline, main, loads, hostValue, latency, reported, pending, posted, answer, asked,
                   told, quietly, raced>>

\* process(), for the frames up to `until`: skipped or run, the bypass's pass, and a latency proposed.
Slice(until) ==
    LET skips == CanSkip(bypass)
        proposed == IF skips THEN None ELSE Proposal(kernel)
        tells == proposed \notin {None, reported} /\ Admits(bypass, proposed)
    IN /\ kernel' = (IF skips THEN Miss(kernel) ELSE Hear(kernel)) /\ bypass' = BypassProcessed(bypass, TRUE)
       /\ switched' = (switched \/ (until < BlockFrames /\ CanSkip(BypassProcessed(bypass, TRUE)) # block.skip))
       /\ block' = [block EXCEPT !.at = until]
       /\ IF tells THEN /\ pending' = proposed /\ reported' = proposed
                        /\ posted' = (posted \/ ~offline) /\ quietly' = offline
          ELSE UNCHANGED <<pending, reported, posted, quietly>>

NextTime == IF block.events = <<>> THEN BlockFrames ELSE Head(block.events).time

\* processWithEvents: the frames before the next event, or the last of them.
ProcessSlice ==
    /\ pc = "slice" /\ block.at < NextTime /\ Slice(NextTime)
    /\ UNCHANGED <<still, sync, needsClear, names, pc, values, latency, accepted, answer, asked, told,
                   raced>>

\* handleOneEvent.  A set moves the host value with it.
HandleEvent ==
    /\ pc = "slice" /\ block.events # <<>> /\ Head(block.events).time <= block.at
    /\ block' = [block EXCEPT !.events = Tail(@)]
    /\ LET e == Head(block.events) IN
       /\ kernel' = CASE e.kind \in {"set", "ramp"} -> Set(kernel, e.value)
                      [] e.kind = "on" -> NoteOn(kernel, e.value)
                      [] e.kind = "off" -> IF e.value \in names THEN NoteOff(kernel, e.value) ELSE kernel
       /\ names' = CASE e.kind = "on" -> names \cup {e.value} [] e.kind = "off" -> names \ {e.value}
                     [] OTHER -> names
       /\ IF e.kind \in {"set", "ramp"}
          THEN hostValue' = e.value /\ late' = (main.at = "set" /\ main.value # e.value)
          ELSE UNCHANGED <<hostValue, late>>
    /\ UNCHANGED <<still, sync, bypass, needsClear, pc, changes, switched, handshake>>

EndBlock ==
    /\ pc = "slice" /\ block.events = <<>> /\ block.at = BlockFrames /\ pc' = "idle" /\ block' = NoBlock
    /\ UNCHANGED <<still, kernel, sync, bypass, needsClear, names, switched, values, handshake>>

----------------------------------------------------------------------------

Event3 == [kind : {"set", "ramp"}, value : Values, time : 0..1] \cup [kind : {"on", "off"}, value : Keys, time : 0..1]
Working == ProcessSlice \/ HandleEvent \/ EndBlock

Next ==
    \/ Allocate \/ Deallocate \/ TellLatency \/ ReadLatency \/ Reset \/ SetRenderingOffline
    \/ \E on \in BOOLEAN : SetBypass(on)
    \/ \E v \in Values : SetParameter(v) \/ LoadOnMain(v) \/ SetFullState(v)
    \/ ParameterStored \/ ApplyPending
    \/ \E events \in {<<>>} \cup {<<e>> : e \in Event3} : BeginBlock(events)
    \/ Working

\* Blocks keep coming; calls end; the relays deliver; the host reads the latency it is told of and allocates
\* again.
Spec == Init /\ [][Next]_auv3Vars
        /\ WF_auv3Vars(Working) /\ SF_auv3Vars(BeginBlock(<<>>)) /\ WF_auv3Vars(ParameterStored)
        /\ WF_auv3Vars(Allocate) /\ SF_auv3Vars(ApplyPending) /\ SF_auv3Vars(TellLatency) /\ WF_auv3Vars(ReadLatency)

----------------------------------------------------------------------------

Settled == ready /\ pc = "idle" /\ MainIsFree /\ changes = None /\ ~sync.edge

\* The processor runs with the value the host is answered with, once the changes are delivered, unless what
\* was delivered last was not what was stored last.
ValuesAgree == Settled /\ ~late => kernel.value = hostValue

\* While the processor runs, its latency is the dry signal's, and the one accepted but for one just accepted.
LatencyAgrees == pc = "slice" => /\ kernel.latency = bypass.latency
                                 /\ kernel.latency = latency \/ accepted # None

\* The processor never runs on with what it remembers of before a gap, unless the bypass changed between the
\* slices of one render.
NoStaleRun == pc = "slice" /\ block.at < BlockFrames /\ ~CanSkip(bypass) => kernel.past # "stale" \/ switched

\* Allocated, a note the processor sounds can be ended by the host.
NotesHeld == ready => kernel.voices \subseteq names

\* Of the loads asked for, on main and off it, the last is the one that stays.
LastLoadStays == pendingLoad = None => applied = chosen

\* A latency the processor wants, and that no bounce swallowed, is the one it runs with in the end, and the
\* one the host last read, unless a read accepted one that was not told yet.
LatencyLanded ==
    quietly \/ raced \/ CanSkip(bypass) \/ (kernel.latency = Latency(kernel.value) /\ told = latency)

=============================================================================
