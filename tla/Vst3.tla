-------------------------------- MODULE Vst3 --------------------------------
(* The VST3 wrapper: Audio_effect and Controller are two objects, and the    *)
(* host carries values from one to the other.  Two kinds of host: one that   *)
(* takes the component down and up when told of a latency, and one that only *)
(* reads it again, for which the handshake falls back to a transport start.  *)
EXTENDS StreamSync, Sequences, SequencesExt

CONSTANT Budgets     \* what the host and the user may still do: calls of each kind

VARIABLES
    host,                                     \* which kind of host
    active, running, hostValue, kernel, sync, bypass,   \* running: setProcessing
    loaded, needsClear, offline, wasMoving,
    latency, reported, pending, accepted, didPeek, posted,  \* posted: _relay has the proposal to tell
    names,
    control, gestured, ui, uiQueue, half,     \* the controller, the editor, and a load half done
    main, pc, block,
    toProcessor,                              \* the host: an edit it owes the processor
    asked, query, told,                       \* the host: told of a latency, to read it, read
    late, quietly, swallowed, raced,          \* history, see the properties
    left

values == <<hostValue, loaded, late>>
handshake == <<latency, reported, pending, accepted, didPeek, posted, quietly>>
hosted == <<asked, query, told, raced>>
editor == <<control, gestured, ui, uiQueue, swallowed>>
vst3Vars == <<host, active, running, kernel, sync, bypass, needsClear, offline, wasMoving, names, half,
              main, pc, block, toProcessor, left, values, handshake, hosted, editor>>

Calls == {"edit", "touch", "auto", "load", "mode", "bypass", "cycle", "setup", "note"}
Point == [offset : 0..1, value : Values]
Some(S) == S \cup {None}
NoBlock == [frames |-> 0, at |-> 0, points |-> <<>>, notes |-> <<>>, events |-> <<>>, bypass |-> None,
            offline |-> FALSE, skip |-> FALSE, proposed |-> None]
Idle == [at |-> "idle", value |-> None]

TypeOK ==
    /\ host \in {"restarts", "polls"} /\ active \in BOOLEAN /\ hostValue \in Values /\ kernel \in Kernels
    /\ sync \in SyncStates(FALSE) /\ bypass \in BypassStates(Values) /\ loaded \in Some(Values)
    /\ pending \in Some(Values) /\ accepted \in Some(Values) /\ latency \in Values /\ names \subseteq Keys
    /\ control \in Values /\ ui \in Some(Values) /\ uiQueue \in Some(Values) /\ half \in Some(Values)
    /\ main \in [at : {"idle", "load", "peek"}, value : Some(Values)]
    /\ pc \in {"idle", "normalize", "events", "finish"} /\ toProcessor \in Some(Values)

Init ==
    /\ host \in {"restarts", "polls"} /\ active = FALSE /\ running = FALSE /\ hostValue = 0
    /\ kernel = NewKernel(0) /\ sync = NewSync(FALSE) /\ bypass = NewBypass /\ loaded = None
    /\ needsClear = FALSE /\ offline = FALSE /\ wasMoving = FALSE
    /\ latency = 0 /\ reported = 0 /\ pending = None /\ accepted = None /\ didPeek = FALSE /\ posted = FALSE
    /\ names = {} /\ control = 0 /\ gestured = FALSE /\ ui = None /\ uiQueue = None /\ half = None
    /\ main = Idle /\ pc = "idle" /\ block = NoBlock /\ toProcessor = None
    /\ asked = FALSE /\ query = FALSE /\ told = 0 /\ late = FALSE /\ quietly = FALSE /\ swallowed = FALSE
    /\ raced = FALSE
    /\ left \in Budgets

May(call) == left[call] > 0
Spend(call) == May(call) /\ left' = [left EXCEPT ![call] = @ - 1]
MainIsFree == main = Idle /\ half = None
Stopped == pc = "idle" /\ ~running

----------------------------------------------------------------------------
(* The host's UI thread: setup, activation, and the latency.                 *)

\* setupProcessing, which the first activation needs; the host reads the latency after it.
SetupProcessing ==
    /\ ~active /\ Stopped /\ MainIsFree /\ (IF kernel.made THEN Spend("setup") ELSE UNCHANGED left)
    /\ pending' = None /\ accepted' = None /\ didPeek' = FALSE /\ quietly' = FALSE
    /\ kernel' = Configure(hostValue) /\ sync' = SyncConfigured(sync)
    /\ latency' = Latency(hostValue) /\ reported' = Latency(hostValue)
    /\ asked' = (asked \/ Latency(hostValue) # reported) /\ query' = TRUE
    /\ bypass' = BypassConfigured(bypass, MaxLatency, Latency(hostValue))
    /\ UNCHANGED <<host, active, running, needsClear, offline, wasMoving, names, half, main, pc, block,
                   toProcessor, values, posted, told, raced, editor>>

\* Mutant: the host's acceptance is not for the processor.
ActivateUntold ==
    /\ ~active /\ kernel.made /\ Stopped /\ MainIsFree /\ active' = TRUE /\ query' = TRUE
    /\ IF pending = None THEN UNCHANGED <<latency, pending, accepted, asked>>
       ELSE latency' = pending /\ pending' = None /\ asked' = TRUE /\ UNCHANGED accepted
    /\ UNCHANGED <<host, running, kernel, sync, bypass, needsClear, offline, wasMoving, names, half, main,
                   pc, block, toProcessor, left, values, reported, didPeek, posted, quietly, told, raced, editor>>

\* setActive(true): what was proposed is accepted.
Activate ==
    /\ ~active /\ kernel.made /\ Stopped /\ MainIsFree /\ active' = TRUE /\ query' = TRUE
    /\ IF pending = None THEN UNCHANGED <<latency, pending, accepted, asked>>
       ELSE latency' = pending /\ accepted' = pending /\ pending' = None /\ asked' = TRUE
    /\ UNCHANGED <<host, running, kernel, sync, bypass, needsClear, offline, wasMoving, names, half, main,
                   pc, block, toProcessor, left, values, reported, didPeek, posted, quietly, told, raced, editor>>

\* setActive(false): for the host's own reasons, or to take up a latency.  The relay goes with its post.
Deactivate ==
    /\ active /\ Stopped /\ MainIsFree /\ (IF asked THEN UNCHANGED left ELSE Spend("cycle"))
    /\ active' = FALSE /\ names' = {} /\ posted' = FALSE
    /\ asked' = (asked /\ host # "restarts")
    /\ UNCHANGED <<host, running, kernel, sync, bypass, needsClear, offline, wasMoving, half, main, pc,
                   block, toProcessor, values, latency, reported, pending, accepted, didPeek, quietly, query,
                   told, raced, editor>>

\* setProcessing: both edges are deferred to `process`.  A host taking the component down does not start
\* it again first.
SetProcessing(on) ==
    /\ active /\ pc = "idle" /\ running = ~on /\ running' = on /\ needsClear' = TRUE
    /\ (on => ~(asked /\ host = "restarts"))
    /\ IF on \/ asked THEN UNCHANGED left ELSE Spend("cycle")
    /\ UNCHANGED <<host, active, kernel, sync, bypass, offline, wasMoving, names, half, main, pc, block,
                   toProcessor, values, handshake, hosted, editor>>

\* _relay, on the UI thread: the controller is told, and the host by it.
TellLatency ==
    /\ posted /\ MainIsFree /\ posted' = FALSE /\ asked' = (asked \/ pending # None)
    /\ UNCHANGED <<host, active, running, kernel, sync, bypass, needsClear, offline, wasMoving, names,
                   half, main, pc, block, toProcessor, left, values, latency, reported, pending, accepted,
                   didPeek, quietly, query, told, raced, editor>>

\* getLatencySamples: asked once active or set up, and by a host that polls, when it was told.
GetLatency ==
    /\ MainIsFree /\ (query \/ (asked /\ host = "polls")) /\ query' = FALSE
    /\ asked' = (asked /\ host # "polls")
    /\ IF pending = None THEN told' = latency /\ UNCHANGED main
       ELSE main' = [at |-> "peek", value |-> pending] /\ UNCHANGED told
    /\ UNCHANGED <<host, active, running, kernel, sync, bypass, needsClear, offline, wasMoving, names,
                   half, pc, block, toProcessor, left, values, handshake, raced, editor>>

\* The flag is set after the proposal was read: another may have been made in between.
Peeked ==
    /\ main.at = "peek" /\ main' = Idle /\ didPeek' = TRUE /\ told' = main.value
    /\ raced' = (main.value # IF pending = None THEN latency ELSE pending)
    /\ UNCHANGED <<host, active, running, kernel, sync, bypass, needsClear, offline, wasMoving, names,
                   half, pc, block, toProcessor, left, values, latency, reported, pending, accepted, posted,
                   quietly, asked, query, editor>>

----------------------------------------------------------------------------
(* A load, in the host's two calls, and the editor's edits.                  *)

audio == <<host, active, running, kernel, sync, needsClear, offline, wasMoving, names, pc, block, handshake,
           hosted>>

\* Audio_effect::setState: the stores ...
SetState(v) ==
    /\ MainIsFree /\ Spend("load") /\ hostValue' = v /\ main' = [at |-> "load", value |-> v]
    /\ UNCHANGED <<audio, bypass, loaded, late, half, toProcessor, editor>>

\* ... the batch for the processor, and the bypass.
StatePushed(on) ==
    /\ main.at = "load" /\ main' = Idle /\ loaded' = main.value /\ half' = main.value
    /\ bypass' = SetBypassed(bypass, on)
    /\ UNCHANGED <<audio, hostValue, late, toProcessor, left, editor>>

\* setParamNormalized: the editor hears of it, unless a gesture is under way.
Controlled(v) ==
    /\ control' = v
    /\ uiQueue' = IF gestured THEN uiQueue ELSE v
    /\ swallowed' = IF gestured THEN swallowed \/ ui # v ELSE FALSE

\* Controller::setComponentState, from the same chunk.
SetComponentState ==
    /\ half # None /\ half' = None /\ Controlled(half)
    /\ UNCHANGED <<audio, bypass, values, main, toProcessor, left, gestured, ui>>

\* View::attached and removed.
OpenView == /\ ui = None /\ MainIsFree /\ Spend("touch") /\ ui' = control
          /\ UNCHANGED <<audio, bypass, values, main, half, toProcessor, control, gestured, uiQueue, swallowed>>

CloseView == /\ ui # None /\ MainIsFree /\ Spend("touch") /\ ui' = None /\ gestured' = FALSE /\ swallowed' = FALSE
          /\ UNCHANGED <<audio, bypass, values, main, half, toProcessor, control, uiQueue>>

\* on_draw: a frame takes up what the controller was set to.
Frame == /\ ui # None /\ uiQueue # None /\ MainIsFree /\ ui' = uiQueue /\ uiQueue' = None
         /\ UNCHANGED <<audio, bypass, values, main, half, toProcessor, left, control, gestured, swallowed>>

\* The editor's begin, set and end, each in a frame that has taken up what waits; the host carries a performed edit
\* to the processor.
Begin == /\ ui # None /\ uiQueue = None /\ ~gestured /\ MainIsFree /\ Spend("touch") /\ gestured' = TRUE
         /\ UNCHANGED <<audio, bypass, values, main, half, toProcessor, control, ui, uiQueue, swallowed>>

Edit(v) ==
    /\ gestured /\ uiQueue = None /\ MainIsFree /\ Spend("edit")
    /\ control' = v /\ ui' = v /\ swallowed' = FALSE /\ toProcessor' = v
    /\ UNCHANGED <<audio, bypass, values, main, half, gestured, uiQueue>>

End == /\ gestured /\ MainIsFree /\ gestured' = FALSE
       /\ UNCHANGED <<audio, bypass, values, main, half, toProcessor, left, control, ui, uiQueue, swallowed>>

SetMode == /\ Spend("mode") /\ ~running /\ pc = "idle" /\ offline' = ~offline
           /\ UNCHANGED <<host, active, running, kernel, sync, bypass, needsClear, wasMoving, names, half,
                          main, pc, block, toProcessor, values, handshake, hosted, editor>>

----------------------------------------------------------------------------
(* process(), in its order.                                                  *)

still == <<host, active, running, offline, half, main, left, hosted, editor>>

Costs(points, notes, on) ==
    IF points # <<>> THEN Spend("auto")
    ELSE IF notes # <<>> THEN Spend("note") ELSE IF on # None THEN Spend("bypass") ELSE UNCHANGED left

\* What the host has for the block: the edit it owes, then a point of automation; a note; the bypass.
Points(extra) == IF toProcessor = None THEN extra ELSE <<[offset |-> 0, value |-> toProcessor]>> \o extra

\* The top of a block: a transport start completes a proposal the host has read; the accepted latency is
\* adopted; a load's batch is delivered.
Enter(frames, playing, extra, notes, on) ==
    /\ active /\ running /\ pc = "idle" /\ pc' = "normalize" /\ Costs(extra, notes, on)
    /\ block' = [NoBlock EXCEPT !.frames = frames, !.points = Points(extra), !.notes = notes,
                                !.bypass = on, !.offline = offline]
    /\ toProcessor' = None /\ wasMoving' = playing
    /\ LET falls == playing /\ ~wasMoving /\ didPeek
           take == IF falls /\ pending # None THEN pending ELSE accepted
           adopt == take # None
       IN /\ pending' = (IF falls THEN None ELSE pending) /\ didPeek' = (didPeek /\ ~falls)
          /\ latency' = (IF falls /\ pending # None THEN pending ELSE latency) /\ accepted' = None
          /\ kernel' = LET k == IF adopt THEN Adopt(kernel, take) ELSE kernel
                       IN IF loaded = None THEN k ELSE Set(k, loaded)
          /\ bypass' = (IF adopt THEN SetLatency(bypass, take) ELSE bypass)
    /\ loaded' = None /\ late' = (IF loaded = None THEN late ELSE loaded # hostValue)
    /\ UNCHANGED <<host, active, running, sync, needsClear, offline, names, half, main, hostValue, reported,
                   posted, quietly, hosted, editor>>

\* normalize_input_events: a point is a ramp from the one before it, or a set where it was.
FromOffset(points, i) == IF i = 1 THEN -1 ELSE points[i - 1].offset
Normalized(points, renders) ==
    [i \in DOMAIN points |->
        [kind  |-> IF renders /\ points[i].offset - FromOffset(points, i) > 1 THEN "ramp" ELSE "set",
         time  |-> IF FromOffset(points, i) < 0 THEN 0 ELSE FromOffset(points, i),
         value |-> points[i].value]]

FactsOf(frames) == [hostReset |-> needsClear, offline |-> block.offline, skipping |-> CanSkip(bypass),
                    reached |-> TRUE, content |-> FALSE, frames |-> frames]
AtTop(events) == {i \in DOMAIN events : events[i].kind = "set" /\ events[i].time = 0}

\* What a restart hands over: the store as it was at the top of the block, and the sets at 0.
RestartValue(events) == IF AtTop(events) = {} THEN hostValue ELSE events[Max(AtTop(events))].value

\* The points become events and are stored; the bypass is heard; then a restart where the input is
\* discontinuous.  Notes are named and collected after it.
Normalize ==
    /\ pc = "normalize" /\ pc' = "events" /\ needsClear' = FALSE
    /\ LET events == Normalized(block.points, block.frames > 0)
           plan == SyncPlan(sync, FactsOf(block.frames))
           heard == IF block.bypass = None THEN bypass ELSE SetBypassed(bypass, block.bypass)
           b == IF plan = "stream" THEN Snap(heard) ELSE heard
       IN /\ sync' = SyncNext(sync, FactsOf(block.frames))
          /\ hostValue' = IF events = <<>> THEN hostValue ELSE Last(events).value
          /\ kernel' = IF plan = "none" THEN kernel ELSE Restart(kernel, RestartValue(events))
          /\ names' = (IF plan = "stream" THEN {} ELSE names)
                      \cup {n.value : n \in {m \in Range(block.notes) : m.kind = "on"}}
          /\ bypass' = b
          /\ block' = [block EXCEPT !.events = events \o block.notes, !.skip = CanSkip(b)]
          /\ late' = (late /\ plan = "none" /\ events = <<>>)
    /\ UNCHANGED <<still, wasMoving, loaded, toProcessor, handshake>>

Runs == ~block.skip /\ block.frames > 0
HearUntil(k, time) == IF Runs /\ time > block.at THEN Hear(k) ELSE k

\* The events in their order, each at its frame; all at once when the processor does not run.
EventAt ==
    /\ pc = "events" /\ block.events # <<>>
    /\ LET e == Head(block.events) k == HearUntil(kernel, Head(block.events).time) IN
       /\ block' = [block EXCEPT !.events = Tail(@), !.at = IF e.time > @ THEN e.time ELSE @]
       /\ kernel' = CASE e.kind \in {"set", "ramp"} -> Set(k, e.value)
                      [] e.kind = "on" -> NoteOn(k, e.value)
                      [] e.kind = "off" -> IF e.value \in names THEN NoteOff(k, e.value) ELSE k
       /\ names' = IF e.kind = "off" THEN names \ {e.value} ELSE names
    /\ UNCHANGED <<still, pc, sync, bypass, needsClear, wasMoving, toProcessor, values, handshake>>

Rest ==
    /\ pc = "events" /\ block.events = <<>> /\ pc' = "finish"
    /\ kernel' = IF block.skip /\ block.frames > 0 THEN Miss(kernel) ELSE HearUntil(kernel, block.frames)
    /\ block' = [block EXCEPT !.proposed =
                    IF Runs /\ Proposal(kernel) # None /\ Admits(bypass, Proposal(kernel))
                    THEN Proposal(kernel) ELSE None]
    /\ UNCHANGED <<still, sync, bypass, needsClear, wasMoving, names, toProcessor, values, handshake>>

\* The bypass's pass over the block, and a latency not yet reported: told through the relay, but not in a
\* bounce.
Finish ==
    /\ pc = "finish" /\ pc' = "idle" /\ block' = NoBlock
    /\ bypass' = (IF block.frames > 0 THEN BypassProcessed(bypass, TRUE) ELSE bypass)
    /\ IF block.proposed \notin {None, reported}
       THEN /\ pending' = block.proposed /\ reported' = block.proposed /\ didPeek' = FALSE
            /\ posted' = (posted \/ ~block.offline) /\ quietly' = block.offline
       ELSE UNCHANGED <<pending, reported, didPeek, posted, quietly>>
    /\ UNCHANGED <<still, kernel, sync, needsClear, wasMoving, names, toProcessor, values, latency, accepted>>

----------------------------------------------------------------------------

Extras == {<<>>} \cup {<<[offset |-> 1, value |-> v]>> : v \in Values}
Notes == {<<>>} \cup {<<[kind |-> k, value |-> key, time |-> 0]>> : k \in {"on", "off"}, key \in Keys}
Working == Normalize \/ EventAt \/ Rest \/ Finish

Next ==
    \/ SetupProcessing \/ Activate \/ Deactivate \/ SetProcessing(TRUE) \/ SetProcessing(FALSE)
    \/ TellLatency \/ GetLatency \/ Peeked \/ SetMode
    \/ \E v \in Values : SetState(v) \/ Edit(v)
    \/ \E on \in BOOLEAN : StatePushed(on)
    \/ SetComponentState \/ OpenView \/ CloseView \/ Frame \/ Begin \/ End
    \/ \E frames \in {0, 2}, playing \in BOOLEAN, extra \in Extras, notes \in Notes, on \in Some(BOOLEAN) :
          /\ Cardinality({i \in 1..3 : <<extra # <<>>, notes # <<>>, on # None>>[i]}) <= 1
          /\ (frames = 0 => extra # <<>> \/ notes # <<>> \/ on # None)
          /\ Enter(frames, playing, extra, notes, on)
    \/ Working

\* Blocks keep coming, with the transport stopped and started again by a host that does not restart; the host
\* carries out what it is told and the two calls of a load; the relay delivers.
Starts == \E playing \in BOOLEAN : (host = "polls" => playing = ~wasMoving) /\ Enter(2, playing, <<>>, <<>>, None)
HostCalls == Peeked \/ SetComponentState \/ \E on \in BOOLEAN : StatePushed(on)
TakesDown == host = "restarts" /\ asked /\ (SetProcessing(FALSE) \/ Deactivate)
TakesUp == Activate \/ SetProcessing(TRUE)

Spec == Init /\ [][Next]_vst3Vars
        /\ WF_vst3Vars(Working) /\ SF_vst3Vars(Starts) /\ WF_vst3Vars(HostCalls) /\ WF_vst3Vars(TellLatency)
        /\ SF_vst3Vars(GetLatency) /\ SF_vst3Vars(TakesDown) /\ SF_vst3Vars(TakesUp)

----------------------------------------------------------------------------

Settled == pc = "idle" /\ MainIsFree /\ running /\ loaded = None /\ toProcessor = None /\ sync.edge = FALSE

\* The processor runs with the value the wrapper would save, once what was stored has been delivered,
\* unless a load's batch was delivered after automation that followed its stores.
ValuesAgree == Settled /\ ~late => kernel.value = hostValue

\* While the processor runs, its latency is the one the wrapper answers with and the dry signal has.
LatencyAgrees == pc \in {"events", "finish"} => kernel.latency = latency /\ bypass.latency = latency

\* The processor never runs on with what it remembers of before a gap, and the output it leaves unwritten
\* when it is skipped is never read.
NoStaleRun == /\ pc = "events" /\ Runs => kernel.past # "stale"
              /\ pc = "finish" /\ block.skip => Branch(bypass) = "dry"

\* A note the processor sounds, the host can end.
NotesHeld == pc = "events" => kernel.voices \subseteq names

\* With no gesture and nothing to take up, the editor shows what the controller holds, unless a host's set
\* was dropped during a gesture.
EditorShows == ui # None /\ ~gestured /\ uiQueue = None /\ ~swallowed => ui = control

\* A latency the processor wants, and that no bounce swallowed, is the one it runs with in the end, and the
\* one the host last read, unless that read was overtaken by another proposal.
LatencyLanded ==
    quietly \/ CanSkip(bypass)
    \/ (kernel.latency = Latency(kernel.value) /\ (told = latency \/ raced))

=============================================================================
