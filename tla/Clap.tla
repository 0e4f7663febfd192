-------------------------------- MODULE Clap --------------------------------
(* The CLAP wrapper: how values, latency, resets, bypass and notes reach the *)
(* processor.  Main edits, loads and (de)activates; the audio thread's       *)
(* `process` is taken in the steps between which main can be seen.  One      *)
(* parameter stands for all: an edit's two writes, to the host values and to *)
(* the queue, are apart, and so are a load's.                                *)
EXTENDS StreamSync, Sequences, SequencesExt

CONSTANTS Rates, MaxUi,
          Budgets      \* what the host and the user may still do: calls of each kind

VARIABLES
    active, rate, hostValue, kernel, sync, bypass,
    fromFlush, fromLoad, fromUi,              \* what waits for the next block
    needsResync, needsClear, offline,
    latency, reported, pending, accepted,     \* _latency and the handshake
    names,                                    \* Note_ids: the held notes
    view, main,                               \* the window; main between the two writes of a value
    pc, block,                                \* process(): where it is, and its block
    told, asked,                              \* the host: the latency it read, a restart it owes
    touched, shown,                           \* the host: a gesture it saw begin, the value it knows
    late,                                     \* history: the processor had the host's value, and was handed an older one
    quietly,                                  \* history: the proposal outstanding was made in a bounce
    left

values == <<hostValue, fromFlush, fromLoad, fromUi, needsResync, late>>
handshake == <<latency, reported, pending, accepted, told, asked, quietly>>
hosted == <<touched, shown>>
clapVars == <<active, rate, kernel, sync, bypass, needsClear, offline, names, view, main, pc, block,
              left, values, handshake, hosted>>

Calls == {"edit", "touch", "auto", "flush", "load", "reset", "mode", "bypass", "cycle", "rate", "note"}
Event == [kind : {"set"}, value : Values, time : 0..1]
         \cup [kind : {"on", "off"}, value : Keys, time : 0..1]
         \cup [kind : {"bypass"}, on : BOOLEAN, time : 0..1]
Action == [kind : {"start", "end"}] \cup [kind : {"set"}, value : Values]
Some(S) == S \cup {None}

NoBlock == [frames |-> 0, at |-> 0, events |-> <<>>, offline |-> FALSE, resync |-> FALSE, skip |-> FALSE,
            proposed |-> None]

TypeOK ==
    /\ active \in BOOLEAN /\ rate \in Rates /\ hostValue \in Values /\ kernel \in Kernels
    /\ sync \in SyncStates(FALSE) /\ bypass \in BypassStates(Values)
    /\ fromFlush \in Some(Values) /\ fromLoad \in Some(Values)
    /\ fromUi \in BoundedSeq(Action, MaxUi)
    /\ pending \in Some(Values) /\ accepted \in Some(Values) /\ latency \in Values
    /\ names \subseteq Keys /\ main \in [at : {"idle", "edit", "load"}, value : Some(Values)]
    /\ pc \in {"idle", "deliver", "edits", "events", "finish"}

Init ==
    /\ active = FALSE /\ rate = (CHOOSE r \in Rates : TRUE) /\ hostValue = 0
    /\ kernel = NewKernel(0) /\ sync = NewSync(FALSE) /\ bypass = NewBypass
    /\ fromFlush = None /\ fromLoad = None /\ fromUi = <<>>
    /\ needsResync = FALSE /\ needsClear = FALSE /\ offline = FALSE
    /\ latency = 0 /\ reported = 0 /\ pending = None /\ accepted = None
    /\ names = {} /\ view = FALSE /\ main = [at |-> "idle", value |-> None]
    /\ pc = "idle" /\ block = NoBlock /\ told = 0 /\ asked = FALSE
    /\ touched = FALSE /\ shown = 0 /\ late = FALSE /\ quietly = FALSE
    /\ left \in Budgets

May(call) == left[call] > 0
Spend(call) == May(call) /\ left' = [left EXCEPT ![call] = @ - 1]
MainIsFree == main.at = "idle"

\* The values of each source that have been stored and that the processor has not seen.
UiOnItsWay == main.at = "edit" \/ \E i \in DOMAIN fromUi : fromUi[i].kind = "set"
FlushOnItsWay == fromFlush # None
LoadOnItsWay == main.at = "load" \/ fromLoad # None

----------------------------------------------------------------------------
(* Main: activation and the latency handshake.                               *)

\* The processor is configured with the host values, and the host told of a latency not yet reported.
Reconfigure ==
    /\ kernel' = Configure(hostValue) /\ sync' = SyncConfigured(sync)
    /\ latency' = Latency(hostValue)
    /\ bypass' = BypassConfigured(bypass, MaxLatency, Latency(hostValue))
    /\ IF Latency(hostValue) # reported
       THEN reported' = Latency(hostValue) /\ told' = Latency(hostValue)
       ELSE UNCHANGED <<reported, told>>

\* A proposal outstanding is what this activation is for, unless the rate changed too.
Activate(r) ==
    /\ ~active /\ MainIsFree /\ active' = TRUE /\ rate' = r /\ asked' = FALSE
    /\ IF r = rate THEN UNCHANGED left ELSE Spend("rate")
    /\ pending' = None /\ quietly' = FALSE
    /\ IF pending # None /\ r = rate
       THEN /\ accepted' = pending /\ latency' = pending /\ told' = pending
            /\ UNCHANGED <<kernel, sync, bypass, reported>>
       ELSE /\ accepted' = None /\ Reconfigure
    /\ UNCHANGED <<values, needsClear, offline, names, view, main, pc, block, hosted>>

\* The audio thread is stopped.  The names go; the processor is not told.
Deactivate ==
    /\ active /\ pc = "idle" /\ MainIsFree
    /\ IF asked THEN UNCHANGED left ELSE Spend("cycle")
    /\ active' = FALSE /\ names' = {}
    /\ UNCHANGED <<rate, kernel, sync, bypass, needsClear, offline, view, main, pc, block, values,
                   handshake, hosted>>

\* reset(): deferred to `process`.
Reset == /\ Spend("reset") /\ needsClear' = TRUE
         /\ UNCHANGED <<active, rate, kernel, sync, bypass, offline, names, view, main, pc, block, values,
                        handshake, hosted>>

RenderSetMode == /\ Spend("mode") /\ offline' = ~offline
                 /\ UNCHANGED <<active, rate, kernel, sync, bypass, needsClear, names, view, main, pc,
                                block, values, handshake, hosted>>

----------------------------------------------------------------------------
(* Values from the host outside a block, from a load and from the editor.    *)

stream == <<active, rate, kernel, sync, needsClear, offline, names, pc, block, handshake>>

\* paramsFlush: on the audio thread while active, between blocks.
Flush(v) ==
    /\ pc = "idle" /\ Spend("flush") /\ fromFlush' = v /\ hostValue' = v /\ shown' = v
    /\ UNCHANGED <<stream, bypass, fromLoad, fromUi, needsResync, late, view, main, touched>>

FlushBypass(on) ==
    /\ pc = "idle" /\ Spend("bypass") /\ bypass' = SetBypassed(bypass, on)
    /\ UNCHANGED <<stream, view, main, values, hosted>>

\* _read_state_chunk and _update_state: the bypass, then _load_param's store ...
Load(v, on) ==
    /\ MainIsFree /\ Spend("load") /\ bypass' = SetBypassed(bypass, on)
    /\ hostValue' = v /\ main' = [at |-> "load", value |-> v]
    /\ UNCHANGED <<stream, fromFlush, fromLoad, fromUi, needsResync, late, view, hosted>>

\* ... its push, and the host's rescan.
Loaded ==
    /\ main.at = "load" /\ main' = [at |-> "idle", value |-> None]
    /\ fromLoad' = main.value /\ shown' = hostValue
    /\ UNCHANGED <<stream, bypass, hostValue, fromFlush, fromUi, needsResync, late, view, touched, left>>

\* Mutant: the queue takes whatever it is given.
QueueAll(action) == fromUi' = Append(fromUi, action) /\ UNCHANGED needsResync

\* _queue_user_action: with the queue full, the next block restates instead.
Queue(action) == IF Len(fromUi) < MaxUi
                 THEN fromUi' = Append(fromUi, action) /\ UNCHANGED needsResync
                 ELSE needsResync' = TRUE /\ UNCHANGED fromUi

\* guiCreate and guiDestroy.
Window == /\ MainIsFree /\ Spend("touch") /\ view' = ~view
          /\ UNCHANGED <<stream, bypass, values, main, hosted>>

\* edit::Connection: begin, end, and set, which stores and then queues.
Gesture(kind) ==
    /\ view /\ MainIsFree /\ Spend("touch") /\ Queue([kind |-> kind])
    /\ UNCHANGED <<stream, bypass, hostValue, fromFlush, fromLoad, late, view, main, hosted>>

EditStore(v) ==
    /\ view /\ MainIsFree /\ Spend("edit") /\ hostValue' = v /\ main' = [at |-> "edit", value |-> v]
    /\ UNCHANGED <<stream, bypass, fromFlush, fromLoad, fromUi, needsResync, late, view, hosted>>

EditQueue ==
    /\ main.at = "edit" /\ main' = [at |-> "idle", value |-> None]
    /\ Queue([kind |-> "set", value |-> main.value])
    /\ UNCHANGED <<stream, bypass, hostValue, fromFlush, fromLoad, late, view, left, hosted>>

----------------------------------------------------------------------------
(* process(), in its order.                                                  *)

still == <<active, rate, needsClear, offline, view, main, left>>

\* What the host reports, and what a Restart hands over: the host value, a set at time 0 over it.
FactsOf(frames) == [hostReset |-> needsClear, offline |-> offline, skipping |-> CanSkip(bypass),
                    reached |-> TRUE, content |-> FALSE, frames |-> frames]
AtTop(events) == {i \in DOMAIN events : events[i].kind = "set" /\ events[i].time = 0}
RestartValue(events) == IF AtTop(events) = {} THEN hostValue ELSE events[Max(AtTop(events))].value

Costs(events) == CASE events = <<>> -> UNCHANGED left
                   [] events # <<>> -> Spend(CASE events[1].kind = "set" -> "auto"
                                               [] events[1].kind \in {"on", "off"} -> "note"
                                               [] OTHER -> "bypass")

\* The host's block, its length and the events in it; the latency accepted at the last activation;
\* then a restart wherever the input is discontinuous.
Enter(frames, events) ==
    /\ active /\ pc = "idle" /\ pc' = "deliver" /\ Costs(events) /\ (frames = 0 => events # <<>>)
    /\ block' = [NoBlock EXCEPT !.frames = frames, !.events = events, !.offline = offline]
    /\ accepted' = None /\ needsClear' = FALSE /\ sync' = SyncNext(sync, FactsOf(frames))
    /\ LET k == IF accepted = None THEN kernel ELSE Adopt(kernel, accepted)
           b == IF accepted = None THEN bypass ELSE SetLatency(bypass, accepted)
           plan == SyncPlan(sync, FactsOf(frames))
       IN /\ kernel' = IF plan # "none" THEN Restart(k, RestartValue(events)) ELSE k
          /\ bypass' = IF plan = "stream" THEN Snap(b) ELSE b
          /\ names' = IF plan = "stream" THEN {} ELSE names
    /\ UNCHANGED <<active, rate, offline, view, main, values, latency, reported, pending, told, asked,
                   quietly, hosted>>

\* What was delivered, the last of it `to`, moved the processor away from the host's value.
LateAfter(k, delivered, to) == to # hostValue /\ (late \/ hostValue \in {k.value} \cup delivered)

\* _handle_host_flushed: the loads, then the flushes.
Flushed(k) == IF fromFlush # None THEN fromFlush ELSE IF fromLoad # None THEN fromLoad ELSE k.value

\* Every value is restated, for what the full queue did not take; then what was loaded and flushed.
Deliver ==
    /\ pc = "deliver" /\ pc' = "edits" /\ needsResync' = FALSE
    /\ LET k == IF needsResync THEN Set(kernel, hostValue) ELSE kernel
       IN kernel' = Set(k, Flushed(k)) /\ late' = LateAfter(k, {fromLoad, fromFlush}, Flushed(k))
    /\ fromLoad' = None /\ fromFlush' = None /\ block' = [block EXCEPT !.resync = needsResync]
    /\ UNCHANGED <<still, sync, bypass, names, hostValue, fromUi, handshake, hosted>>

SetsOf(actions) == {i \in DOMAIN actions : actions[i].kind = "set"}
GesturesOf(actions) == DOMAIN actions \ SetsOf(actions)
Edited(k) == IF SetsOf(fromUi) = {} THEN k.value ELSE fromUi[Max(SetsOf(fromUi))].value

\* _handle_user_actions: told to the host and to the processor, or dropped as restated.  What is dropped
\* but was stored after the restatement counts as late.
Edits ==
    /\ pc = "edits" /\ pc' = "events" /\ fromUi' = <<>>
    /\ block' = [block EXCEPT !.skip = CanSkip(bypass)]
    /\ IF block.resync
       THEN UNCHANGED <<kernel, hosted>> /\ late' = (kernel.value # hostValue)
       ELSE /\ kernel' = Set(kernel, Edited(kernel))
            /\ late' = LateAfter(kernel, {fromUi[i].value : i \in SetsOf(fromUi)}, Edited(kernel))
            /\ shown' = IF SetsOf(fromUi) = {} THEN shown ELSE Edited(kernel)
            /\ touched' = IF GesturesOf(fromUi) = {} THEN touched ELSE fromUi[Max(GesturesOf(fromUi))].kind = "start"
    /\ UNCHANGED <<still, sync, bypass, names, hostValue, fromFlush, fromLoad, needsResync, handshake>>

Runs == ~block.skip /\ block.frames > 0

\* The processor hears the frames up to `time`, if it runs at all and there are any.
HearUntil(k, time) == IF Runs /\ time > block.at THEN Hear(k) ELSE k

\* _handle_host_event<true>, at its frame.
EventAt ==
    /\ pc = "events" /\ block.events # <<>>
    /\ LET e == Head(block.events) k == HearUntil(kernel, Head(block.events).time) IN
       /\ block' = [block EXCEPT !.events = Tail(@), !.at = IF e.time > @ THEN e.time ELSE @]
       /\ CASE e.kind = "set" -> /\ kernel' = Set(k, e.value) /\ hostValue' = e.value /\ shown' = e.value
                                 /\ UNCHANGED <<names, bypass>>
            [] e.kind = "on" -> /\ kernel' = NoteOn(k, e.value) /\ names' = names \cup {e.value}
                                /\ UNCHANGED <<bypass, hostValue, shown>>
            \* An off for a note the table does not hold is dropped.
            [] e.kind = "off" -> /\ kernel' = IF e.value \in names THEN NoteOff(k, e.value) ELSE k
                                 /\ names' = names \ {e.value}
                                 /\ UNCHANGED <<bypass, hostValue, shown>>
            [] e.kind = "bypass" -> /\ kernel' = k /\ bypass' = SetBypassed(bypass, e.on)
                                    /\ UNCHANGED <<names, hostValue, shown>>
    /\ UNCHANGED <<still, sync, pc, fromFlush, fromLoad, fromUi, needsResync, late, handshake, touched>>

\* The rest of the block; what the processor proposes is for the end of it.
Rest ==
    /\ pc = "events" /\ block.events = <<>> /\ pc' = "finish"
    /\ kernel' = IF block.skip /\ block.frames > 0 THEN Miss(kernel) ELSE HearUntil(kernel, block.frames)
    /\ block' = [block EXCEPT !.proposed = 
                                      IF Runs /\ Proposal(kernel) # None /\ Admits(bypass, Proposal(kernel))
                                      THEN Proposal(kernel) ELSE None]
    /\ UNCHANGED <<still, sync, bypass, names, values, handshake, hosted>>

\* The bypass's own pass over the block, and a latency not yet reported.
Finish ==
    /\ pc = "finish" /\ pc' = "idle" /\ block' = NoBlock
    /\ bypass' = BypassProcessed(bypass, block.frames > 0)
    /\ IF block.proposed \notin {None, reported}
       THEN /\ pending' = block.proposed /\ reported' = block.proposed
            /\ asked' = (asked \/ ~block.offline) /\ quietly' = block.offline
       ELSE UNCHANGED <<pending, reported, asked, quietly>>
    /\ UNCHANGED <<still, kernel, sync, names, values, latency, accepted, told, hosted>>

----------------------------------------------------------------------------

Events == {<<>>} \cup {<<e>> : e \in Event}

Working == Deliver \/ Edits \/ EventAt \/ Rest \/ Finish

Next ==
    \/ \E r \in Rates : Activate(r)
    \/ Deactivate \/ Reset \/ RenderSetMode \/ Window
    \/ \E v \in Values : Flush(v) \/ EditStore(v) \/ \E on \in BOOLEAN : Load(v, on)
    \/ \E on \in BOOLEAN : FlushBypass(on)
    \/ Loaded \/ EditQueue \/ Gesture("start") \/ Gesture("end")
    \/ \E frames \in {0, 2}, events \in Events : Enter(frames, events)
    \/ Working

\* Blocks keep coming, the host does what it is asked, and an operation of main ends.
Audio == Working \/ Enter(2, <<>>)
Main == Loaded \/ EditQueue
HostRestarts == (asked /\ Deactivate) \/ (~active /\ Activate(rate))

Spec == Init /\ [][Next]_clapVars /\ WF_clapVars(Audio) /\ WF_clapVars(Main) /\ SF_clapVars(HostRestarts)

----------------------------------------------------------------------------

Settled == pc = "idle" /\ main.at = "idle" /\ active /\ ~needsResync
           /\ ~UiOnItsWay /\ ~FlushOnItsWay /\ ~LoadOnItsWay

\* The processor runs with the value the host and the editor are shown, once what was stored has been
\* delivered, unless an older value was delivered after it.
ValuesAgree == Settled /\ ~late => kernel.value = hostValue

\* While the processor runs, its latency is the one the wrapper answers with and the dry signal has.
LatencyAgrees == pc \in {"events", "finish"} => /\ kernel.latency = latency
                                                /\ bypass.latency = latency

\* The processor never runs on with what it remembers of before a gap, and the output it leaves
\* unwritten when it is skipped is never read.
NoStaleRun == /\ pc = "events" /\ Runs => kernel.past # "stale"
              /\ pc = "finish" /\ block.skip => Branch(bypass) = "dry"

\* A latency the processor wants, and that no bounce swallowed, is the one it runs with in the end.
LatencyLanded ==
    quietly \/ CanSkip(bypass) \/ kernel.latency = Latency(kernel.value)

=============================================================================
