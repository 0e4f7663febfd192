----------------------------- MODULE StreamSync -----------------------------
(* A wrapper's processor and what it keeps beside it, as functions of state. *)
(* Stream_sync: when the processor is restarted, and whether it is held back *)
(* at the head of an offline render; one copy for every format, and MaxHold  *)
(* is its cap of a second, in blocks.  Host_bypass with its ramps and delay  *)
(* lines: the bypass the host asked for, the one the render thread renders   *)
(* with, the crossfade between them, and the delay that keeps the dry signal *)
(* in line with the processor's.  Samples are left out; a fade is FadeBlocks *)
(* blocks long.                                                              *)
EXTENDS Naturals

CONSTANTS MaxHold, FadeBlocks,
          Values, Keys, None

\* What is known of a block: the host asked for a reset, the mode, the committed skip, whether the
\* block reaches position 0 (or has no position), whether it carries material, its length.
Facts == [hostReset : BOOLEAN, offline : BOOLEAN, skipping : BOOLEAN, reached : BOOLEAN,
          content : BOOLEAN, frames : 0..2]

Modes == {"unknown", "realtime", "offline"}
ModeOf(offline) == IF offline THEN "offline" ELSE "realtime"

SyncStates(holdOffline) ==
    [holdOffline : {holdOffline}, edge : BOOLEAN, pending : BOOLEAN, holding : BOOLEAN,
     wasSkipped : BOOLEAN, mode : Modes, held : 0..MaxHold + 1]

NewSync(holdOffline) ==
    [holdOffline |-> holdOffline, edge |-> TRUE, pending |-> FALSE, holding |-> FALSE,
     wasSkipped |-> FALSE, mode |-> "unknown", held |-> 0]

\* A configure supersedes what was skipped or held before it.
SyncConfigured(s) ==
    [s EXCEPT !.edge = TRUE, !.mode = "unknown", !.holding = FALSE, !.wasSkipped = FALSE]

Discontinuous(s, f) == s.edge \/ f.hostReset \/ (s.mode # "unknown" /\ s.mode # ModeOf(f.offline))

\* A discontinuity inside a hold extends it, never its cap.
SyncSees(s, f) ==
    LET s1 == [s EXCEPT !.edge = FALSE, !.mode = ModeOf(f.offline)]
    IN IF ~Discontinuous(s, f) THEN s1
       ELSE [s1 EXCEPT !.pending = TRUE, !.held = IF s.holding THEN @ ELSE 0,
                       !.holding = s.holdOffline /\ f.offline]

HoldsOn(s, f) == s.holding /\ f.offline /\ ~f.reached /\ s.held < MaxHold /\ ~f.content

\* Mutant: a resume is told by what this block does alone.
PlanForgets(s, f) == IF HoldsOn(s, f) THEN "hold" ELSE IF s.pending THEN "stream" ELSE "none"

\* What the block is told, by a state that has seen it.
PlanOf(s, f) ==
    IF HoldsOn(s, f) THEN "hold"
    ELSE IF s.pending THEN "stream"
    ELSE IF s.wasSkipped /\ ~f.skipping THEN "resume" ELSE "none"

\* A stream restart snaps the bypass, so this block's skip is not counted.
SyncAfter(s, f) ==
    IF HoldsOn(s, f) THEN [s EXCEPT !.held = IF @ > MaxHold THEN @ ELSE @ + f.frames]
    ELSE [s EXCEPT !.holding = FALSE, !.pending = FALSE, !.wasSkipped = ~s.pending /\ f.skipping]

SyncPlan(s, f) == PlanOf(SyncSees(s, f), f)
SyncNext(s, f) == SyncAfter(SyncSees(s, f), f)

-----------------------------------------------------------------------------
(* Host_bypass.                                                              *)

NewBypass == [wanted |-> FALSE, now |-> FALSE, fade |-> 0, latency |-> 0, max |-> 0]
BypassStates(latencies) ==
    [wanted : BOOLEAN, now : BOOLEAN, fade : 0..FadeBlocks, latency : latencies, max : latencies]

\* The ramps land on what was asked for last.
Snap(b) == [b EXCEPT !.now = b.wanted, !.fade = 0]

SetBypassed(b, on) == [b EXCEPT !.wanted = on]
SetLatency(b, samples) == [b EXCEPT !.latency = IF samples <= b.max THEN samples ELSE b.max]

\* At a configure: reset, set_max_latency, set_latency.
BypassConfigured(b, max, latency) == SetLatency([Snap(b) EXCEPT !.max = max], latency)

\* A proposal the delays cannot compensate is refused.
Admits(b, proposed) == proposed <= b.max

\* Nothing but `Snap` and the end of a block moves what this reads.
CanSkip(b) == b.now /\ b.fade = 0

\* What the output of a block is made of: the processor's, the delay's, or a mix of both.
Branch(b) == IF b.fade > 0 THEN "mix" ELSE IF b.now THEN "dry" ELSE "wet"

\* process(): a block's worth of the fade, then what was asked for is adopted for the next.
BypassProcessed(b, rendered) ==
    LET faded == IF rendered /\ b.fade > 0 THEN [b EXCEPT !.fade = @ - 1] ELSE b
    IN IF b.wanted = b.now THEN faded ELSE [faded EXCEPT !.now = b.wanted, !.fade = FadeBlocks]

-----------------------------------------------------------------------------
(* The plug-in's own processor, as its Interface obliges it: one parameter,  *)
(* which also chooses its latency, and the notes it sounds.  `configure` and *)
(* a Restart leave it as the values say, but a Restart keeps the latency the *)
(* host accepted; what the values imply otherwise is proposed from `process` *)
(* and adopted at a Latency.                                                 *)

\* The latency a value asks for.
Latency(value) == value
MaxLatency == CHOOSE m \in Values : \A v \in Values : v <= m

\* `past`: "none" since the last restart, "live" while it hears every block, "stale" once it missed one.
Kernels == [value : Values, latency : Values, voices : SUBSET Keys, past : {"none", "live", "stale"},
            made : BOOLEAN]

NewKernel(v) == [value |-> v, latency |-> 0, voices |-> {}, past |-> "none", made |-> FALSE]

Configure(v) == [value |-> v, latency |-> Latency(v), voices |-> {}, past |-> "none", made |-> TRUE]

\* Reset::Restart and Reset::Latency.
Restart(k, v) == [k EXCEPT !.value = v, !.voices = {}, !.past = "none"]
Adopt(k, samples) == [k EXCEPT !.latency = samples]

\* The events.
Set(k, v) == [k EXCEPT !.value = v]
NoteOn(k, key) == [k EXCEPT !.voices = @ \cup {key}]
NoteOff(k, key) == [k EXCEPT !.voices = @ \ {key}]

\* process(): it hears a block; and proposes, while its values ask for another latency.
Hear(k) == [k EXCEPT !.past = IF @ = "none" THEN "live" ELSE @]
Proposal(k) == IF Latency(k.value) # k.latency THEN Latency(k.value) ELSE None

\* A block goes by that it does not hear: what it remembers is out of date.
Miss(k) == [k EXCEPT !.past = IF @ = "live" THEN "stale" ELSE @]

=============================================================================
