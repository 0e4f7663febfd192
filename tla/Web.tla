--------------------------------- MODULE Web ---------------------------------
(* The web wrapper: the controller module on the page's main thread, which   *)
(* holds the host's values, and the processor module in the worklet.  They   *)
(* share no memory but rings of entries, moved between them by the pump (an  *)
(* isolated page) or by messages over the worklet's port (a linked one).     *)
EXTENDS StreamSync, Sequences

CONSTANTS RingCap,      \* bound: entries a ring takes
          LandingCap,   \* bound: entries that wait for one
          Budgets       \* what the page and the user may still do: calls of each kind

VARIABLES
    linked,                    \* the nonisolated variant
    host, shown,               \* the controller: _host and the bypass the page sent, _latency
    down, posts, landing, inbound,   \* entries on their way to the processor
    outbound, upPosts, toMain,       \* and from it
    processor,                         \* the processor module
    lostDown, lostUp,          \* history: an entry was refused or dropped
    left

downward == <<down, posts, landing, inbound, lostDown>>
upward == <<outbound, upPosts, toMain, lostUp>>
webVars == <<linked, host, shown, downward, upward, processor, left>>

Calls == {"set", "bypass", "reset", "note", "meter"}
Some(S) == S \cup {None}
Facing == [value |-> 0, bypassed |-> FALSE]

Room(ring) == Len(ring) < RingCap
\* A push never overwrites: what does not fit is refused.
Push(ring, entries) == LET all == ring \o entries IN IF Len(all) <= RingCap THEN all ELSE SubSeq(all, 1, RingCap)

\* configure(): the processor, its latency into the ring.
Module(v) ==
    [params |-> v, kernel |-> Configure(v), bypass |-> BypassConfigured(NewBypass, MaxLatency, Latency(v)),
     sync |-> SyncConfigured(NewSync(FALSE)), names |-> {}, latency |-> Latency(v), accepted |-> None,
     hostReset |-> FALSE, notes |-> <<>>]

TypeOK ==
    /\ host.value \in Values /\ host.bypassed \in BOOLEAN /\ shown \in Values
    /\ Len(down) <= RingCap /\ Len(inbound) <= RingCap /\ Len(landing) <= LandingCap
    /\ Len(outbound) <= RingCap /\ Len(toMain) <= RingCap
    /\ processor.kernel \in Kernels /\ processor.bypass \in BypassStates(Values) /\ processor.sync \in SyncStates(FALSE)
    /\ processor.names \subseteq Keys /\ processor.accepted \in Some(Values) /\ processor.latency \in Values

Init ==
    /\ linked \in BOOLEAN /\ host = Facing /\ shown = 0
    /\ down = <<>> /\ posts = <<>> /\ landing = <<>> /\ inbound = <<>>
    /\ processor = Module(0) /\ outbound = <<[kind |-> "latency", samples |-> Latency(0)]>>
    /\ upPosts = <<>> /\ toMain = <<>> /\ lostDown = FALSE /\ lostUp = FALSE /\ left \in Budgets

Spend(call) == left[call] > 0 /\ left' = [left EXCEPT ![call] = @ - 1]

\* The entries of a kind, and the one that came last.
Of(kind, entries) == {i \in DOMAIN entries : entries[i].kind = kind}
Latest(S) == CHOOSE i \in S : \A j \in S : j <= i

----------------------------------------------------------------------------
(* The controller.                                                           *)

Sent(entry) ==
    /\ down' = Push(down, <<entry>>) /\ lostDown' = (lostDown \/ ~Room(down))
    /\ UNCHANGED <<linked, shown, posts, landing, inbound, upward, processor>>

\* set_param, _editor_set, _load_param: the controller's copy moves whether the ring took the entry or not.
SetParam(v) == /\ Spend("set") /\ host' = [host EXCEPT !.value = v]
               /\ Sent([kind |-> "param", value |-> v])

\* What the page sends hears whether it fitted.
SetBypass(on) == /\ Spend("bypass") /\ Room(down) /\ host' = [host EXCEPT !.bypassed = on]
                 /\ Sent([kind |-> "bypass", on |-> on])

HostReset == Spend("reset") /\ Room(down) /\ Sent([kind |-> "reset"]) /\ UNCHANGED host

Midi(note) == Spend("note") /\ Room(down) /\ Sent([kind |-> "midi", note |-> note]) /\ UNCHANGED host

\* tick(): once a frame, what came up.
Tick ==
    /\ toMain # <<>> /\ toMain' = <<>>
    /\ LET told == Of("latency", toMain) IN shown' = IF told = {} THEN shown ELSE toMain[Latest(told)].samples
    /\ UNCHANGED <<linked, host, downward, outbound, upPosts, lostUp, processor, left>>

----------------------------------------------------------------------------
(* The wire.                                                                 *)

carried == <<linked, host, shown, processor, left>>

\* pump_ring: an entry whose destination is full stays where it is.
PumpDown == /\ ~linked /\ down # <<>> /\ Room(inbound)
            /\ inbound' = Append(inbound, Head(down)) /\ down' = Tail(down)
            /\ UNCHANGED <<carried, posts, landing, lostDown, upward>>

PumpUp == /\ ~linked /\ outbound # <<>> /\ Room(toMain)
          /\ toMain' = Append(toMain, Head(outbound)) /\ outbound' = Tail(outbound)
          /\ UNCHANGED <<carried, downward, upPosts, lostUp>>

\* controller_end.take: a ring's entries in one post.
PostDown == /\ linked /\ down # <<>> /\ posts' = Append(posts, down) /\ down' = <<>>
            /\ UNCHANGED <<carried, landing, inbound, lostDown, upward>>

\* Landing.add: past its limit a post is dropped whole.
Land == LET fits == Len(landing) + Len(Head(posts)) <= LandingCap IN
        /\ posts # <<>> /\ posts' = Tail(posts)
        /\ landing' = (IF fits THEN landing \o Head(posts) ELSE landing) /\ lostDown' = (lostDown \/ ~fits)
        /\ UNCHANGED <<carried, down, inbound, upward>>

\* processor_end.take, every few blocks.
PostUp == /\ linked /\ outbound # <<>> /\ upPosts' = Append(upPosts, outbound) /\ outbound' = <<>>
          /\ UNCHANGED <<carried, downward, toMain, lostUp>>

\* The page's half: what has no room waits, and past the limit is dropped whole.
LandUp == LET fits == Len(toMain) + Len(Head(upPosts)) <= RingCap + LandingCap IN
          /\ upPosts # <<>> /\ (~fits \/ Len(toMain) + Len(Head(upPosts)) <= RingCap)
          /\ upPosts' = Tail(upPosts) /\ lostUp' = (lostUp \/ ~fits)
          /\ toMain' = IF fits THEN toMain \o Head(upPosts) ELSE toMain
          /\ UNCHANGED <<carried, downward, outbound>>

----------------------------------------------------------------------------
(* The processor module.                                                     *)

\* drain_inbound: parameters and the bypass move on, in order; MIDI is set aside.
Received(m, entries) ==
    LET sets == Of("param", entries)
        flags == Of("bypass", entries)
    IN [m EXCEPT !.params = IF sets = {} THEN @ ELSE entries[Latest(sets)].value,
                 !.bypass = IF flags = {} THEN @ ELSE SetBypassed(@, entries[Latest(flags)].on),
                 !.hostReset = @ \/ Of("reset", entries) # {},
                 !.notes = SelectSeq(entries, LAMBDA e : e.kind = "midi")]

FactsOf(m) == [hostReset |-> m.hostReset, offline |-> FALSE, skipping |-> CanSkip(m.bypass), reached |-> TRUE,
               content |-> FALSE, frames |-> 1]

\* A restart starts from the values at the top of the block and the sets that land there.
Synced(m) ==
    LET plan == SyncPlan(m.sync, FactsOf(m))
        m1 == [m EXCEPT !.sync = SyncNext(@, FactsOf(m)), !.hostReset = FALSE,
                        !.kernel = IF plan = "none" THEN @ ELSE Restart(@, m.params)]
    IN IF plan # "stream" THEN m1 ELSE [m1 EXCEPT !.names = {}, !.bypass = Snap(@)]

Struck(m) == {m.notes[i].note[2] : i \in {j \in DOMAIN m.notes : m.notes[j].note[1] = "on"}}
\* The keys whose last note is of this kind.
Ending(m, what) ==
    {k \in Keys : \E i \in DOMAIN m.notes : /\ m.notes[i].note = <<what, k>>
                                             /\ \A j \in DOMAIN m.notes : j > i => m.notes[j].note[2] # k}

\* A note's off finds the name its on was given, or none.
Named(m) ==
    [m EXCEPT !.notes = <<>>, !.kernel.value = m.params, !.names = (@ \cup Ending(m, "on")) \ Ending(m, "off"),
              !.kernel.voices = (@ \cup Ending(m, "on")) \ (Ending(m, "off") \cap (m.names \cup Struck(m)))]

\* The block, or its dry half alone.
Played(m) == [m EXCEPT !.kernel = IF CanSkip(m.bypass) THEN Miss(@) ELSE Hear(@), !.bypass = BypassProcessed(@, TRUE)]

\* What it proposes, where the dry signal can be delayed as long.
Proposes(m) ==
    LET wants == IF CanSkip(m.bypass) THEN None ELSE Proposal(m.kernel)
    IN [m EXCEPT !.accepted = IF wants # None /\ Admits(m.bypass, wants) /\ wants # m.latency THEN wants ELSE None]

\* A proposal lands at the top of the next block, and the page is told.
Landed(m) ==
    IF m.accepted = None THEN m
    ELSE [m EXCEPT !.kernel = Adopt(@, m.accepted), !.bypass = SetLatency(@, m.accepted), !.latency = m.accepted,
                   !.accepted = None]

Told == IF processor.accepted = None THEN <<>> ELSE <<[kind |-> "latency", samples |-> processor.accepted]>>

\* How many of what landed fit in the ring, at the head of a block.
Fitting == IF Len(landing) + Len(inbound) <= RingCap THEN Len(landing) ELSE RingCap - Len(inbound)

\* render()
Render(meter) ==
    /\ IF meter THEN Spend("meter") ELSE UNCHANGED left
    /\ \E m1 \in {Received(Landed(processor), inbound \o SubSeq(landing, 1, Fitting))} :
       \E m2 \in {Synced(m1)} : \E m3 \in {Named(m2)} : processor' = Played(Proposes(m3))
    /\ landing' = SubSeq(landing, Fitting + 1, Len(landing)) /\ inbound' = <<>>
    /\ outbound' = Push(outbound, Told \o IF meter THEN <<[kind |-> "meter"]>> ELSE <<>>)
    /\ lostUp' = (lostUp \/ (Told # <<>> /\ ~Room(outbound)))
    /\ UNCHANGED <<linked, host, shown, down, posts, lostDown, upPosts, toMain>>

----------------------------------------------------------------------------

Next ==
    \/ \E v \in Values : SetParam(v)
    \/ \E on \in BOOLEAN : SetBypass(on) \/ Render(on)
    \/ \E note \in {"on", "off"} \X Keys : Midi(note)
    \/ HostReset \/ Tick \/ PumpDown \/ PumpUp \/ PostDown \/ Land \/ PostUp \/ LandUp

\* Blocks and frames keep coming, the pump runs on a worker of its own, posts are delivered.
Spec == Init /\ [][Next]_webVars
        /\ WF_webVars(Render(FALSE)) /\ WF_webVars(Tick) /\ WF_webVars(PumpDown) /\ WF_webVars(PumpUp)
        /\ WF_webVars(PostDown) /\ WF_webVars(Land) /\ WF_webVars(PostUp) /\ WF_webVars(LandUp)

----------------------------------------------------------------------------

\* Once the wire is empty the processor runs with what the controller holds, unless an entry was lost on it.
ValuesAgree ==
    (down \o landing \o inbound = <<>> /\ posts = <<>> /\ ~lostDown) =>
        processor.params = host.value /\ processor.kernel.value = host.value /\ processor.bypass.wanted = host.bypassed

\* The processor's latency is the dry signal's, and the page is shown it once the wire is empty, unless the
\* entry that says so was refused.
LatencyAgrees ==
    /\ processor.kernel.latency = processor.latency /\ processor.bypass.latency = processor.latency
    /\ (outbound \o toMain = <<>> /\ upPosts = <<>> /\ ~lostUp) => shown = processor.latency

\* What the processor remembers is never of before a gap it did not hear.
NoStaleRun == processor.kernel.past = "stale" => CanSkip(processor.bypass) \/ processor.sync.wasSkipped

\* A note the processor sounds can be ended by the page.
NotesHeld == processor.kernel.voices \subseteq processor.names

\* A latency the processor wants is the one it runs with, and the page shows, in the end.
LatencyLanded ==
    CanSkip(processor.bypass) \/ (processor.kernel.latency = Latency(processor.kernel.value) /\ (lostUp \/ shown = processor.latency))

=============================================================================
