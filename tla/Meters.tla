------------------------------- MODULE Meters -------------------------------
(***************************************************************************)
(* One meter, from the processor that measures to the editor that draws.   *)
(* The publisher (audio thread) decides what a block sends; a route carries *)
(* it: straight into the mailbox (CLAP, AUv2, AUv3), over a ring with room  *)
(* for some (AAX, Web), or as an output parameter of the host (VST3), which *)
(* delivers on the main thread and may drop a duplicate; the mailbox keeps  *)
(* it for the editor's next read, on another thread than the post except   *)
(* with VST3.                                                              *)
(***************************************************************************)
EXTENDS Integers, Sequences, FiniteSets

CONSTANTS MaxLevel,    \* levels run from 0 to this
          Room,        \* what the ring, or the host's list of changes, holds
          MaxBlocks,   \* bound: blocks of a peak or trigger meter
          MaxMoves,    \* bound: blocks that move a stream meter or are suspended
          None

VARIABLES
    policy,    \* Spec::policy
    route,     \* "direct", "ring" or "host"
    scratch,   \* Publisher::_scratch, left by the block
    previous,  \* Publisher::_previous
    heldPeak,  \* Publisher::_held
    wire,      \* on the way to the mailbox
    hostLast,  \* ~the value the host delivered last
    slot,      \* Mailbox::_slots
    lastPost,  \* Mailbox<Host>::_latest
    seen,      \* Mailbox::_seen
    posting,   \* a post between its load and its store: the value, and what it loaded
    reading,   \* a read between its load and its exchange: what it loaded
    shown,     \* what the editor's draw was given
    rendered,  \* blocks so far
    moves,     \* moves and suspensions so far
    owedPeak,  \* history: the loudest peak measured and not shown since
    credit     \* history: triggers posted less triggers shown

mvars == <<policy, route, scratch, previous, heldPeak, wire, hostLast, slot, lastPost, seen, posting, reading, shown,
           rendered, moves, owedPeak, credit>>

Levels == 0 .. MaxLevel
Louder(a, b) == IF a > b THEN a ELSE b
Empty == [value |-> 0, count |-> 0]

Init ==
    /\ policy \in {"stream", "peak", "trig"} /\ route \in {"direct", "ring", "host"}
    /\ scratch = 0 /\ previous = 0 /\ heldPeak = 0
    /\ wire = <<>> /\ hostLast = 0
    /\ slot = Empty /\ lastPost = 0 /\ seen = Empty /\ posting = None /\ reading = None
    /\ shown = 0 /\ rendered = 0 /\ moves = 0 /\ owedPeak = 0 /\ credit = 0

-----------------------------------------------------------------------------
(* Mailbox: the framework's own, with a post and a read that may interleave. *)

PostBegins(v) == posting' = IF policy = "trig" /\ v = 0 THEN None ELSE [value |-> v, curr |-> slot]

\* The load of a stream's or a trigger's post, then its store.
PostStore ==
    /\ posting # None /\ policy \in {"stream", "trig"}
    /\ slot' = [value |-> posting.value, count |-> posting.curr.count + 1]
    /\ posting' = None
    /\ credit' = IF policy = "trig" THEN credit + 1 ELSE credit
    /\ UNCHANGED <<policy, route, scratch, previous, heldPeak, wire, hostLast, lastPost, seen, reading, shown, rendered,
                   moves, owedPeak>>

\* Mutant: a peak still to be drawn is replaced, as a stream's value is.
PostPeakOver ==
    /\ posting # None /\ policy = "peak"
    /\ slot' = [value |-> posting.value, count |-> slot.count + 1]
    /\ posting' = None
    /\ UNCHANGED <<policy, route, scratch, previous, heldPeak, wire, hostLast, lastPost, seen, reading, shown, rendered,
                   moves, owedPeak, credit>>

\* A peak is exchanged for the louder of the two, again and again until nobody was in between.
PostPeak ==
    /\ posting # None /\ policy = "peak"
    /\ IF slot = posting.curr
       THEN /\ slot' = [value |-> Louder(posting.value, slot.value), count |-> slot.count + 1]
            /\ posting' = None
       ELSE /\ posting' = [posting EXCEPT !.curr = slot]
            /\ UNCHANGED slot
    /\ UNCHANGED <<policy, route, scratch, previous, heldPeak, wire, hostLast, lastPost, seen, reading, shown, rendered,
                   moves, owedPeak, credit>>

\* What a draw is given settles what it was owed.
Show(v) ==
    /\ shown' = v
    /\ owedPeak' = IF v >= owedPeak THEN 0 ELSE owedPeak
    /\ credit' = IF policy = "trig" /\ v # 0 THEN credit - 1 ELSE credit

ReadStream ==
    /\ policy = "stream" /\ route # "host"
    /\ Show(slot.value)
    /\ UNCHANGED <<policy, route, scratch, previous, heldPeak, wire, hostLast, slot, lastPost, seen, posting, reading,
                   rendered, moves>>

ReadLoad ==
    /\ policy # "stream" /\ route # "host" /\ reading = None
    /\ reading' = slot
    /\ UNCHANGED <<policy, route, scratch, previous, heldPeak, wire, hostLast, slot, lastPost, seen, posting, shown,
                   rendered, moves, owedPeak, credit>>

ReadExchange ==
    /\ reading # None
    /\ IF slot = reading
       THEN /\ slot' = [reading EXCEPT !.value = 0]
            /\ reading' = None
            /\ seen' = IF policy = "peak" /\ reading.count # seen.count THEN reading ELSE seen
            /\ Show(IF policy = "peak" THEN seen'.value ELSE reading.value)
       ELSE /\ reading' = slot
            /\ UNCHANGED <<slot, seen, shown, owedPeak, credit>>
    /\ UNCHANGED <<policy, route, scratch, previous, heldPeak, wire, hostLast, lastPost, posting, rendered, moves>>

-----------------------------------------------------------------------------
(* Mailbox over a host's own delivery: everything on the main thread. *)

PostFromHost(v) ==
    CASE policy = "stream" ->
           /\ slot' = [value |-> v, count |-> slot.count + 1]
           /\ UNCHANGED <<lastPost, credit>>
      [] policy = "peak" ->
           /\ slot' = [value |-> Louder(v, slot.value), count |-> slot.count + 1]
           /\ lastPost' = v
           /\ UNCHANGED credit
      [] policy = "trig" /\ v # 0 ->
           /\ slot' = [value |-> v, count |-> slot.count + 1]
           /\ credit' = credit + 1
           /\ UNCHANGED lastPost
      [] OTHER -> UNCHANGED <<slot, lastPost, credit>>

ReadHost ==
    /\ route = "host"
    /\ IF policy = "peak"
       THEN /\ Show(IF slot.count # seen.count THEN slot.value ELSE lastPost)
            /\ seen' = [seen EXCEPT !.count = slot.count]
       ELSE /\ Show(slot.value)
            /\ UNCHANGED seen
    /\ slot' = IF policy = "stream" THEN slot ELSE [slot EXCEPT !.value = 0]
    /\ UNCHANGED <<policy, route, scratch, previous, heldPeak, wire, hostLast, lastPost, posting, reading, rendered, moves>>

-----------------------------------------------------------------------------
(* What is on the way: the ring is drained into the mailbox, and the host    *)
(* delivers each change, or drops one that says what the last one said.      *)

DeliverRing ==
    /\ route = "ring" /\ wire # <<>> /\ posting = None
    /\ PostBegins(Head(wire))
    /\ wire' = Tail(wire)
    /\ UNCHANGED <<policy, route, scratch, previous, heldPeak, hostLast, slot, lastPost, seen, reading, shown, rendered,
                   moves, owedPeak, credit>>

HostDelivers ==
    /\ route = "host" /\ wire # <<>>
    /\ PostFromHost(Head(wire))
    /\ hostLast' = Head(wire) /\ wire' = Tail(wire)
    /\ UNCHANGED <<policy, route, scratch, previous, heldPeak, seen, posting, reading, shown, rendered, moves, owedPeak>>

HostDrops ==
    /\ route = "host" /\ wire # <<>> /\ Head(wire) = hostLast
    /\ wire' = Tail(wire)
    /\ UNCHANGED <<policy, route, scratch, previous, heldPeak, hostLast, slot, lastPost, seen, posting, reading, shown,
                   rendered, moves, owedPeak, credit>>

-----------------------------------------------------------------------------
(* Publisher, once a block. *)

\* Whether `send` takes the value: a mailbox always does, a ring and a list of changes only with room.
Sent == route = "direct" \/ Len(wire) < Room

\* `send` of v, and what becomes of the publisher's memory.
Send(v) ==
    IF route = "direct" THEN PostBegins(v) /\ UNCHANGED wire
    ELSE /\ wire' = IF Sent THEN Append(wire, v) ELSE wire
         /\ UNCHANGED posting

PublishStream ==
    /\ policy = "stream"
    /\ IF scratch' = previous THEN UNCHANGED <<previous, wire, posting>>
       ELSE Send(scratch') /\ previous' = IF Sent THEN scratch' ELSE previous
    /\ UNCHANGED heldPeak

PublishPeak(v) ==
    /\ policy = "peak"
    /\ Send(Louder(heldPeak, v))
    /\ heldPeak' = IF Sent THEN 0 ELSE Louder(heldPeak, v)
    /\ UNCHANGED previous

PublishTrig(v) ==
    /\ policy = "trig"
    /\ IF v # 0 THEN Send(v) ELSE UNCHANGED <<wire, posting>>
    /\ UNCHANGED <<previous, heldPeak>>

\* The processor measures v, and the block publishes unless it is suspended (an
\* offline bounce, a flush).  The audio thread is past its last post by then.
Block(v, suspend) ==
    /\ route = "direct" => posting = None
    /\ policy = "stream" \/ rendered < MaxBlocks
    /\ rendered' = IF policy = "stream" THEN rendered ELSE rendered + 1
    /\ moves' = IF suspend \/ (policy = "stream" /\ v # scratch) THEN moves + 1 ELSE moves
    /\ moves' <= MaxMoves
    /\ scratch' = IF policy = "stream" THEN v ELSE 0
    /\ IF suspend THEN UNCHANGED <<previous, heldPeak, wire, posting, owedPeak>>
       ELSE /\ PublishStream \/ PublishPeak(v) \/ PublishTrig(v)
            /\ owedPeak' = IF policy = "peak" /\ v > shown THEN Louder(owedPeak, v) ELSE owedPeak
    /\ UNCHANGED <<policy, route, hostLast, slot, lastPost, seen, reading, shown, credit>>

Next ==
    \/ \E v \in Levels, suspend \in BOOLEAN : Block(v, suspend)
    \/ PostStore \/ PostPeak
    \/ ReadStream \/ ReadLoad \/ ReadExchange \/ ReadHost
    \/ DeliverRing \/ HostDelivers \/ HostDrops

\* Blocks go on, posts and reads come to their end, the ring is drained, the host delivers, the editor draws.
Goes == \E v \in Levels : Block(v, FALSE)
Draws == ReadStream \/ ReadExchange \/ ReadHost
Carries == PostStore \/ PostPeak \/ DeliverRing \/ HostDelivers \/ HostDrops

-----------------------------------------------------------------------------
SlotType == [value : Levels, count : 0 .. MaxBlocks + MaxMoves]

TypeOK ==
    /\ scratch \in Levels /\ previous \in Levels /\ heldPeak \in Levels /\ shown \in Levels /\ owedPeak \in Levels
    /\ Len(wire) <= Room /\ hostLast \in Levels /\ lastPost \in Levels
    /\ slot \in SlotType /\ seen \in SlotType

\* Every peak measured outside a bounce is shown at or above its height, or on its way to a draw: held back from
\* a full ring, on the wire, being posted, or in the slot.  Peaks the mailbox's two threads meet over, or the host
\* takes for duplicates, are no exception.
PeaksKept ==
    owedPeak = 0 \/ \E carrier \in {heldPeak, slot.value} \cup {wire[i] : i \in DOMAIN wire}
                                   \cup (IF posting = None THEN {} ELSE {posting.value})
                                   \cup (IF route = "host" THEN {lastPost} ELSE {}) : carrier >= owedPeak

\* A trigger is drawn once for each that was posted, at most.
TriggersOnce == credit >= 0

\* A stream meter comes to rest at the value the processor left it at.
StreamRests == policy = "stream" => shown = scratch

=============================================================================
