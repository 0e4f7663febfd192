------------------------------- MODULE Blocks -------------------------------
(***************************************************************************)
(* One block, from the frame the processor stages to the one the editor     *)
(* draws.  A block of audio ends with at most one transmission; a transport *)
(* carries it to the mailbox: none (CLAP, AUv2, AUv3 post at once), an      *)
(* outbox that a relay empties into messages (VST3), or a store that the    *)
(* other side polls by its sequence number (AAX, Web).  Ports and stores    *)
(* hold one frame each, the latest: see LatestValue, which DataPort         *)
(* refines.                                                                *)
(*                                                                         *)
(* A frame is told apart by the number of edits made to the staging.       *)
(***************************************************************************)
EXTENDS Naturals, Sequences

CONSTANTS MaxEdits,     \* bound: changes made to the staging
          MaxPublishes, \* bound: publications
          MaxBounces,   \* bound: blocks rendered offline
          MaxMessages   \* bound: messages of VST3's under way at once

VARIABLES
    way,         \* "post", "message" or "store"
    staging,     \* Publisher::_staging
    pending,     \* Publisher::_pending
    outbox,      \* Audio_effect::_block_outbox, or the store: the frame, and its sequence number
    fetched,     \* the sequence number the other side read last
    relay,       \* Audio_effect::_block_relay has been posted to
    messages,    \* frames on their way to the controller
    port,        \* Mailbox::_ports: the frame and whether it has not been read
    frame,       \* Frames::_frames
    fresh,       \* Frames::_fresh, as the draw sees it
    publishes,   \* publications so far
    bounces,     \* blocks rendered offline so far
    transmitted, \* history: the frame transmitted last
    news         \* history: draws that were told of a fresh frame

bvars == <<way, staging, pending, outbox, fetched, relay, messages, port, frame, fresh, publishes, bounces, transmitted,
           news>>

Init ==
    /\ way \in {"post", "message", "store"}
    /\ staging = 0 /\ pending = FALSE
    /\ outbox = [frame |-> 0, seq |-> 0] /\ fetched = 0 /\ relay = FALSE /\ messages = <<>>
    /\ port = [frame |-> 0, dirty |-> FALSE]
    /\ frame = 0 /\ fresh = FALSE
    /\ publishes = 0 /\ bounces = 0 /\ transmitted = 0 /\ news = 0

-----------------------------------------------------------------------------
(* The processor, within its block. *)

Write ==
    /\ staging < MaxEdits
    /\ staging' = staging + 1
    /\ UNCHANGED <<way, pending, outbox, fetched, relay, messages, port, frame, fresh, publishes, bounces, transmitted,
                   news>>

Publish ==
    /\ publishes < MaxPublishes
    /\ publishes' = publishes + 1
    /\ pending' = TRUE
    /\ UNCHANGED <<way, staging, outbox, fetched, relay, messages, port, frame, fresh, bounces, transmitted, news>>

-----------------------------------------------------------------------------
(* Publisher::transmit at the block's end, and the `send` each wrapper gives it. *)

Post(f) == port' = [frame |-> f, dirty |-> TRUE]

\* An offline bounce: what was published during it is dropped, not kept.
TransmitSuspended ==
    /\ pending /\ bounces < MaxBounces
    /\ bounces' = bounces + 1
    /\ pending' = FALSE
    /\ UNCHANGED <<way, staging, outbox, fetched, relay, messages, port, frame, fresh, publishes, transmitted, news>>

TransmitPosts ==
    /\ pending /\ way = "post"
    /\ Post(staging)
    /\ pending' = FALSE /\ transmitted' = staging
    /\ UNCHANGED <<way, staging, outbox, fetched, relay, messages, frame, fresh, publishes, bounces, news>>

\* Into VST3's outbox, and the relay is told; or into the store that is read by its sequence number.
TransmitStores ==
    /\ pending /\ way \in {"message", "store"}
    /\ outbox' = [frame |-> staging, seq |-> outbox.seq + 1]
    /\ relay' = (way = "message")
    /\ pending' = FALSE /\ transmitted' = staging
    /\ UNCHANGED <<way, staging, fetched, messages, port, frame, fresh, publishes, bounces, news>>

\* Audio_effect::_send_blocks, run by the relay: the outbox is read, and what is fresh in it is sent.
SendBlocks ==
    /\ relay /\ Len(messages) < MaxMessages
    /\ relay' = FALSE
    /\ fetched' = outbox.seq
    /\ messages' = IF fetched = outbox.seq THEN messages ELSE Append(messages, outbox.frame)
    /\ UNCHANGED <<way, staging, pending, outbox, port, frame, fresh, publishes, bounces, transmitted, news>>

\* The controller's handler.
ControllerPosts ==
    /\ messages # <<>>
    /\ Post(Head(messages)) /\ messages' = Tail(messages)
    /\ UNCHANGED <<way, staging, pending, outbox, fetched, relay, frame, fresh, publishes, bounces, transmitted, news>>

\* Controller::_read_block, before each of the editor's frames: not what it has read already.
ReadStore ==
    /\ way = "store" /\ outbox.seq # 0 /\ outbox.seq # fetched
    /\ fetched' = outbox.seq
    /\ Post(outbox.frame)
    /\ UNCHANGED <<way, staging, pending, outbox, relay, messages, frame, fresh, publishes, bounces, transmitted, news>>

-----------------------------------------------------------------------------
(* Mailbox::read, at the top of each draw. *)

Draw ==
    /\ fresh' = port.dirty
    /\ frame' = IF port.dirty THEN port.frame ELSE frame
    /\ port' = [port EXCEPT !.dirty = FALSE]
    /\ news' = IF fresh' THEN news + 1 ELSE news
    /\ UNCHANGED <<way, staging, pending, outbox, fetched, relay, messages, publishes, bounces, transmitted>>

Next ==
    \/ Write \/ Publish
    \/ TransmitSuspended \/ TransmitPosts \/ TransmitStores
    \/ SendBlocks \/ ControllerPosts \/ ReadStore \/ Draw

Carries == TransmitPosts \/ TransmitStores \/ SendBlocks \/ ControllerPosts \/ ReadStore

-----------------------------------------------------------------------------
TypeOK ==
    /\ staging \in 0 .. MaxEdits /\ frame \in 0 .. MaxEdits /\ transmitted \in 0 .. MaxEdits
    /\ outbox \in [frame : 0 .. MaxEdits, seq : 0 .. MaxPublishes] /\ fetched \in 0 .. MaxPublishes
    /\ Len(messages) <= MaxMessages

\* Each publication is news to the editor once at most, over every hop.
NewsOnce == news <= publishes /\ frame <= transmitted

\* The editor never goes back to an older frame.
NeverOlder == frame' >= frame

\* The editor comes to show the frame transmitted last, and every later draw says that it is no news.
LatestRests == frame = transmitted /\ ~fresh

=============================================================================
