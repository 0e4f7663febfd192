------------------------------- MODULE Notes -------------------------------
(***************************************************************************)
(* The note plumbing every wrapper owns (Note_io): what the host and the    *)
(* editor play is named, handed to the processor and, through a bypassed   *)
(* note effect, straight to the output; what the processor sends meanwhile *)
(* waits in the outbox for the end of the block.  One wrapper's block runs  *)
(* through here (CLAP's), event by event and slice by slice; the others     *)
(* make the same calls in the same order.                                  *)
(*                                                                         *)
(* The plug-in is a note effect that plays on what it hears.  Velocities,   *)
(* controls and the expressions but for a member channel's bend are left   *)
(* out.                                                                    *)
(***************************************************************************)
EXTENDS Integers, Sequences

CONSTANTS
    Capacity,     \* Note_ids::capacity
    InboxRoom,    \* Note_io::editor_capacity
    OutboxRoom,   \* Note_outbox::capacity
    Locals,       \* a source's own names for notes; none is -1
    Bends,        \* bends of the member channel, 0 among them
    Frames,       \* frames in a block
    MaxEvents,    \* bound: events of the host and the editor, far from where ids would wrap
    MaxBlocks,    \* bound: blocks
    MaxTurns,     \* bound: turns of the bypass, restarts and deactivations
    None

\* Channel 0 is a zone's manager, channel 1 its member; one key each.
Channels == {0, 1}
Member == 1
Sources == {"host", "editor"}

VARIABLES
    held,        \* Note_ids::_held
    next,        \* Note_ids::_next
    inbox,       \* Note_io::_editor
    bend,        \* Mpe::_channels' bend
    allOff,      \* Note_io::_all_off
    wasBypassed, \* Note_io::_was_bypassed
    passing,     \* Plugin::_passing
    bypassed,    \* Host_bypass::is_bypassed
    skipped,     \* Stream_sync::_was_skipped
    outbox,      \* Note_outbox::_entries
    slice,       \* Note_outbox::_slice_start and _slice_frames
    now,         \* where in the block, or None between blocks
    skipping,    \* this block does not run the processor
    voices,      \* the processor's notes, and how each is tuned
    toSend,      \* what the processor will send when it runs
    sounding,    \* what was played further down and not released
    events, blocks, turns, \* how many of each so far
    reset,       \* history: the member channel was reset and not bent since
    spilled      \* history: the outbox has refused something

nvars == <<held, next, inbox, bend, allOff, wasBypassed, passing, bypassed, skipped, outbox, slice, now, skipping, voices,
           toSend, sounding, events, blocks, turns, reset, spilled>>

names == <<held, next>>
output == <<allOff, wasBypassed, passing>>
player == <<voices, toSend>>
counts == <<events, blocks, turns>>

Slots == 1 .. Capacity
Free == [used |-> FALSE]

Init ==
    /\ held = [s \in Slots |-> Free] /\ next = 1 /\ inbox = <<>> /\ bend = 0
    /\ allOff = FALSE /\ wasBypassed = FALSE /\ passing = FALSE /\ bypassed = FALSE /\ skipped = FALSE
    /\ outbox = <<>> /\ slice = [start |-> 0, frames |-> 1]
    /\ now = None /\ skipping = FALSE
    /\ voices = <<>> /\ toSend = <<>> /\ sounding = {}
    /\ events = 0 /\ blocks = 0 /\ turns = 0 /\ reset = FALSE /\ spilled = FALSE

-----------------------------------------------------------------------------
(* Note_ids: one id for each note held, and every later event for it. *)

Used == {s \in Slots : held[s].used}
Lowest(S) == CHOOSE s \in S : \A t \in S : s <= t

\* Mutant: whoever holds the note.
CalledAny(source, local, channel) ==
    LET named == {s \in Used : local >= 0 /\ held[s].local = local}
        there == {s \in Used : held[s].channel = channel}
    IN IF named # {} THEN {Lowest(named)} ELSE {s \in there : \A t \in there : held[s].id <= held[t].id}

\* The slots an event of the source for the note may mean: its local id if it names one held, or else
\* the oldest on channel and key.
Called(source, local, channel) ==
    LET named == {s \in Used : local >= 0 /\ held[s].source = source /\ held[s].local = local}
        there == {s \in Used : held[s].source = source /\ held[s].channel = channel}
    IN IF named # {} THEN {Lowest(named)} ELSE {s \in there : \A t \in there : held[s].id <= held[t].id}

Mint(source, local, channel) ==
    /\ held' = [held EXCEPT ![Lowest(Slots \ Used)] =
                    [used |-> TRUE, id |-> next, local |-> local, channel |-> channel, source |-> source]]
    /\ next' = next + 1

Released(S) == [s \in Slots |-> IF s \in S THEN Free ELSE held[s]]

Forgotten == [s \in Slots |-> Free]

\* The slots of a set, in the table's order.
InOrder(S) ==
    {t \in UNION {[1 .. n -> S] : n \in 0 .. Capacity} :
        /\ \A s \in S : \E k \in DOMAIN t : t[k] = s
        /\ \A j, k \in DOMAIN t : j < k => t[j] < t[k]}

-----------------------------------------------------------------------------
(* One input, named: to the processor, and on to the output while a bypassed *)
(* note effect forwards (Plugin::_input).                                    *)

Entry(on, id, frame) == [on |-> on, id |-> id, frame |-> frame]

\* Note_outbox::pass and push: refused with the box full.
Spills(box, entries) == Len(box) + Len(entries) > OutboxRoom
Kept(box, entries) == IF Spills(box, entries) THEN SubSeq(box \o entries, 1, OutboxRoom) ELSE box \o entries

Pass(entries) ==
    /\ outbox' = IF passing THEN Kept(outbox, entries) ELSE outbox
    /\ spilled' = (spilled \/ (passing /\ Spills(outbox, entries)))

\* The processor takes up a note, tuned as its channel is when it starts there (Note_io::_inherit) ...
Start(source, channel, at) ==
    /\ voices' = [i \in DOMAIN voices \cup {next} |->
                    IF i # next THEN voices[i] ELSE IF source = "host" /\ channel = Member THEN bend ELSE 0]
    /\ toSend' = Append(toSend, [on |-> TRUE, id |-> next])
    /\ Pass(<<Entry(TRUE, next, at)>>)

\* ... and lets those held in the slots go, the ones it has, in their order.
Stop(S, at) ==
    LET Off(t) == [k \in DOMAIN t |-> [on |-> FALSE, id |-> held[t[k]].id]]
    IN /\ held' = Released(S) /\ UNCHANGED next
       /\ voices' = [i \in DOMAIN voices \ {held[s].id : s \in S} |-> voices[i]]
       /\ \E t \in InOrder({s \in S : held[s].id \in DOMAIN voices}) : toSend' = toSend \o Off(t)
       /\ \E t \in InOrder(S) : Pass([k \in DOMAIN t |-> Entry(FALSE, held[t[k]].id, at)])

\* Note_ids::name of an On; with the table full it is dropped, so that its Off cannot go missing.
NoteOn(source, local, channel, at) ==
    IF Used = Slots THEN UNCHANGED <<names, player, outbox, spilled>>
    ELSE Mint(source, local, channel) /\ Start(source, channel, at)

\* ... of an Off: dropped if it means nothing held.
NoteOff(source, local, channel, at) == Stop(Called(source, local, channel), at)

-----------------------------------------------------------------------------
(* Around a block. *)

\* Note_io::post_from_editor.  Only the top of a block looks, so what comes during one is as if it came after it.
EditorPlays ==
    /\ now = None /\ events < MaxEvents
    /\ events' = events + 1
    /\ \E on \in BOOLEAN, local \in Locals, channel \in Channels :
           inbox' = IF Len(inbox) < InboxRoom
                    THEN Append(inbox, [on |-> on, local |-> local, channel |-> channel]) ELSE inbox
    /\ UNCHANGED <<names, bend, output, bypassed, skipped, outbox, slice, now, skipping, player, sounding, blocks, turns,
                   reset, spilled>>

HostTurnsBypass ==
    /\ now = None /\ turns < MaxTurns
    /\ turns' = turns + 1
    /\ bypassed' = ~bypassed
    /\ UNCHANGED <<names, inbox, bend, output, skipped, outbox, slice, now, skipping, player, sounding, events, blocks,
                   reset, spilled>>

\* The names go at once; the processor is configured anew before the next block, where what sounds further down is
\* released.  Nothing else happens in between, so it is one step.
Deactivate ==
    /\ now = None /\ turns < MaxTurns
    /\ turns' = turns + 1
    /\ held' = Forgotten /\ bend' = 0 /\ allOff' = TRUE
    /\ voices' = <<>> /\ toSend' = <<>> /\ skipped' = FALSE /\ reset' = FALSE
    /\ UNCHANGED <<next, inbox, wasBypassed, passing, bypassed, outbox, slice, now, skipping, sounding, events, blocks,
                   spilled>>

\* Mutant: the edge of the bypass goes unnoticed.
BeginUnseen ==
    /\ now = None /\ blocks < MaxBlocks
    /\ blocks' = blocks + 1
    /\ now' = 0
    /\ skipping' \in {FALSE, bypassed}
    /\ \E stream \in {FALSE, turns < MaxTurns} :
         /\ turns' = IF stream THEN turns + 1 ELSE turns
         /\ skipped' = IF stream THEN FALSE ELSE skipping'
         /\ held' = IF stream THEN Forgotten ELSE held
         /\ bend' = IF stream THEN 0 ELSE bend
         /\ reset' = IF stream THEN FALSE ELSE reset
         /\ allOff' = (allOff \/ stream)
         /\ IF stream \/ (skipped /\ ~skipping') THEN voices' = <<>> /\ toSend' = <<>> ELSE UNCHANGED player
    /\ wasBypassed' = bypassed /\ passing' = bypassed
    /\ UNCHANGED <<next, inbox, bypassed, outbox, slice, sounding, events, spilled>>

\* The top of a block: a restart where the input is discontinuous, of the processor alone where it
\* had been skipped; then the bypass the block renders with.
Begin ==
    /\ now = None /\ blocks < MaxBlocks
    /\ blocks' = blocks + 1
    /\ now' = 0
    /\ skipping' \in {FALSE, bypassed}
    /\ \E stream \in {FALSE, turns < MaxTurns} :
         /\ turns' = IF stream THEN turns + 1 ELSE turns
         /\ skipped' = IF stream THEN FALSE ELSE skipping'
         /\ held' = IF stream THEN Forgotten ELSE held
         /\ bend' = IF stream THEN 0 ELSE bend
         /\ reset' = IF stream THEN FALSE ELSE reset
         /\ allOff' = (allOff \/ stream \/ bypassed # wasBypassed)
         /\ IF stream \/ (skipped /\ ~skipping') THEN voices' = <<>> /\ toSend' = <<>> ELSE UNCHANGED player
    /\ wasBypassed' = bypassed /\ passing' = bypassed
    /\ UNCHANGED <<next, inbox, bypassed, outbox, slice, sounding, events, spilled>>

\* Note_io::drain_editor: everything the editor sent, before anything else of the block.
DrainEditor ==
    /\ now = 0 /\ inbox # <<>>
    /\ inbox' = Tail(inbox)
    /\ \E e \in {Head(inbox)} :
         IF e.on THEN NoteOn("editor", e.local, e.channel, 0) ELSE NoteOff("editor", e.local, e.channel, 0)
    /\ UNCHANGED <<bend, output, bypassed, skipped, slice, now, skipping, sounding, counts, reset>>

-----------------------------------------------------------------------------
(* The host's events, each once the processor has run up to it. *)

Playing == now # None /\ inbox = <<>> /\ events < MaxEvents

HostNote ==
    /\ Playing
    /\ events' = events + 1
    /\ \E on \in BOOLEAN, local \in Locals, channel \in Channels :
         IF on THEN NoteOn("host", local, channel, now) ELSE NoteOff("host", local, channel, now)
    /\ UNCHANGED <<inbox, bend, output, bypassed, skipped, slice, now, skipping, sounding, blocks, turns, reset>>

\* A wildcard, or MIDI's all notes off: every note of the host's on a channel, or on all (-1).
HostWildcard ==
    /\ Playing
    /\ events' = events + 1
    /\ \E channel \in Channels \cup {-1} :
         Stop({s \in Used : held[s].source = "host" /\ (channel = -1 \/ held[s].channel = channel)}, now)
    /\ UNCHANGED <<inbox, bend, output, bypassed, skipped, slice, now, skipping, sounding, blocks, turns, reset>>

\* The member channel's bend: what each of its notes is tuned to (Note_io::from_midi, Mpe::expression).
HostBends ==
    /\ Playing
    /\ events' = events + 1
    /\ \E b \in Bends :
         /\ bend' = b
         /\ voices' = [i \in DOMAIN voices |->
                         IF \E s \in Used : held[s].id = i /\ held[s].source = "host" /\ held[s].channel = Member
                         THEN b ELSE voices[i]]
    /\ reset' = FALSE
    /\ UNCHANGED <<names, inbox, output, bypassed, skipped, outbox, slice, now, skipping, toSend, sounding, blocks, turns,
                   spilled>>

\* Controller 121 resets the member channel's bend, and no note of it hears (Mpe::observe, and no expression).
HostResets ==
    /\ Playing
    /\ events' = events + 1
    /\ bend' = 0 /\ reset' = TRUE
    /\ UNCHANGED <<names, inbox, output, bypassed, skipped, outbox, slice, now, skipping, player, sounding, blocks, turns,
                   spilled>>

\* A slice, up to the next event or the block's end.  The processor sends what it has to, at frames of its own that
\* the box keeps within the slice; while bypassed its writer refuses.
Slice ==
    /\ now # None /\ inbox = <<>> /\ ~skipping
    /\ \E n \in 1 .. (Frames - now), at \in {0, Frames} :
         /\ slice' = [start |-> now, frames |-> n]
         /\ now' = now + n
         /\ \E entries \in {[k \in DOMAIN toSend |->
                               Entry(toSend[k].on, toSend[k].id, now + (IF at < n THEN at ELSE n - 1))]} :
              /\ outbox' = IF wasBypassed THEN outbox ELSE Kept(outbox, entries)
              /\ spilled' = (spilled \/ (~wasBypassed /\ Spills(outbox, entries)))
    /\ toSend' = <<>>
    /\ UNCHANGED <<names, inbox, bend, output, bypassed, skipped, skipping, voices, sounding, counts, reset>>

\* Note_outbox::events: what was sent goes out in time order, send order breaking ties.
InTime(box, j, k) == box[j].frame < box[k].frame \/ (box[j].frame = box[k].frame /\ j < k)

\* What sounds further down once it went out: of each note, what came last counts.
Played(box, before) ==
    LET Last == {k \in DOMAIN box : \A j \in DOMAIN box : box[j].id = box[k].id => ~InTime(box, k, j)}
    IN (before \ {box[k].id : k \in DOMAIN box}) \cup {box[k].id : k \in {l \in Last : box[l].on}}

\* The block's end, or that of one that never ran (a flush, a skip): all notes off if the stream broke, then what was sent (Plugin::_send_notes).
SendNotes ==
    /\ now # None /\ inbox = <<>>
    /\ now \in {0, Frames}
    /\ sounding' = Played(outbox, IF allOff THEN {} ELSE sounding)
    /\ allOff' = FALSE
    /\ outbox' = <<>> /\ slice' = [start |-> 0, frames |-> 1]
    /\ now' = None /\ skipping' = FALSE
    /\ UNCHANGED <<names, inbox, bend, wasBypassed, passing, bypassed, skipped, player, counts, reset, spilled>>

Next ==
    \/ EditorPlays \/ HostTurnsBypass \/ Deactivate
    \/ Begin \/ DrainEditor
    \/ HostNote \/ HostWildcard \/ HostBends \/ HostResets
    \/ Slice \/ SendNotes

-----------------------------------------------------------------------------
Ids == 1 .. MaxEvents

TypeOK ==
    /\ \A s \in Used : held[s].id \in Ids /\ held[s].local \in Locals /\ held[s].channel \in Channels
    /\ next \in Ids \cup {MaxEvents + 1} /\ bend \in Bends
    /\ Len(inbox) <= InboxRoom /\ Len(outbox) <= OutboxRoom
    /\ now \in 0 .. Frames \cup {None}
    /\ DOMAIN voices \subseteq Ids /\ sounding \subseteq Ids

\* No voice the processor has is beyond reach of an Off: each is held in the table, under an id of its own.
VoicesNamed ==
    /\ DOMAIN voices \subseteq {held[s].id : s \in Used}
    /\ \A s, t \in Used : held[s].id = held[t].id => s = t

\* Between blocks, nothing sounds further down that nobody will release: what does is a voice of the processor's, or
\* is released by what it sends next, or came past the bypass and has its Off to come past it too, or goes with the
\* all notes off at the top of the next output.  Unless the box was full.
NothingHangs ==
    now = None /\ ~allOff /\ ~spilled =>
        \A i \in sounding : \/ i \in DOMAIN voices
                            \/ wasBypassed /\ \E s \in Used : held[s].id = i
                            \/ \E k \in DOMAIN toSend : toSend[k] = [on |-> FALSE, id |-> i]

\* A member channel's bend is its notes': the ones held and the ones that start, unless the channel was reset.
NotesBend ==
    ~reset => \A s \in Used : held[s].source = "host" /\ held[s].channel = Member /\ held[s].id \in DOMAIN voices
                  => voices[held[s].id] = bend

\* A note of the host's ends by the host's own event or a break of the stream, never by the editor's; and the other
\* way round.
SourcesApart ==
    \A s \in Used :
        (held'[s] # held[s] /\ turns' = turns) =>
            IF held[s].source = "host" THEN inbox' = inbox ELSE inbox # <<>> /\ inbox' = Tail(inbox)

=============================================================================
