# tinyplug: specifications

tinyplug is a C++ framework for audio plug-ins.  One plug-in source builds for CLAP, VST3, AUv2,
AUv3, AAX and the web.  The specifications here cover the part of it that is hard to test: what
the audio thread, the UI thread, the host's threads and the worker lanes share; the protocol
by which the editor and the processor keep one document; what each wrapper promises its host of
values, latency, notes and state; what a session brings back; and the life of the editor's window on each platform.

Everything is read from `src/`.  A module's definitions carry the names of the code; comments quote
it where it says what it relies on.

## The system

### Parts, their state and their operations

| Part | Source | State | Operations |
|---|---|---|---|
| Data port | `tiny_core/data_port.hpp` | one atomic word (index, dirty, busy) and two or three slots | `read`, `read_fresh`, `write` |
| Store | `tiny_core/state_store.hpp`, `state_merge.hpp` | three published slots and the word `_ready`; a staged pair behind the word `_stage` | `access` / `finish`, `load_bytes`, `reset_to`, `save`, `read_bytes` |
| Processor side | `tiny_core/tiny_state.hpp` | the store, the counter `_edits`, `_last_sent`, the mutex `_readers` | `begin_block`, `on_edit`, `on_session_load`, `pump`, `snapshot`, `seed_generation` |
| Editor side | `tiny_core/tiny_state.hpp` | `_confirmed`, `_sent`, `_view`, `_baseline`, the queue `_pending`, the watermarks `_gen`, `_sent_at`, `_seen_rejected` | `edit`, `flush`, `on_snapshot`, `commit`, `apply_replay`, `seed` |
| Editor link | `tinyplug/tiny_state_link.hpp` | an editor side, the wire down, a poll, `_commit_wanted` | `sync`, `commit`, `load`, `flush` |
| Undo history | `tinyplug/undo_history.hpp` | undo and redo stacks, the open step, the step held for a document | `process_actions`, `end_frame`, `record_state`, `settle`, `push_host_load`, `amend_host_state` |
| Edit stream and action queue | `tinyplug/edit_stream.hpp`, `action_queue.hpp` | open gestures | `normalize`, `close_all` |
| Edit store | `tinyplug/edit_store.hpp` | the view model (undoable and restored part), the window's size, the published record | `load`, `end_frame`, `resized`, `record`, `replay` |
| View session | `tinyplug/tiny_view.hpp` | the frame's actions | `run_frame`, `close_session` |
| Records | `tiny_core/edit_record.hpp`, `state_record.hpp`, `state_adapter.*` | none | what a session chunk holds, per format |
| Queues | `tiny_core/lock_free_queue.hpp` | ring, read and write positions, per-thread read positions | `push`, `pop` for spsc, spmc, mpsc, mpmc; `Overwrite_queue` |
| Change set | `tiny_core/change_set.hpp` | per-key state word, the list of changed keys | `push`, `push_n`, `consume` |
| Wire | `tiny_core/wire.hpp`, `web/js/wire.js`, `pump.js` | a ring of framed entries, a store of one frame | `push`, `drain`, `pump_ring`, `pump_store`, `publish`, `take`, `wipe` |
| Pending load | `tiny_core/pending_load.hpp` | the load that waits for the main thread | `post`, `take`, `drop`, `peek` |
| Task manager | `tiny_core/task_manager.hpp`, `source/task_manager.cpp` | lanes, `running`, `stopping`, the main queue | `post`, `run_one`, `shutdown`, `bind_main`, `run_main` |
| Small executors | `serial_queue.hpp`, `task_launcher.hpp`, `notification_queue.hpp` | queue, flag that a drain is scheduled | `post`, `drain` |
| Relay | `relay.hpp`, `source/relay.cpp` | subscribers, a tick that is owed | `post`, `stop`, dispatch |
| Worker runner | `tinyplug/tiny_worker.hpp` | inbox, outbox, the worker's thread | `start`, `stop`, the two drains |
| Logger | `tiny_core/source/tiny_log.cpp` | a ring with a sequence number per cell, the drain thread | `push`, `flush`, the destructor |
| Stream sync | `tinyplug/stream_sync.hpp` | the format last announced, what to restart, the offline hold | `configured`, `next`, `restart_values` |
| Host bypass and ramper | `tiny_dsp/host_bypass.hpp`, `linear_ramper.hpp` | bypass request, committed bypass, ramps, delay line | `set_latency`, `admit`, `process` |
| Meters and blocks | `tiny_core/tiny_meters.hpp`, `tiny_blocks.hpp` | accumulators, mailboxes, sequence numbers | `publish`, `post`, `read` |
| Notes | `note_ids.hpp`, `note_out.hpp`, `tinyplug/tiny_note_io.hpp` | live notes per key, inbox and outbox of a block, the member channels' bends | `name`, `release`, `resolve`, `push`, `reset` |
| Process slicing | `tinyplug/tiny_process.hpp`, `timeline_resolver.hpp` | the block's events, the parameters' ramps | `resolve`, `at_offset` |
| MIDI, parameters, text | `midi_codec.hpp`, `tiny_params.hpp`, `param_text.hpp` | none or local | encoders, decoders, formatters |
| CLAP, VST3, AUv2, AUv3, AAX, web | `wrappers/*` | host values, queues to the processor, the latency proposed, pending and accepted, the chunk | the host's callbacks |
| Pointer input | `tiny_platform/source/*_view.*`, `tiny_core/tiny_input.hpp`, `gesture_recognizers.*` | buttons and touches held, capture, focus; each recognizer's phase | the platform's callbacks, `consume`, `update` |
| Text fields | `tiny_platform/platform_text.hpp`, `source/*_view.*` | the native field up, the one that goes | `show`, `finish`, `cancel` |
| Dialogs | `tiny_platform/source/*_dialogs.*` | requests queued, the sheet that is up | `on_open`, `on_save`, `on_text`, answers |
| View life | `tiny_platform/source/*_view.*`, `window_registry.*`, the wrappers' views | native view, display link, registry of windows, `shown` | create, show, hide, frame, destroy |
| Theme watcher | `win_view.cpp` | a thread, an event, a flag | constructor, destructor |
| Graphics, UI widgets, DSP | `libs/tiny_graphics`, `tiny_ui`, `tiny_text`, `tiny_dsp` | surfaces, layouts, filters | drawing and arithmetic |

### How they interact

    editor (UI thread)                          processor (audio thread)
      Editor_link::sync                            Processor_side::begin_block
        poll  <-- snapshots {applied, rejected, T}, gen --  pump (a timer, _readers)
        flush --- edits {apply, seen_rejected, base, next}, seq -->  on_edit -> Store::load_bytes
      Undo_history  <- commit / replay ->  Editor_side
      meters, blocks <-- mailboxes, relay, rings -- Meters::publish, Blocks::publish
    host (any thread)
      load -> on_session_load -> Store::reset_to          save -> snapshot -> Store::save
    wrapper
      host values <- automation, editor, load      change set / queue / packet -> processor
      latency: processor proposes -> main tells the host -> host restarts -> processor adopts

In CLAP and the Audio Units both wires are calls on the UI thread (`connect_in_process`).  In VST3,
AAX and on the web they are messages, and snapshots wait for the UI thread in a
`Data_port` (`connect_remote`).  AAX and the web carry them, with everything else that crosses, through
rings and stores of bytes that only a copy reaches (`wire.hpp`).

### What is hard

* **No lock on the audio thread.**  It exchanges atomic words with a reader and a requester that may be
  anywhere inside their own calls.
* **Two authors of one document.**  The editor shows its edits before the processor has them, and
  the processor writes the document too.  Refused edits are re-run; edits already sent on the assumption
  that the refused one landed must not land.
* **Acknowledgements by watermark.**  Two numbers travel with each snapshot; each gesture waits for them.
* **Publication in two steps.**  The document is exchanged, and a counter that readers gate on is bumped later.
* **Session loads** replace the document, the values and the view at any point of all this, from a thread of the
  host's, and a save may follow before the load has arrived.
* **Latency is a handshake** between the processor, which may want another at any block, a main thread that
  tells the host, and a host that restarts when it likes, or never.
* **Values have three homes** (host, editor, processor) and several roads between them, some of them bypassed
  or restarted while a value is on its way.
* **Teardown**: tasks, worker threads, callbacks owed to a main thread, display links and dialogs, against
  their owners' destruction.
* **Six hosts and four platforms** that order one and the same calls differently.

## Modules

Each module says at its head what it models; each definition carries the name of the function or
of the state it stands for.  Mutants ("Mutant: ...") are definitions of their own, used only
to show that a property can fail: each changes one definition the way a bug would.

Components that share nothing are checked in one run, as a *sum*: an `MC_` module instantiates
each, a behaviour is about one of them, and what it is not about is `None`.  A property of the sum
says what it says of the one component the behaviour is about.

### The document protocol (`MC_Store`, `MC_StateSync`, `MC_Processor`)

| Module | Models | Correspondence |
|---|---|---|
| `StateMerge` | `state_merge.hpp`, the three policies | A document is a function from cells (the byte regions edited as a unit) to contents; a patch is a pair of documents; `Moved` is its footprint, `Drifted` is `drift != 0`. |
| `LatestValue` | (abstract) | A register of whole values: published, taken, delivered. |
| `Store` | `state_store.hpp` | One step per atomic load, exchange or copy.  `ready`/`fresh` are the word `_ready`, `stage` the word `_stage`; a filling requester is `request # None`, a save in the pair `reading = "staged"`, the audio thread in it `block = "applying"`.  `acquire` is `AcquireNothing`, `AcquireStaged` and one action for each thing the staged patch may come to; `release` is `FinishClean`, `PublishExchange`, `PublishRecycle`, `Release`. |
| `ProcessorSide` | `Processor_side` of `tiny_state.hpp` | `EXTENDS Store`: each of its actions is one of the store's, under the lock `_readers` (`call`) and with the counter `_edits`, or a step on the counter alone: `Bump` is the store to `_edits` that `~Block` makes after `finish`, `LoadEnd` the copy `on_session_load` makes of it. |
| `StateSync` | `Editor_side`, `Processor_side`, `Editor_link::load` | The two sides with the wires between.  A block is one step here, with its publication; `Store` and what is proved of it are the licence for it.  `Edit`, `Flush`, `OnSnapshot`, `Rebuild` are the editor's functions of those names; `pending` is a sequence of `{run, seq}`, the watermarks are `sentAt`, `seenRejected`, `gen`, and on the processor `applied` and `rejected`. |
| `StateSyncProofs` | | see *Proofs* |

`ProcessorSide` is the atomic steps without an editor, `StateSync` the two sides without the atomic
steps.  The first explains what the second assumes of the pump: a snapshot holds the changes its generation
stands for (`CarriesWhatWas`), and the last of them is sent in the end (`LatestArrives`).

### What a block sends (`MC_Processor`)

| Module | Models | Correspondence |
|---|---|---|
| `Meters` | `tiny_meters.hpp`, and how each wrapper carries a meter | One meter of each policy; `Raise`, `Publish`, the route (direct, VST3's output parameter, a ring), `Post`, `Read`. |
| `Blocks` | `tiny_blocks.hpp`, and how each wrapper carries a frame | A frame is the number of edits made to the staging when it was published; in process, by message, by store. |
| `ByteRing` | `Byte_ring` and `pump_ring` | Cells of the 8 bytes everything is padded to; positions are free-running; a remote reader copies, and tells its own position afterwards.  Three paths: AAX's returns, its inbound batches, the web's split. |
| `BlockStore` | `Block_store`, `pump_store`, AAX's wipe | A sequence word and two slots, copied word by word from afar. |

### Cells and rings (`MC_WaitFree`)

| Module | Models | Correspondence |
|---|---|---|
| `DataPort`, `DataPortAudio` | `data_port.hpp`, its two directions | The control word as `index`, `busy`, `dirty`; a copy of a `T` begins, is half done (`Torn`), and ends. |
| `LockFreeQueueProofs` | | see *Proofs* |
| `ChangeMap` | (abstract) | The newest change per address, delivered together. |
| `ChangeSet` | `change_set.hpp` | The word `{READ, PENDING, MERGING}`; a push is `Route`, then `Claim`/`Put`/`MergeEnd` or `Clear`/`Put`/`FillEnd`. |
| `Fifo` | (abstract) | A bounded queue. |
| `LockFreeQueue` | `lock_free_queue.hpp`: spsc, spmc, mpsc, mpmc | `kind` says which sides are used by many.  `push` and `pop` are one algorithm, seen from the two sides: `Begin`, `LoadBound`, `LoadCount`, `Scan`, `Enter`, `Claim`, `Again`, `Settle`, `Access`.  `late` holds stores of `temp` that other threads cannot see yet: `Publish` may leave one there, `Land` makes it seen, and `Claim` may come first, for it is relaxed (`unseen`, `overtaken`). |

### Threads (`MC_Threads`)

| Module | Models | Correspondence |
|---|---|---|
| `Logger` | `tiny_log.cpp` | The ring's cells and sequence numbers, the drain thread's batch, `flush`, the destructor. |
| `TaskManager` | `task_manager.cpp` | Tasks are counted per lane, `running` and `stopping` are the code's; `shutdown` is called from outside, from a task, or from two at a time. |
| `Relay` | `relay.cpp` on its three platforms | A post sets a flag; Apple's timer, Windows' shared dispatcher and the browser's interval each turn it into a call on main; `stop` comes from any thread, or from inside the call. |
| `WorkerRunner` | `tiny_worker.hpp` | The loop with its sleep, its drain and its last pass, against `stop`. |

### The editor's main thread (`MC_EditorFrames`)

| Module | Models | Correspondence |
|---|---|---|
| `UndoHistory` | `undo_history.hpp`, `edit_stream.hpp` | Every operation as an operator on a record of the class's fields; 0 stands for an empty index. |
| `EditorFrames` | `tiny_view.hpp`, `action_queue.hpp`, the undoable part of `edit_store.hpp`, the committing half of `tiny_state_link.hpp` | One step per thing a user, a host or the processor does, and one for each half of a frame (`BeginFrame`: up to the draw; `FinishFrame`: from there to the end).  A poll says how much of what was sent has landed, or that the processor wrote and refused the rest. |

`EditorFrames` composes components whose calls of each other are what is hard: the history asks its
sources to commit, the document's link answers later, or while the next step is open.

### The wrappers (`MC_Hosts`)

| Module | Models | Correspondence |
|---|---|---|
| `StreamSync` | `stream_sync.hpp`, `host_bypass.hpp` | Operators on a record each: what a configuration restarts, the offline hold, a skip of bypassed blocks; the bypass asked for, committed and faded, the dry signal's delay.  The plug-in's own processor is external: one parameter that also chooses its latency, and the notes it sounds, as the interface obliges it. |
| `Clap` | `clap/source/plugin.cpp` | Main and the audio thread, `process` cut where main can be seen; the latency handshake with `request_restart`; load, flush, reset. |
| `Vst3` | `vst3/source/audio_effect.cpp`, `controller.cpp` | The two objects and the host between them, for two kinds of host. |
| `Auv2` | `auv2/source/effect.cpp` | The parameter store, the queue, the bypass epoch, `Render`, loads that wait for main. |
| `Auv3` | `auv3/source/extension/audio_unit.mm`, `DSPKernel.hpp`, `AUProcessHelper.hpp` | The unit, the kernel's inbox and its slices. |
| `Aax` | `aax/source/parameters.cpp`, `alg_proc.cpp`, `direct_data.cpp` | The data model, the packets, the algorithm, the Direct Data timer, chunks and their cache. |
| `Web` | `web/source/controller/controller.cpp`, `processor/module.cpp`, `web/js/{wire,link,host}.js` | Controller and worklet, isolated or linked by messages. |
| `Notes` | `note_ids.hpp`, `note_out.hpp`, `tiny_note_io.hpp`, `midi_mpe.hpp` | What every wrapper does with a block's notes. |
| `Session` | `edit_store.hpp`, `edit_record.hpp`, `state_adapter.*`, and save and load of each wrapper | `EXTENDS UndoHistory`.  An instance is its editor's half, its processor's half, the view, the size, the published record and the history; a chunk is what its reader can tell apart.  `Told` is what a load sets a parameter to, by one rule per family of formats (`ByName`, `ByPosition`, `OverGlobals`, `OverTree`); `LoadSize` and `LoadView` are `Edit_store::load`; VST3's load is three actions. |

`Session` is about what a load leaves, not about when it arrives: that is what the wrappers' own modules (`LoadsStay`),
`Store` and `StateSync` are about.

### The editor's window (`MC_Window`)

| Module | Models | Correspondence |
|---|---|---|
| `PointerInput` | the four platforms' views, `tiny_input.hpp`, the recognizers | Callbacks push events, a frame consumes them and hands them to the recognizers of one control. |
| `TextField` | the native text fields | Everything that ends a field, and a control that goes away later than its answer. |
| `Dialogs` | the four platforms' dialogs, the task manager's main lane | A request to the view's thread, its turn, its panel, its answer, against the view's end and the shutdown. |
| `ViewLife` | platform views, `window_registry`, every wrapper's view | Native view, display link, delegate, wrapper's `View`, under six hosts. |
| `DarkModeWatcher` | `win_view.cpp` | The thread that waits for the registry, and its join. |

## What is checked

Every run also checks a type invariant.  Deadlock is checked in `store`, `store_save` and `wait_free`, whose
threads may never block each other; where a configuration says `CHECK_DEADLOCK FALSE`, a behaviour ends
because its budget of calls is spent, and that what is under way ends properly is a liveness property of the run.

| Run | Bounds | Shows |
|---|---|---|
| `store` | 2 cells with 2 contents; sequence numbers up to 3, one session load; scenarios *patches* (every policy, every order of coalescing, superseding and refusal, no reader) and *readers* (one patch, a save or a read at every step) | `SlotsApart`, `StagedApart`: nobody shares a slot or the staged pair.  `AppliesWhatWasMoved`: a block applies exactly the cells the staged patches moved.  `Refines`: what readers take is a register of whole records. |
| `processor` | one sum of five.  The store under a pump whose wire may refuse: two published blocks, one patch, one load, one write.  A meter: heights up to 2, 4 blocks, a ring with room for 1.  Blocks: 3 frames, 2 messages, one bounce.  Rings: 4 cells, entries of 1 or 2, three entries.  Stores: 3 publications, 2 words, 3 copies, one wipe | `CarriesWhatWas`: a snapshot holds the changes its tag counts, a peak keeps its height, a trigger or frame is news once, no byte of a ring is overwritten unread.  `LatestArrives`: each change, level, frame and entry gets there in the end, and never an older after a newer.  `LoadReturns`. |
| `state_sync` | 2 cells that remember every write in order; plans of at most three gestures and two writes, one load or one resend; wires that hold 2 messages and refuse the third | `LinkSound`: the view is the confirmed document with the outstanding gestures run on it, and none is retired that did not land.  `NothingLost`: no write is undone, and none is made twice.  `ConvergesUnloaded`. |
| `wait_free` | ports: 3 values; change set: 2 addresses, 3 batches; queues: 2 slots, 3 pushes, two threads a side, every kind, and a registry that is full; one writer of the mpsc queue's two stores late | `NeverTorn`, `Exclusive`: no half-written value, no two threads in one slot.  `Refines`, `OthersRefine`: each is its register, map or queue.  `NothingOwed`. |
| `threads` | log: 2 writers, 2 slots, batches of 2, 3 records; task manager: 2 posts, one or two tasks that shut it down; relays: two, each platform; runner: queues of 2, 3 messages | `LogSound`, `StopIsFinal`: nothing of an owner's runs once its stop or shutdown has returned.  `ShutdownReturns`, `PostsArrive`. |
| `history` | plans of a handful of calls each: touches, transactions over unconfirmed edits, refusals, undo and redo, more state than the budget of 2, host loads | `FramesSound`: stacks within their budget, indices name the step they mean, the host sees whole gestures.  `StepsMeetInOrder`: the end of each step is the start of the next.  `HeldLands`. |
| `hosts` | the six wrappers and the note plumbing; two values (the value is the latency), a hold and a fade of one block, rings and queues of 1 or 2; some thirty plans of two to five calls each, explored in every order, among them AAX's loads and saves from two threads, two loads in a row, and a save begun at each of main's steps.  Sessions: three parameters, one of them not persistent; two documents, views and sizes; six plans of three to five calls; an undo budget of 2; five to seven foreign chunks per format | `ValuesAgree`, `LatencyAgrees`, `NoStaleRun`, `LoadsStay`; `NotesEnd`, `SourcesApart`: no note sounds that its host cannot end.  `SessionReturns`: both halves come to hold what a chunk says, a chunk saved here returns as it was saved, nothing is left of the session before, a load is one undo step, and AAX's compare light is off after it. |
| `hosts_settle` | the first plans of each wrapper, under fairness | `Settles`: the latency the processor wants is adopted and told, a held offline render starts |
| `window` | four platforms, six hosts; two fingers and a mouse, 2 or 3 callbacks per view; 3 fields; 2 requests, a sheet waited for twice; three openings of a view; three changes of theme | `GesturesEnd`, `AsksAnswered`, `EditorIsTold`, `WatcherEnds` |

Why these bounds.  *Store*: with two cells a patch can meet a foreign write inside and outside its
footprint; three sequence numbers are needed for a patch that supersedes one diffed before a
refusal.  *Processor*: a second publication is what can be skipped or sent twice; a ring of 4 cells with entries
of 1 and 2 (and a header each) wraps in the middle of an entry, and at its end without room for one; three
publications into two slots bring the writer round to the slot a copy is still reading.  *StateSync*: three
gestures make one confirmed, one on the wire and one local; two messages make one that is coalesced with the staged
patch and one that arrives after.  *WaitFree*: one more push than slots brings every writer round to a
position a reader has been at.  *Threads*: two tasks, two posts and two relays are what can wait for each other.
*History*, *Hosts*: the plans separate what the hazards separate (a gesture over an automation, a load over a
flush, a proposal over a cycle, a bypass over a reset); each is explored in every order.  Two values make a
latency that changes and one that changes back.  *Sessions*: with two persistent parameters a chunk can end between
them; two loads in a row are what can leave something over, an edit or a resize before one is what it may take
for its own, and an undo and a redo after it see the whole step.  *Window*: a third callback is needed for a
second button inside a first one's drag, a third opening for a view that closes while its successor opens.

Three statements of the source are refuted, each by a run of its own:

| Run | What the code does |
|---|---|
| `store_save` | `save()` between a block's take of the loaded pair and its publication answers with the document the load replaced. |
| `state_load_converge` | `Editor_link::load` consumes a snapshot newer than the load it seeds over it; the editor stays behind. |
| `dialogs_once` | A prompt cancelled on the web calls back nobody, though "every one of them fires exactly once, on every path". |

## Fairness

Nobody is assumed to edit, write, save, load, press a key or start a block for a component's own sake.  What has
begun runs on:

* `Store`, `ProcessorSide`: a block the host opened is closed; a call of the requester's or the reader's
  makes its next step.  The pump runs on a timer (weak fairness is not enough, for the lock may be held each
  time it comes: a mutex that is free again and again is got), and a wire that refuses for ever is
  no wire (`Pumped`).
* `StateSync`: messages are delivered, the host calls process, the UI calls `sync` each frame.
* Meters, blocks, rings, stores: the mailbox's relay, the pump and the timer run, the editor draws, and the audio
  thread goes on processing (`Carries`, `Draws`, `Measures`).
* Ports, change set, queues: threads run on, `compare_exchange_weak` does not fail for no reason for
  ever (strong fairness on `Claim`), consumers ask again.  The change set's producer and the ports' writer get none
  to start with: `NothingOwed` says what follows once they are silent.
* The log's drain thread, the task manager's lanes, the main thread that pumps, the relays' timers and the runner
  run on (weak, one condition each).  No task is assumed to call shutdown.
* `EditorFrames`: draws return, and a frame hears in the end how the edits it sent fared
  (`BeginsHearing`, strong).  That is what `StateSync` and `ProcessorSide` show, assumed here.
* The wrappers: a step under way goes on (`Steadily`: main, the audio thread inside a call, the pump, messages);
  hosts that say they restart, read the latency again, reach a transport start or render do so again and again
  (`Again`, strong, for the two sides take turns).

## Proofs

The theorems hold for every set of values, documents, addresses, threads, requests and writes, and every number of
slots, blocks and calls.  `MC_Processor`, `MC_Threads`, `MC_Window`, `MC_Hosts`, `ChangeSet` and `MC_WaitFree` hold theirs
beside the specification; a sum's theorem follows from its parts' by `EachAlone` (`OneAtATime`, `EachOnly`): a behaviour
of the sum is a behaviour of each part.  Each safety invariant named here was first checked by TLC, and is proved by `Init => Inv`,
`Inv /\ [Next]_vars => Inv'`, `Inv => property`.

Assumed of the constants, each in the module that declares it, and evaluated by the runs:

| Assumption | Says | Because |
|---|---|---|
| `DataPortAssumption` | `T{}` is a value, a half-copied `T` is none | what `Torn` stands for |
| `StoreAssumption` | cells, contents and `None` are apart; bounds are naturals | the model's own |
| `ChangeSetConstants` | a batch is a change for some addresses; "no change" is none | the model's own |
| `QueueAssumption` | at least one slot; a side that is not used by many has one thread; any of them may be `slow` (its stores are seen late) | spsc, spmc and mpsc ask that of their callers |
| `LogAssumption` | at least two slots, batches of at least one | the ring has 1024, a batch is what 32 KiB hold |
| `TasksAssumption` | of a scenario's callers of shutdown, one at most is outside the manager's tasks | each wrapper calls it in its destructor (`task_manager.hpp:17`) |
| `SyncAssumption` | `None` is no document and no staged patch; a plan is about known gestures, writes and documents; a wire holds a message at least | the model's own |
| `DocsClosed` (a hypothesis of `LinkIsSound`) | a gesture or a write makes a document of a document, and so does a merge of three | they are functions `T -> T`, and a merge copies bytes of one `T` into another; a hypothesis because the run's documents are infinitely many |
| `ProcessorSum` | `None` is no meter's slot; a ring has a cell at least, and a size its entries have; bounds are naturals | the model's own; `Byte_ring` asks for a capacity, and its header is one cell |
| `InputAssumption` | `None` is no pointer; a view's events between two frames are bounded by a natural | the model's own |
| `NoneApart` | `None` is no value of a parameter | the model's own |
| `LatenciesBounded` | a latency is a number of samples, nought is one, and there is a longest | the plug-in declares a maximum (`max_latency_of`), and a longer proposal is refused (`admit`) |
| `NotesCounted` | the table, the boxes and a block have so many slots, entries and frames; `None` is no number | `Note_ids::capacity`, the boxes' rooms |
| `SessionsRecorded` | a session says a value and a bypass | what AAX's chunk holds of them (the model's own) |
| `RingsTake` | the web's rings and AAX's ring of returns take an entry at least | they are sized for many (`wire_layout.hpp`, `alg_context.hpp`) |
| `WindowAssumption` | `None` is no view and no outcome; each wrapper is on the systems its format is for | the formats |

### Store and processor side (`MC_Processor`)

* `TypeCorrect`: `Typed` is `TypeOK` strengthened by `Counted` (the era of a replacement being filled
  is still within its bound), one lemma for each thread's steps.
* `ThreeSlots`: `Apart` adds to the three disjoint slots where `prev` is while the audio thread
  recycles: it is then neither published nor the reader's, though `back` still is the published one.
* `OneInThePair`: `Inside` ties each holder of the pair to the value of `_stage` it put there, and so to each other.
* `RefinesRegister`: the outbound half of the store is `LatestValue` of whole
  `{value, applied, rejected}` records: an acknowledgement never runs ahead of the document it describes.
* `AppliesMoves`: a block applies exactly what its patches moved.  `Authored`: of what is staged, a cell has what its
  authors set it to, or what the patch found there; coalescing adds the same moves to both sides of the patch,
  superseding drops both.
* `SideIsStore`: the processor's side, with its lock and its counter, is a behaviour of the store, so everything above
  holds of it.
* `PumpCarriesItsChange`: a snapshot that went out under a generation holds the changes that generation counts.
  `Numbered`: the counter is behind by the block under way only, and the slot to be read next holds the last
  publication.  `PumpAhead`: once a pump is done rotating, its slot is no older than its tag; this is where the order of
  `pump`, the counter before the slot, is used.  `SideTypeCorrect` comes with it.

### The link (`StateSyncProofs`)

* `LinkIsSound`: for all documents and gestures, any number of them, of refusals and of loads.  `RetiredLanded` is what two
  watermarks say of many patches, and is far from inductive.  `Tracked` says where a gesture is that went out under a
  number and has not landed: in its patch on the wire; or among what is staged carries; or it was turned down, the
  editor has yet to hear so, and nothing staged is a replacement (`Kept`).  An acknowledgement never reaches that
  number.  `Carries`: each Overwrite sent since has it too, so one that takes the place of what is staged
  brings it along.  `Fresh`: each patch sent since was diffed knowing every refusal the editor has heard of, so nothing
  supersedes it but an Overwrite, and a block that finds it stale has a refusal the editor has not heard.
  `Counted` orders the numbers: what is answered, staged, on the wire, in that order.
* `ViewIsReplay` is about a replay, which is recursive.  `LeastNatural`, that a set of naturals that is not empty has a least
  element, does for what induction would (`Climbs`): from it follow that a replay is where any run of its gestures ends
  (`ReplayRuns`), and so what it makes of nothing, of one gesture more, of two parts, of the same gestures under other
  numbers (`ReplayNothing`, `ReplayMore`, `ReplayParts`, `ReplaySame`).

### Ports, change set, queues (`MC_WaitFree`, `ChangeSet`, `LockFreeQueueProofs`)

* `ReaderNeverTorn`, `AudioNeverTorn`, from `IInv` and `AudioInv`: BUSY is set exactly while the thread on main is inside
  a call; only the writer's slot is half-written and only between two bytes of a copy; an exchange under way has
  found DIRTY, which only it clears.  `NeverTorn` alone is not inductive: a reader that exchanges at the wrong
  moment needs to know that the word says where the writer is.
* `MainRefinesRegister`, `AudioRefinesRegister`: each step publishes, takes, delivers, or changes none of
  the three; the value counts as published as soon as no reader can get an older one.
* `ChangeSet!NeverInOneBuffer`, `RefinesMap`.  `Held`: what the word says while either side relies on it (a producer filling
  a free buffer, or holding the pending one, knows that nobody takes it).  `Whole`: what is in the buffer being
  filled and what is still to be put there make up the batch that was pushed, so that a delivery has whole batches.
* `OneInASlot`, all four kinds, any number of threads and slots.  `Own` and `Pair` say what a thread inside a call knows:
  its position is its own; what it found when it looked at the other side (`Floor`) is not above any position
  held there, and while it still looks, those below are yet to be looked at; so neither side gets further than the other
  allows (`Abreast`).  Two positions in one slot are a ring apart.  No order of the stores of `temp` is assumed: all this
  is said of positions whose scope was seen before they were taken (`Shielded`), and as long as none was taken otherwise
  (`Counted`) that is all of them.
* `RefinesFifo`, all four kinds, until a position is taken before its scope is seen (`overtaken`): the positions that were
  claimed and not popped, each with what it holds or its writer is about to put there, are the abstract queue.
* `EachTyped`, `NobodyElse`, `EachImplements`: the same of the sum the run `wait_free` checks.

### What a block sends (`MC_Processor`)

* `WhatWasIsCarried`, by an invariant for each of the four that have no proofs of their own above.
  * Meters (`MeterInv`).  `Loud`: a peak that is owed is louder than what is shown, and no louder than one of the places
    it can be in: held, on the wire, being posted, in the slot.  What was taken from a slot is gone from it, or was shown;
    what the host delivered last is there, or was shown: otherwise a level that comes again would pass for news.
    `Sending`: a slot is posted to by one thread, so its count moves under nobody; it never runs ahead of the blocks.
  * Blocks (`BlockInv`).  `Underway`: what is pending, unread, unfetched or in a message, and what was news already, are
    no more than what was published.  `Aged`: the places from the editor back to the processor hold frames each as new as
    the next.
  * Rings (`RingInv`).  Each ring has a log of the entries laid out in it and where each ends; what was begun, written,
    published, known and used of it only grows (`Produced`, `Consumed`), and a cell at or above `read_pos` holds what the
    log says was written there last (`Laid`): a producer judges the room by a `read_pos` it loaded, which is never ahead
    of the consumer's, so two entries that are both in the ring have no cell in common (`CellsApart`).  The pump's
    source counts the entries of each kind in its log: those it has passed are what the ring of that kind was given
    (`Routed`), and one under way is still in its hand.
* `NeverOlderShown`: `Aged` makes every draw's frame as new as the last one's.
* `StoresRefine` (`StoreInv`).  The slot the word points at is whole and is not written while the word says the same
  (`StoreHas`); so a reader that finds the word it began with has copied one frame.  `PumpedOnce`: the pump's next store
  is only given what its source's reader has seen.
* `EachIsTyped`, with the positions of a ring within its size of each other.

### Threads (`MC_Threads`)

* `LogKept`.  From `Done`, the first position whose cell was not given back, the next `Slots` positions have a cell each:
  its record, a thread copying it, or free (`Placed`, `Holds`, `WriterAt`).  What was claimed and popped is
  written, or in the batch (`Traced`); nobody logs past the stop, and the last drain takes everything or a whole batch
  (`Ended`).  That two positions less than a ring apart have different cells, and a cell comes round after one, are
  lemmas on `%`.
* `NothingAfterStop`.  `TasksInv`: `running` is the number of tasks inside, a caller that is past the wait is
  alone, a closed manager has nothing queued.  `RelayInv`: past the lock of its stop a relay is not being called, unless main
  stopped it from inside a delivery.  `RunnerInv`: an active worker's thread is in its loop; a stop that is not done has
  one to join.
* `ThreadsTyped`: the type invariants.

### The window (`MC_Window`)

* `EveryGestureEnds`, for any fingers and any number of events between two frames.  `GesturesEnd` speaks of the moment when
  nothing is held and all was heard; `InputInv` of every moment.  `QueueInv`: a press that waits is of a pointer still held,
  or has its release behind it, and there is a release between two presses of one pointer.  `DragInv`, `DownInv`,
  `HoverInv`: so has what a recognizer holds, or its release was missed (`missed`: a lost capture nobody hears of).
  `HoverInv` is about touches, which have no exit: a finger over a control ends, and one that may come to dwell ends
  in the same frame.  A callback only has to be `Fair`: what it no longer holds it has pushed the end of (`PushKeeps`).
  A frame's consolidation is a recursive function; that it drops nothing but moves and keeps the order (`Picks`) follows
  by `Climbs`, from the least natural of a set.  `WindowIsTyped` comes with the five.
* `AsksHaveOneAnswer`.  `FieldInv`: a call is answered as often as it has ended.  `DialogInv`: `Fate` says how many
  answers a request has by where it is; `Text`, that a text input has its buffer for itself unless it is known to share
  it; a Mac panel's loop is the innermost when it ends.
* `EditorFollowsItsHost`.  `LifeInv`: the editor is there as long as its wrapper has a view, opened as far as the
  host asked last (`Opens`); only the wrapper's own view reaches it (`Known`), and frames follow it (`Framed`).  Every
  exception is an untimely call the model names in `lapses`.
* `WatcherIsWoken`.  `WatcherInv`: a destructor that stopped the thread left it a signal, or before a place where it looks at
  `_stop`, unless it raced; an open view has the theme's colours, or a change on its way to it.

### The wrappers (`MC_Hosts`)

* `ProcessorsRestart`, for the six wrappers and any plan of calls.  That a running processor is not stale is not
  inductive: a block decides early what it does late.  `ClapInv`, `Vst3Inv`: a stale processor is one `Stream_sync` knows
  was skipped, and from the decision to the end of the block what was decided of the bypass is what the bypass says
  (CLAP decides before the host's events, VST3 after its points), so that a block that runs has restarted what it did not
  hear.  `Auv2Inv`: or a restart is still to come, which an offline render's head may hold back.  `Auv3Inv`: or the bypass
  changed between the slices of a render, the exception its property names.  `AaxInv`: there the private data remembers
  the skip, and a reset leaves nothing of it.  `StreamGoesOn` is what they need of `Stream_sync`: only a restart of the
  stream takes no note of a skip, only a hold goes by without a restart that is due, and a format that never holds is
  never told to.  `ClapStream` and its like: all but AAX have that one.  A wrapper's lemmas follow its `INSTANCE`
  in the module, before the next one, since the prover's time grows with what is in scope.
* `LastLoadIsKept`, for any plan of calls.  `Auv2Loads`: of what waits for main there is one thing at most, a state or a
  preset, and it is what was chosen last; the AUv3 has its state only.  AAX has a mirror, a cache, loads from two threads
  and saves in between.  `AaxCached`: a chunk's key is never ahead of the revision; while main is free, one whose key is the
  revision was made of the mirror as it is, since every list of updates ends by counting it (`UpdatesStep`), and while main
  moves a field, of what the mirror was at the last count (`counted`, a history variable) or is by now (`Between`).
  `AaxChosen` follows the load asked for last through the cell, `main` and the mirror until something else moves it.
  `AaxSaved`: a save has among what it `said` each state the mirror had since it began, answers field by field with one of
  those, and with the load it follows if main moved nothing meanwhile.  Nothing is assumed of the plans.
* `OneLatencyHolds`.  In the native wrappers (`ClapLatency`, `Vst3Latency`, `Auv2Latency`, `Auv3Latency`) the wrapper
  answers with what the processor goes by or with what the next block will make it go by (`Answers`), and nothing is
  proposed or accepted that the delays do not reach (`Handshake`), so the dry signal's delay is never cut short: that
  is what `admit` is for.  AAX: `AaxPackets` orders the host's answers, so that none on its way is newer than the last and
  only the last is like it; `AaxRuns` says what an algorithm goes by that has taken the last, with the ring empty and no
  answer awaited, whatever resets came before, wiped or not.  The web: `WebLatency` follows the last word on the latency
  up the ring, the posts and the controller's inbox (`SaysLast`), which a step may move but nothing overtakes, until the
  page shows it or the wire drops an entry.
* `ValuesMeet`.  `ValuesAgree` is about rest; the invariants say where the value is until then.  `ClapValues`: the
  processor has it, or one of what is on its way does (a load's, a flush's, a "set" of the editor's queue, a block's own
  first event), or `late` or a resync says why not.  `Vst3Values`, `Auv2Settles`: in the middle of a block it is what the
  events left of it come to (`Comes`: the last of them that writes, `ComesOn`, `ComesLast`); `Vst3Values` also follows
  the editor, whose queue holds the controller's value.  `Auv3Values`: late, or changes wait, or it is there.
  `AaxSent` and `AaxTaken`: the last packet posted, or else the one the algorithm reads, is the last segment, a segment
  that is not dirty is made of the parameters, and an algorithm that has taken the last one runs by them.  `WebValues`:
  down the ring, the posts and what has landed, the last word on the value and on the bypass is the page's.  Both ways
  of the web's wire use the same lemmas: `NewestMoves` (two lists in a row), `NewestPushed`, `WireMoves` (a pump, a post
  and a landing lose no last word).
* `EveryNoteEnds`.  Notes: that nothing hangs between blocks says nothing of the middle of one.  `NoteInv` follows what
  will sound further down once the box went out (`Heard`): while notes pass by the bypass each is a note held; otherwise
  each is a voice of the processor's, or the processor sends its end.  A note the processor has yet to start it still
  has, or ends after it.  The box is in time order as it is filled (`Sorted`), so its last word on a note is the last
  that was put in; every note held has an id of its own, below the next (`Table`).  The wrappers: `AaxSounds` and
  `WebSounds` are the property; `Auv2Sounds` and `Vst3Sounds` add that a block's note is its last event, named by the
  restart that put it there (`NoteLast`, `NotesFollow`), and VST3's that after `setActive(false)` or `setProcessing` what
  sounds without a name is cleared by the next block before it sounds (`Vst3Clears`).
* `SourcesStayApart`, from `NoteInv`: what an event means is held, and by its source (`CalledIsTheirs`).

### Only model-checked

Every liveness property (out of the prover's reach).  `NothingLost` of `StateSync`, which is about what gestures of the run do
to its documents.  The invariants of `EditorFrames`, whose histories are folds over lists
(induction over data).  Of `MC_Hosts`: `SessionReturns` and `HostsTyped`, which were not attempted.

## What the models leave out

* Contents of documents, parameters and messages; formatting; the bytes of a diff.  A cell is a region
  that one edit rewrites as a whole, so two edits of one cell always conflict.
* Memory orders other than the one in `LockFreeQueue`: every other word is exchanged with acquire and release, or is
  read by the thread that wrote it; steps are interleaved.  (In `LockFreeQueue` the
  stores of a `slow` thread to `temp` land late, but for the one that leaves the scope, and that of a single thread's position:
  seen late, those only make the other side wait longer.)
* `ProcessorSide` and `StateSync`: `Writers::Editor` and `Writers::Processor`, which lack one of the
  two authors.  In `StateSync`, `connect_remote` (its inbox is a `Data_port`).
* `EditorFrames`: the wire takes what it is given (refusals are `StateSync`'s); the document and the view are one field
  each; automation by the host; the window's size as a source (it is one in `Session`); `set_state_budget`.  A host load in the middle
  of a gesture, or over edits not committed, changes what no step can tell (`gaps`), and the chain of steps
  is not asked for there; nor after a transaction overtook steps (`overtaken`).
* `LockFreeQueue`: `Overwrite_queue`, which only tests use.  `ChangeSet` assumes one producer at a time, as
  the class requires.
* `Logger`: `TINY_PLATFORM_THREADS` is on; rotation; what happens when a sink fails.
* `TaskManager`, `Relay`, `WorkerRunner`: two callers of shutdown outside the manager; the interval of a relay, the
  failure of Windows' message window; a runner has one owner.
* Meters and blocks: the host delivers output parameters in order, and drops nothing but duplicates.  Rings and stores:
  sequentially consistent steps; of the web's pump the direction that splits, for the one that merges is the
  same `pump_ring`; entries that are malformed.
* The wrappers: one parameter, whose value is the latency; a fade in blocks; samples.  CLAP's host honours
  `request_restart`; VST3's follows the order of `setProcessing` and re-reads the latency it is told of; AUv2's
  reads it after `Initialize`; AAX's applies `SetValue` at once and does not wipe during a wakeup; nobody clamps a proposal.
  AUv3's requests off main are single steps; one saver in AAX; stem formats, busses, units and programs, value
  text.  Some recorded facts are ghosts, for properties only: what came `late` or `quietly`, what `raced`, `crossed`
  or was `switched`, what a full ring dropped (`lostDown`, `lostUp`) and a host `swallowed`.
* Notes: the host gives an event list and takes what is sent; velocities, controls and the other expressions; in a
  block that is skipped, the times of events do not matter.  MPE is on.
* Sessions: a frame is one step, an edit reaches both halves at once, and nothing comes between VST3's three calls; a
  gesture open over a load; the plug-in's own load hook, and keys of its own in the editor map; the window, which takes
  every size the store asks for; `Sizing::undoable` is true.  The bytes of a chunk: a chunk that says less than it counts
  is a damaged one.  What the Audio Units' base classes and AudioToolbox restore is external.
* Pointer input: a position is in or out of one control, one recognizer of it at a time, a layout that stays;
  `Click` and the greedy recognizers.  Text fields: one editor; what is typed.  Dialogs: one sheet at a time; what a panel
  shows; the failure of `GlobalAlloc`.  View life: UIKit shows nothing in the background; a window the host destroys on
  its own is in `TextField` and `Dialogs` only.  The theme watcher: a registry that keeps a change once asked.

## Seen while modelling

Behaviours no run reports as a finding, because nothing in the source says otherwise, or because it is a choice.
The models either contain them, and the properties say so where they except them, or leave them out as said above.

Document and history.
* An Overwrite patch that was sent before a rejection is heard lands
  after its gestures were re-armed; they stay pending with nothing to send until the next snapshot that
  acknowledges them (`ConvergesUnloaded` asks `Mixed` for the same document only).
* A load between a block's publication and its bump of the counter copies the old count; the replaced
  document is sent after it.  The next change puts it right.
* `hold` joins a transaction's step to the held one past steps that closed in between (`undo_history.hpp:324`).
  `_begun` of an `Actor` that outlives its window keeps later transactions from committing outside edits first.
* A claim is a relaxed exchange after a release store of the scope, which need not be seen first (arm64,
  `lock_free_queue.hpp:241`): an mpsc consumer may then copy a slot that is still being written, and the queue gives out what
  nobody pushed.  AUv2 has two such queues (`effect.hpp:246`).  `Exclusive` and `OthersRefine` hold with such
  stores, up to that exception and no further: `unseen` is the thread whose claim came first.

Threads.
* `flush()` of the log returns while popped records are in the drain thread's batch (`tiny_log.cpp:415`).
* Two tasks, on two lanes, that both shut the task manager down wait for each other (`task_manager.hpp:30`).
* The theme watcher's event is created by one thread and signalled by another without order; a signal before it exists
  is lost, and the join waits for the next change of theme.  Its constructor may overwrite a newer theme.

What a block sends.
* After AAX's wipe the sequence starts again at 0: if as many frames are published as the reader had seen before its next
  wakeup, the last of them is not delivered until another is (`LatestArrives` excepts it).
* The web's controller pops a worker's reply before the push that may refuse it: the reply is lost.  The pump's split holds
  back entries of one kind behind another's full ring.
* A block published during an offline bounce is dropped and not sent again.  The count that tells equal peaks apart wraps.
* A full `_events` or `_staged` of VST3 drops a note's end after its id was released; so does a full outbox for a
  note that is passed on.  CC 121 resets a channel's bend, but notes held on it keep theirs.

Wrappers.
* AAX: a save while the main thread is inside a load it took from the pending slot may answer with the state before it, or
  with one field of each, where `pending_load.hpp:10` says "a save straight after a load returns what was loaded"
  (`SaveAfterLoad` says what it may answer: each field as it was at some time since the save began); the host is asked for a latency before `_pending_latency` is stored; an answer may cross a reset.
* AUv2 restates all values when the bypass epoch moves, also the ones that did not change, and keeps a proposal unclamped; a
  state without a count of parameters sets `Globals()` without telling the processor; an older state's missing
  parameters go to their defaults with interface-only ones among them, as in AUv3, while the other formats keep those.
* A bypass change in the middle of a block's slices is seen at the next slice (`host_bypass.hpp:49`).
* CLAP: a flush followed by a load before the queue drains leaves the flushed value for the next block; notes sound on after
  deactivate.  VST3: `_host_load_pending` stays set when the controller's `setState` never comes; a controller's state without
  a component's joins the step of the load before it, as AUv2's state without a count does.
* A resize by the host is "just the size now" at the end of a frame (`edit_store.hpp:137`), but an undo or a transaction that
  comes first in that frame commits it as a step of its own (`undo_history.hpp:310`).
* The web's pushes ignore a refusal, so a value or latency that meets a full ring is told when the next one is.

Window.
* On the Mac a screen change restarts the display link of a hidden view; on iOS the view's end leaves the link
  running until its target is gone.  CLAP's `guiDestroy` without `guiHide`, and AUv2's view, end without
  `close_session`; AUv2 makes a second view before the first has gone.
* Windows paints at once when a window is shown: AAX draws before `_receiver` is set, VST3 before `on_show`.  A
  lost capture is not heard of (no `WM_CAPTURECHANGED`), and either button's release ends it.
* The end of a Windows view discards queued requests, an iOS dialog without a controller never answers, and the web's
  `later` runs a picker's callback after the task manager's shutdown.  Two editors on one thread: handing the
  keyboard back to one ends the other's field.
* A load while the window is open changes the window's recorded size without asking the host for it; a resize the
  host refuses stays recorded.

## Not modelled

Small executors (a mutex, a condition and a queue each); process slicing and timelines (sequential arithmetic on one
block, which the tests compare with a reference already); the MIDI codec, parameters and text (pure functions of floats and
strings); graphics, UI widgets and fonts (calls outward, no protocol of their own); DSP helpers (arithmetic on samples);
examples, tools and templates.

## Plan

1. Done: the document protocol, from the atomic words up to the gestures; ports, change set, queues; threads; the
   editor's frames and history; the wrappers; what a block sends; the window; sessions, across formats, versions and damage.  
2. Proofs.  Done: store and processor side, what a block sends, ports, change set, queues, threads, the link, the window.
   Of the wrappers: that processors restart, that the last load stays, that there is one latency, and that
   notes end and keep to their sources, that values meet.  Left: `SessionReturns`, the types.
3. `TimelineResolver` as a function against a reference definition.

Runs stay one per question.
