# Miximus in TLA+

Miximus is a live video mixer: a graph of nodes is edited from web clients while
a render thread executes it frame by frame, and inputs and outputs exchange
video with capture, sender and transfer threads. This directory holds TLA+
models of the parts of it where those threads meet, the TLC runs that check
them on small instances, and proofs, checked by TLAPS, of what matters most.

Paths below are relative to the repository root (`src/...` is C++,
`web/src/...` the client, `docs/...` the documentation).

## 1. The system

### Threads

| thread | runs | shares |
|---|---|---|
| render (main) | `main.cpp` loop: `tick_one_frame`, the nodes' prepare/submit/execute/complete | everything below |
| configuration | `app_state_s::cfg_executor`: web server, `handle_*` commands | node graph (under `nodes_mutex_`), status registry (own mutex), subscriber sets (no lock) |
| upload worker, readback worker | `transfer_worker.hpp`: one thread per service | streams and slots (a mutex per stream), task queue |
| capture (per NDI input) / SDK callbacks (DeckLink) | receive, copy into a lease, push | source queue, upload leases |
| sender (per output) / SDK callbacks / presenter (per screen) | take frames from readback or texture queue | readback stream, output queue |
| control executor | `serial_executor.hpp`: opens and closes devices | capture phase, device registries |
| web client | `server_sync.ts`, `App.vue`, `status_store.ts` | messages only |

### Components

* **Node graph** (`src/core/node_manager.cpp`, `src/nodes/interface.cpp`). State:
  `nodes_`, `connections_`, `dirty_nodes_`, `removed_nodes_` under a mutex, and
  the render thread's `nodes_copy_`. Operations: add/remove/update node, add and
  remove connection, tick, start-up, shutdown. Called by the web adapter and the
  configuration loader; calls adapters back. Hard: commands run while a frame
  renders an older copy; a new connection displaces others; objects must die on
  the render thread. Correct when connections and interface lists agree, no
  cycle exists, every snapshot is such a graph too and catches up.
* **Graph broadcasts** (`src/core/adapters/adapter_websocket.cpp`). No state.
  Correct when a client that applies the messages one by one has a graph after
  each of them and the server's graph after the last.
* **Frame execution** (`src/nodes/frame_execution.cpp`, `switch`, `mix_tex_2`,
  `infinite_multiviewer`). State: the sets of submitted and executed nodes of the
  frame. Hard: what execution reads depends on control values computed during
  execution, yet submission comes first. Correct when submission covers execution
  and nothing reads an unfinished value.
* **Node status** (`src/core/node_status_registry.cpp`, web server, client store).
  State: current and pending status per node, subscribers, client stores. Hard:
  two threads send to the same client; deltas and snapshots overtake each other.
* **Transfer worker** (`src/gpu/transfer/detail/transfer_worker.hpp`). State: tasks,
  retries, stop flag, memory reservation. Hard: retries, tasks enqueued by the
  worker itself, stop.
* **Texture upload** (`src/gpu/transfer/texture_upload.cpp`, `src/gpu/texture_frame.cpp`).
  State: streams with their slots, free and ready queues, current slot, leases.
  Four parties (producer, owner on the render thread, worker, GPU). Correct when
  textures in use are not disturbed, no slot or byte of the budget is lost,
  uploads resolve, and closed streams are reclaimed.
* **Texture readback** (`src/gpu/transfer/texture_readback.cpp`). The way back:
  render targets, transfers, frames held by outputs. Correct when slots have one
  user, frames come in order, and nothing is lost.
* **Source queue** (`src/media/timed_source_queue.hpp`), with the cycle of its user
  `src/nodes/ndi/detail/input_capture.cpp`. State: pending frames under a mutex,
  frames in program time on the render thread, a lock-free counter, the current
  frame. Correct when the counter is exact, frames play in order, uploads are
  settled every frame, repeats are still there.
* **Media clock** (`src/media/media_clock.cpp`). Floating point rate and phase filter.
* **NDI input, capture life cycle; control executor; device registries**
  (`src/nodes/ndi/input.cpp`, `src/utils/serial_executor.hpp`,
  `src/nodes/ndi/registry.cpp`, `src/nodes/decklink/registry.cpp`). Phase of a capture written by the control
  thread, the capture thread and the render thread. Correct when a dead capture
  is replaced, a replaced one is joined before its receiver goes, and the next
  receiver opens after that.
* **DeckLink registry and monitors** (`src/nodes/decklink/registry.cpp`,
  `src/nodes/decklink/detail/device_monitor.cpp`). The devices by name, a monitor with a
  snapshot of what each reports, and a version of the list and of every snapshot, by which
  the nodes find out that they have to look. Written by the SDK's discovery and notification
  callbacks and by the statistics thread. Correct when no change escapes the versions.
* **DeckLink input and output** (`src/nodes/decklink/`). A capture: phase, format,
  the pool of buffers lent to the SDK, the reservation of the device. A playback:
  phase, the path it draws, the keyer, frames downloaded, queued and scheduled.
  Operations on the render thread (start, stop, let go, submit), on the control
  executor (open, reconfigure, pump the preroll, retire) and in SDK callbacks (frame
  arrived, format changed, frame completed). Correct when the device has one user,
  playback is as the settings ask, and the device is given back.
* **NDI output, output queue** (`src/nodes/ndi/output.cpp`,
  `src/media/timed_output_queue.hpp`, `presentation_timeline.hpp`). A queue of read-back
  frames, an estimate of the latency, a sender thread, a buffer the library still
  reads. Correct when a frame is sent once and never before an older one, the
  buffer being read is held, and the render thread keeps its slots.
* **Screen output** (`src/nodes/screen/`). A window, a presenter thread and its slots.
  Correct when slots are not lost, the cadence is kept after a late swap, and a
  presenter shows with the settings of the frame that made it.
* **Frame scheduler** (`src/core/frame_scheduler.cpp`). Epochs, program time, skipped
  frames; integer arithmetic.
* **Transfer backends** (`src/gpu/transfer/detail/`). DVP, CUDA or a persistently
  mapped buffer under each slot; driver resources acquired one by one, any of which
  may fail. Correct when what was acquired is released once and no copy is disturbed.
* **Drawing nodes** (`src/nodes/teleprompter/`, `src/nodes/text/`,
  `src/nodes/generators/test_pattern.cpp`, `src/render/font/font_instance.cpp`). Images
  rendered by pool workers or the render thread and drawn frames later from an upload
  stream. Correct when what is drawn belongs together and is drawn in the end.
* **Configuration** (`src/core/configuration.cpp`). The settings file; loading is a
  sequence of graph commands, saving truncates and writes.
* **Web server** (`src/web_server/detail/`). Connections, topics, requests, stop.
* **Web client** (`web/src/server_sync.ts`, `App.vue`, `websocket.ts`). Editor events
  against server messages: pending nodes and connections, debounced options,
  reconnection. Correct when editor and server agree once nothing is under way.
* **Application** (`src/main.cpp`, `src/core/app_state.cpp`). Start-up, main loop,
  shutdown with a watchdog. Correct when loading meets an empty graph, answered
  edits are in the saved file, and a shutdown ends.
* **GPU context, shaders, surfaces, generated types**. No protocol of their own.

`PROJECT.json` lists each with its status, and under `hazards` every place where
the code is hard to test, with the properties that cover it.

## 2. Modules

| module | models | state → code |
|---|---|---|
| `NodeManager` | graph, snapshot, start-up, shutdown | variables carry the names of the members; a record is `node_record_s`; `render` is the main thread's place; `sent` the broadcasts of the last command |
| `GraphBroadcast` | extends it by what a client makes of `sent` | `ApplyMsg` is `handle_server_*` |
| `FrameExecution` | the walks of one frame over any acyclic graph | `submitted`, `executed` are the sets of the two walks; `stack`, `left` the recursion |
| `StatusSync` | registry, broadcast, server, client store | `states`, `pending` are `states_`, `pending_`; `iterating` the subscribers a broadcast has yet to reach |
| `TransferWorker` | task queue and memory budget | `tasks`, `delayed`, `stopping`, `memory` |
| `TextureUpload` | upload service, extends `TransferWorker` | `stream`, `slot` are the state structs; `posts` what a thread enqueues after unlocking; `lease`, `rendering`, `fence`, `gpu` the other parties |
| `TextureReadback` | readback service, extends `TransferWorker` | likewise; `consumed` is the history of targets handed out |
| `SourceQueue` | queue with capture and render thread | `place` says which container holds a frame; `queued` is `queued_frames_`; `ticket` the parked frame |
| `FrameStream` | abstract: what a readback stream promises its consumer | implemented by `TextureReadback`, see `MCTransfers` |
| `UploadStream` | operators: an upload stream as a drawing node sees it | a record per stream; used by the three drawing nodes |
| `TransferBackend` | backends under a slot | `held` the driver resources, `owner`, `copying`, `pending` the progress of a copy |
| `FrameScheduler` | the program's clock | variables carry the names of the members, `now` is the steady clock |
| `OutputTiming` | operators: `timed_output_queue_s`, `presentation_timeline_s` | records in place of the objects |
| `NdiPacing` | a sender's thread and the node that feeds it, extends both | `stream_state`, `local` are what the thread was told and what it works on; `reading` the buffer the library reads |
| `ScreenOutput` | screen node and presenter, extends `OutputTiming` | slots counted by place; `thread` the presenter's place |
| `SerialExecutor` | control executor | `tasks`, `closing` are the members; `running`, `at` the task in hand and its place |
| `CaptureControl` | life cycle of NDI captures, extends `SerialExecutor` | one function per member of `input_capture_s::impl_s`; `capture`, `selection` are the node's |
| `NdiOutput` | life cycle of NDI senders and their streams, likewise | one function per member of `output_sender_s` |
| `NdiControl` | both on one executor, with the registry's destructor | composes the two by `INSTANCE` |
| `DeckLinkInput` | life cycle of DeckLink captures, extends `SerialExecutor` | `object` is `callback_s`, `device` the SDK's state, `pool`, `lent`, `queued` where buffers are |
| `DeckLinkOutput` | life cycle of DeckLink playbacks, likewise | `object` is `callback_s`, `frames` counts frames by place |
| `DeckLinkControl` | an input or output of a device that comes and goes, one executor | extends the input, instantiates the output |
| `DeckLinkDevices` | registry and monitors of DeckLink devices, and what an output node shows of them | variables carry the names of the members; `monitor` has the `device_monitor_s` of each device; `place` is where `prepare` is; `source`, `missed`, `kept` are histories |
| `ClientSync` | editors, connections and the server | `clients` holds each editor's state with the names of `server_sync.ts`; `conns` the two directions of a socket |
| `Application` | `miximus_main`, settings file, server start and stop | `main` is the main thread's place, `tasks` what is posted to the configuration thread |
| `Teleprompter`, `LineFlow` | the node with its pool workers; the breaking of lines | `node.lines` are the `render_lines_`; `start` is `pos` |
| `Text`, `TestPattern` | the two nodes with transfers and, for the pattern, its generator | variables carry the names of the members |
| `NodeManagerProofs`, `FrameExecutionProofs`, `StatusSyncProofs`, `NdiControlProofs`, `ApplicationProofs` | theorems about the module of that name | the invariant's parts first, then a lemma per action or group of actions |
| `DeckLinkProofs`, `TransferProofs`, `TimedMediaProofs` | theorems about `DeckLinkControl` and `DeckLinkDevices`, about all that `MCTransfers` composes, and about all that `MCTimedMedia` composes | likewise, component by component |
| `MC...` | values of the constants for TLC, where a `.cfg` alone cannot give them; `MCTransfers`, `MCTimedMedia`, `MCDrawing` and `MCClientSync` choose one part per behaviour | |

One action is one critical section, or one stretch of a thread that no other
thread can see into. What this means in each module:

* A graph command holds `nodes_mutex_` throughout, so it is one step with its
  broadcasts. The render thread takes the mutex once per frame (`Sync`) and then
  renders from the copy, with commands going on between `Sync`, `PrepareAll` and
  `FinishFrame`. Loading the settings is the same commands with no adapter
  attached.
* Interface lists are sets: every interface of the program holds either one
  connection or any number, so order never decides what is displaced.
* Upload and readback: each section under `stream->mutex` is a step, and the
  enqueue after the unlock is another. A transfer runs between two sections.
  The GPU finishes work whenever it likes; a release fence waits for it.
  Allocation and transfer may fail on every attempt, and a backend may turn out
  larger than its estimate.
* Source queue: `push` loads the counter and compares and exchanges it in separate
  steps under `pending_mutex_`; the render thread lowers the counter between
  them. Program time is abstracted to which queued frames are due, which only
  grows and otherwise may be any set, so frames whose mapped times are out of
  capture order are included. The media clock is abstracted to when it sees a
  discontinuity and whether it can map a frame.
* Status: the render thread reaches one subscriber at a time; the configuration
  thread takes a snapshot and sends it in separate steps. Iteration over the
  subscriber set while it is changed is undefined behaviour; the model stops in a
  state named so.
* Device control: a store to a phase, a flag or a counter that another thread can see
  between two others is a step, so that starting and stopping are several steps and
  a failing thread is two. An object exists while the node, a posted task or the
  task in hand refers to it. The node's frame is one step where nobody but the
  render thread reads what changes within it. The SDK calls one object back one call
  at a time, and what runs under its mutex is one step.
* Devices: a discovery callback makes the monitor, subscribes, changes the lists under
  the lock and counts their version after it, in a step each; the statistics thread reads a
  device and takes the lock afterwards; `prepare` compares one version per step, and whatever
  it shows because of a comparison is another step.
* Pacing and presentation: the two threads take turns at any integer instant, and
  each turn of the sender (look at the stream, collect, sleep, send) is a step. Times are
  small integers; a frame takes two or three units.
* Backends: each driver call that may fail is a step; the copy engine finishes by itself.
* Clients: a message of a connection is handled in one step by the server and one by
  the client, messages of one direction stay in order, and a connection may close on
  either side first, with what was under way lost.
* Application: what is posted to the configuration thread runs later and in order;
  the process may be killed between any two steps.
* Drawing nodes: a frame is one step; a worker's rendering and a transfer are others,
  which may fail.
* Frame execution: a node reads all of its inputs, in any order, or (switch, mix)
  a control input first and then the inputs its value selects, which may be any
  when the control input is connected.

**Refinement.** `FrameStream` states what the outputs rely on: frames are offered in
growing order of target times, may be lost, and are shown once and never after a newer
one. `MCTransfers` maps it onto the readback service (on offer are the slots queued or
ready, the target being drawn is not; what was shown last is the history `consumed`) and
`ReadbackDeliversFrames` is `FrameStream!Spec` under that mapping. `NdiPacing` and
`DeckLinkOutput` model their downloads that way: submitted frames become ready in order
or are lost. `SourceQueue` and the drawing nodes use the upload stream as a client sees it
(`UploadStream`); that this view is implemented by `TextureUpload` is not shown yet.

## 3. Runs

| run | question | bounds |
|---|---|---|
| `graph` | Do graph and snapshot stay consistent and acyclic under every sequence of commands, does every frame catch up, do objects die on the render thread, do broadcasts tell the command, message by message? | settings node and three nodes with one input and one output, two option values; requests between any two interfaces of opposite direction, or two of one node; at most two marked nodes when a step begins (`MCBacklog`); symmetry over the three nodes |
| `frame_execution` | Does submission cover execution, is every value complete when read, does every demanded output appear? | two sources, a switch, a mix, two outputs in eight wirings with diamonds |
| `status_sync` | Is any change lost to a client that follows, is anything of a removed node kept, and do clients catch up? | two nodes, two fields, two values, one session, two writes |
| `transfers` | Are slots and bytes accounted for, textures in use undisturbed, requests served, and readback a `FrameStream`? | uploads: one stream, two slots, three uploads; readbacks: one stream, two slots, four frames; budgets of 3 with slots of 1 or 2; one slot's backend of either direction, every kind |
| `timed_media` | Does the counter of a source queue stay exact and its order hold, do the outputs stay in order, keep their grids, their slots and the buffers being read, and follow their settings? | source: capacity two, five frames; pacing: durations 2 and 3, eight instants, two streams, a queue of two; screen: duration 2, six instants, two windows |
| `ndi_control` | Is nothing used after its destruction, is there one device of each, does what is let go of end? | two captures and two senders alive at once, one source, one stream; the output is switched, renamed, removed and added again |
| `decklink_control` | One user of the device, playback as set, devices given back, preroll that ends? | two captures or two playbacks alive at once, two formats, one frame in the source queue, one frame scheduled, one in the pipeline, one task waiting when a format changes |
| `client_sync` | Do settled editors show the server's nodes and no other connection? Does a node show its device and the list of devices as the registry has them, or is about to notice? | editors: two, three ids, one pending node each, two option values of which one is corrected, two connections ever, three edits; devices: two, with two names or one between them, one value of the signal and of the temperature besides none, three changes; the node plays on devices that report nothing, or shows one that reports |
| `client_sync_echo` | (violation) Are echoes of one's own removals safe? | one editor, one connection |
| `application` | Does loading meet an empty graph, are answered edits saved, does a shutdown end? | two connections, four edits, three runs on the file the run before has left |
| `drawing` | Does what is drawn belong together, and is what the options ask for drawn in the end? | teleprompter: three lines in two slots and two lines in one; line breaking: every text of up to four characters of five kinds in two widths; two patterns; three texts of two sizes; two changes each |
| `teleprompter_scroll` | (violation) Is a line skipped in one frame drawn in a later one? | three lines in two slots, two changes |

Why the bounds are enough. A cycle that closes through displacement needs three
nodes; a connection that displaces at both ends needs three as well. Two nodes
suffice for a mark that is missed or a broadcast in the wrong order. Interfaces
that fan out are in the proofs, which leave the interfaces open. Two slots
are what a stream needs for one frame in use and one on its way, and the third
upload or frame forces reuse. A full queue of two with a third frame pending
already shows overflow at both ends; five frames let it happen before and after
a discontinuity. Durations of two and three instants have lateness below, at and above the
tolerated one, and rates that do not divide each other; eight instants hold three frames,
a change of rate and a skip. Two captures, senders or playbacks are one in use
and one that its stop is still joining; the third would wait for the executor, as
would the tasks of an input and an output of a DeckLink device together, which is why
that run has one of them at a time (each with the device coming and going). Three edits
are a node added, connected and removed before its answer, or a connection made, removed
and made again. Three changes of devices are an arrival, a removal and a second arrival under
the same name, or an arrival and two changes of what it reports. Three runs are a first one, one killed anywhere, and one on what it has
left. Two changes of a drawing node are one while a worker runs for the options
before, and one back. The reader should not take the bounded runs for more than that: what
has been proved for all bounds is in section 5.

`MCTransfers`, `MCTimedMedia`, `MCDrawing` and `MCClientSync` hold components that share nothing: a behaviour is
about one of them (`part`) and leaves the others in their initial state, so that each
is checked in full and their properties are conjunctions.

Every property has mutants in `PROJECT.json`: a definition changed as a plausible
bug would change it (`\* Fault:` above the operator), under which TLC finds the
property violated by that run.

### Fairness

* `FrameExecution`: one thread that keeps running.
* `StatusSync`: both threads and the client's message loop keep running; writes,
  connects and disconnects are not forced.
* `TextureUpload`, `TextureReadback`: the worker keeps taking tasks, a thread that
  left a critical section goes on to its enqueue, a node that began a frame
  completes it, the GPU finishes what it was given, producers let go of leases
  and outputs return frames. Nothing forces an upload, a selection, a close or
  the stop. That a GPU finishes is what the code itself assumes: it waits for a
  fence for an hour.
* `NdiControl`: frames go on, the one executor runs its tasks, a thread that is told to
  leave does (it waits for frames with a timeout), and a shutdown that has begun goes on.
  Nothing has to be selected, fail, be removed or be closed.
* `DeckLinkControl`: the render thread prepares every node in every frame and submits to
  the stream it has, the executor runs its tasks, a callback that was entered
  returns, and the SDK gives back the buffers it was lent once the input is disabled, as
  the wait for them in `allocator.cpp` assumes. No frame has to arrive and no format to change.
* `Application`: the main thread, the functions posted to the configuration thread and,
  once armed, the watchdog's sleep. Of clients nothing is assumed: one that never
  answers the close is why the watchdog is there, and without it
  `ShutdownEnds` is violated (`LeaveLoopUnwatched`).
* `MCDrawing`: frames go on, and pool workers and transfers do what they were given.
* `NodeManager`, `SourceQueue`, `NdiPacing`, `ScreenOutput`, `ClientSync` and `DeckLinkDevices`
  state safety only, and assume no fairness. What an editor shows is stated of settled states instead.

## 4. Findings and other disagreements

Two runs end in a violation.

* **The echo of a removal removes a new connection** (`client_sync_echo`). Connect,
  disconnect and connect again before the first removal has been echoed: the echo finds
  the new connection and removes it locally, as a server's mutation and so without telling
  the server, which keeps it. `App.vue:151-153` calls such echoes safe.
* **A line slot full of other lines** (`teleprompter_scroll`). A slot's stream has two
  upload slots, freed only by selecting for the line in view. Scrolling back and forth while
  lines are rendered fills both with lines that are not in view; from then on
  `try_acquire_upload_buffer` returns nothing and the line stays blank, although
  `docs/render-thread-audit.md:34-35` has a busy line skipped for the frame.

The following are definitions of the modules that TLC refutes when added to the run's
cfg; what the runs do check is stated so that it holds beside them.

| definition | what happens |
|---|---|
| `StatusSync!SubscribersAreNotDisturbed` | `emit_node_status` on the render thread iterates over `connections_by_topic_` without a lock while the configuration thread changes it; `server.hpp:38` says the sync calls belong to the callback thread |
| `StatusSync!SettledClientsShowTheRegistry` | a snapshot read before a frame's broadcast and sent after it overwrites the newer delta in the client (`docs/architecture.md:191-194`); `NothingIsLost` shows this is the only way to lose a change |
| `TextureUpload!DestructionReclaims` | a stream closed during its last transfer: the worker's own reclaim task is dropped once `stopping_` is set, the queued `destroy_stream` waits for ever and `stop()` never joins (`docs/gpu-and-media.md:137-138`); the readback service frees slots without a task of its own and has the property |
| `SourceQueue!ObsoleteMakesRoom` | only `select`, called for active inputs, removes frames: an inactive input fills its queue and turns newer frames away (`docs/frame-timing-and-synchronization.md:249-251`) |
| `CaptureControl!DeadCapturesAreReplaced` | `start_control` sets `phase_` to running after it has started the thread and overwrites a failure stored in between; the input keeps a capture whose thread has ended (`docs/gpu-and-media.md:257`) |
| `DeckLinkInput!LetGoCapturesEnd` | a frame queued between the node's last look at its queue and the stop keeps its buffer; the pool waits for it on the executor, and nothing takes it out. `EmptyCapturesRetire` covers all others |
| `ScreenOutput!SleeperIsWoken` | `request_stop` notifies without the mutex, so a presenter that has tested its condition and not slept yet misses it until the next frame is submitted |
| `DeckLinkDevices!EveryDeviceIsListed` | two devices without a persistent id (it is -1) may have one name: the second takes the first one's place in the lists, and the removal of either unlists both |
| `DeckLinkDevices!ShownStatusIsCurrent` | a device is replaced between two frames by one of its name whose monitor has come to the same version: name and version are those shown, the status is not (with `ChangeBound` 5) |
| `DeckLinkDevices!PlaybacksRunOnTheListedDevice` | the same replacement: a playback is stopped when no device of its name is listed, so it goes on with the one that has gone |
| `DeckLinkDevices!ShownModesAreCurrent` | `prepare_existing_playback` drops a failed playback and not what has been observed of it; the next one's modes have the same version and are not shown |
| `LineFlow!EveryLineTakesText` | in a line no wider than its first character `flow_line` consumes nothing and `load_file` never ends |

Seen while modelling and part of the models, but with no text of the repository to hold
them against:

* A handshake that completes after `stop()` has closed all connections adds one nobody
  closes, and a command posted over HTTP needs no connection at all: both may reach the
  adapter's handlers after the adapter is gone (`Application`: `Command`, `PostControl`).
* The websocket close handshake times out after five seconds, the watchdog as well: a client
  that does not answer can cost the save that `docs/development.md:381` puts second.
* `save_file` truncates first, so a kill in between leaves a file the next start refuses; a
  frame that throws ends the program without saving; a file that cannot be opened counts as
  missing and is overwritten.
* A node removed by its own editor between its broadcast and the arrival of the configuration
  stays in that editor (`early` in `ClientSync`). Options two clients change at the same
  time, or that the server corrects, may differ for good, which is why no
  property compares option values.
* Applying a configuration clears the editor's connections outside of the guard, so the
  client sends removals for them.
* A test pattern whose transfer fails is waited for for ever and no later pattern is generated;
  a teleprompter line whose upload fails stays blank while it is in view. `ImagesAreDrawn` names
  both cases (`Stuck`, `Lost`) and exempts them.
* DVP uploads are never bracketed by `WaitDVP`/`EndDVP` as `dvp.hpp:21-24` describes; the model has
  the calls the code makes, and copies stay undisturbed by the fences around them.

## 5. Proofs

All proofs are for every value of the constants, from the named assumptions in the
modules: types of the constants, and that the sentinel values are not members.
`TransfersAssumption` and `TimedAssumption` are in the `MC` modules, as conjunctions of
those of the modules they compose. What the code adds to types is that there is a stream,
that durations, buffers and the number of observations are positive, and that headrooms,
the tolerated lateness and the horizons are natural numbers.

* **`NodeManagerProofs`**. The invariant is `TypeOK`, `GraphConsistent`,
  `GraphAcyclic`, `DifferencesAreMarked`, the same facts of the snapshot, and what
  makes them inductive: `MarksAreComplete` (an id absent from the graph with no
  removal pending is absent from the snapshot), `SettingsKept`, `PreparedIsCopied`.
  The core is three lemmas about one node map: detaching connections keeps lists
  in agreement, attaching one after displacement does, and a new connection keeps
  the graph acyclic because the upstream closure of its source, which the
  search computes, does not contain its target. The snapshot needs no argument of
  its own: after `Sync` it equals the graph, and no other step changes it.
  Theorems: `TypeCorrect`, `GraphIsSound`, `GraphStaysAcyclic`, `SnapshotIsSound`,
  `SnapshotTakesTheGraph`, `SettingsAreInEverySnapshot`, `PreparedNodesDieOnRenderThread`.
* **`FrameExecutionProofs`**. `StackInv` says the call stack is a chain of dependencies, so that
  in an acyclic graph no node on it repeats; `SubmitInv` that the submitted set is
  closed under possible dependencies except for the members of the stack;
  `ExecuteInv` that executed nodes are submitted and either done or on the stack.
  Acyclicity is stated without recursion: every nonempty set of nodes has a member
  that depends on none of the set.
  Theorems: `SubmissionCoversExecution`, `ReadsSeeThisFrame`, `NodesExecuteOnce`.
* **`TransferProofs`**. That transfers are undisturbed is not inductive: it needs that where a slot
  is, what its state says and which task is about it agree. For uploads (`UploadInv`): what
  is in a container is in the state for it and there once (`Kept`); a task to come, in a
  queue, with the worker or about to be posted, is about a slot of its stream in the
  state for it (`DueInv`), and a slot has one task at a time (`OnceInv`); what the GPU still draws
  is current, or waits for its fence (`DrawInv`). For readbacks (`ReadInv`): each queued slot has
  its task (`QueuedInv`), and the GPU still draws only what is being rendered or is
  queued behind a fence (`GpuInv`). For backends (`BackendInv`): a copy that was drawn from
  is over once the slot is taken back.
  The refinement of `FrameStream` rests on an order that `ReadInv` adds: of one stream, the
  ready frames are older than the queued ones, these have their tasks in the
  order of their frames wherever the tasks are (`OrderInv`), and all are newer than the frame read
  last. With it every step of the service is one of the abstract stream or a stutter: a
  submitted frame is the newest on offer, a consumed one is newer than the one before.
  Theorems: `TransfersStayUndisturbed`, `ReadbacksDeliverFrames`.
* **`TimedMediaProofs`**, of four parts, each with its own invariant.
  *The source queue.* Added to the checked invariants: which frames have been seen (`SeenInv`),
  that pending frames are newer than a batch under way and both newer than the frames in
  program time, all of them newer than the frame shown (`OrderInv`), what holds in each phase
  (`PhaseInv`), what a ticket parks (`TicketInv`), and which readiness a submitted or current
  frame has (`UploadInv`, `RepeatInv`). Cardinality facts come from `FiniteSetTheorems`.
  Theorems: `QueueStaysBounded`, `UploadsStaySettled`, `RepeatsStayRetained`, `FramesPlayInOrder`.
  *The screen output* (`ScreenInv`). Slots are counted by place; what was shown is not newer
  than the presenter's queue, that not than what is submitted, and that not than
  the program (`ShownInv`); what the presenter repeats it has, and it swaps no
  earlier than the grid asks for (`ThreadInv`). Theorem: `PresenterIsCurrent`.
  *The program's clock* (`ClockInv`). The target of a frame is the anchor and as many durations as
  the timeline has come, less the numbers given since. Theorem, with the presenter's
  cadence: `CadencesAreCaughtUp`, for all durations; integer division is the core of it.
  *The NDI output* (`PacingInv`). What was sent is not newer than the thread's queue, that not
  than what is submitted to its stream, that not than what is submitted to the stream that
  follows, and that not than the program (`PlayInv`). The library reads the frame that was shown
  last, except when the next one is about to be sent, and then the queue is not full
  (`WorkerOK`); this is what keeps a stream within its slots (`SlotsInv`).
  Theorems: `OutputsPlayOnInOrder`, `PipelineKeepsSlots`, `FramesStayAccountedFor`, the last two
  of both outputs.
  What `push` and `select` of the outputs' queue keep (`Queue`) is proved for any number of frames:
  `PushAll` and `Latency` are recursive functions over numbers. That such a function exists, and
  what it keeps, is proved from the fact that a nonempty set of numbers has a least member
  (`WFMin`), which needs no operator as a parameter.

* **`StatusSyncProofs`**. `NothingIsLost` is about what a client will hold once it has
  read its inbox, a fold over a sequence. The proof takes one node and field at a time: what
  will be held is what the last message that has the field says (`LastInv`; `Says`,
  `Expected`), so no recursion is needed. Around it: what is pending or under way is what the
  registry holds, and what it lacks nobody has (`RegistryInv`); the snapshot being
  serialised, with what its client is still to be sent, is the registry too (`ServingInv`);
  `FollowingInv` is the property of one field, `SessionInv` says who has subscribed when, and
  `RenderInv` where the broadcast is.
  Theorem: `StatusArrives`.
* **`NdiControlProofs`**. Inputs and outputs share the discipline of the control queue, which is
  stated once of any owner (`Disciplined`): a device is started once and stopped after that,
  it is its owner's or is going to be stopped (`Own`), and between the starts of two of
  them there is the stop of the first (`Apart`). With it a start finds no receiver or sender of
  before, and a stop finds its own.
  Theorem: `DevicesAreUsed`.
* **`DeckLinkProofs`**, `DeckLinkControl`. The reservation of the device is held from the frame that starts a
  capture or playback until the task that has retired it; while it is held there is a task,
  or a node that will post one. For the output that is `Booked`; nothing refers to an object that is not
  there (`Kept`); a running playback has its preroll with the device, and the keyer is as the
  path was set up (`Filled`); a start comes before any other task of its playback, and a
  retirement is posted after the request to stop (`Ordered`).
  Theorems: `DevicesHaveAUser`, `PlaybacksFollow`.
* **`DeckLinkProofs`**, `DeckLinkDevices`. One argument for the three things that have a version: what has
  been observed is never ahead of it, and while the two are equal what is shown is what the
  version was counted for. `ListInv` has the list and where the frame is in following it,
  `MonitorInv` the monitors (also those that are about to be listed), `ModesInv` a playback's
  modes, set once and before their version is counted.
  Theorem: `DevicesStayShown`.
* **`ApplicationProofs`**. The invariant follows the queue of the configuration thread: what the
  main thread posts is there at most once and in order (`TaskInv`), no handler is subscribed
  before there is an adapter (`SubscriptionInv`), once the stop has run nothing is open or
  listening (`StopInv`), and what clients were answered is in the graph until the graph has
  been saved (`SaveInv`).
  Theorems: `LoadIsUndisturbed`, `AnswersSurvive`.

`SnapshotIsSound` states `FramesSeeAGraph`, which includes that the settings record is in every
snapshot (`SettingsAreInEverySnapshot`). The assumptions that the proofs of the device modules
need are about identities: captures and senders, or captures and playbacks, are different
objects, and `None` is neither of them nor a task.

Only model-checked, and why:

* All liveness (`FrameCompletes`, `ClientsCatchUp`, `TransfersEnd`, `RetiredDevicesEnd`,
  `DevicesAreGivenBack`, `PrerollEnds`, `ShutdownEnds`, `ImagesAreDrawn`): out of the prover's reach.
* `SlotsAndBytesAreAccountedFor`: the memory in use is a sum over a set of slots, and what a fold
  over a set computes needs an induction over sets that the provers cannot instantiate. Its
  first half, that a slot is in one place, is part of `UploadInv` and `ReadInv`.
* `SettledEditorsAgree`, and the client's view of broadcasts (`GraphBroadcast`): what a client will
  hold is a fold over the messages under way, and its modules reach recursive operators.
* `DrawnImagesAreCurrent`: its module reaches `LineFlow`, a recursive definition.

## 6. Not modelled

Pixels, glyph metrics, OpenGL and vendor calls, and what windows and monitors do; encoding
of messages; the rate filter of the media clock (floating point); discovery of NDI sources,
and with it the life of the library's finder; nodes that only draw, of which `FrameExecution`
has what they read. Within
modelled components: metrics, status values and logging everywhere; HTTP files and headers;
the settings panel, pings and the reload for a new bundle in the client; the first frame's
unguarded assignment of `status_registry_`, whose value never changes. In `Teleprompter`, a line
worker or `load_file` that throws, as a failed allocation would make it. In `NdiOutput`, which
name a sender has: a new name replaces it whatever the names are. `TransferBackend` leaves
out the arithmetic of rows, `ScreenOutput` the refresh rate of monitors.

## 7. Plan

Done, in this order: `NodeManager` → `GraphBroadcast` → `FrameExecution` → `StatusSync` →
`TransferWorker` → `TextureUpload`, `TextureReadback` → `SourceQueue` →
`SerialExecutor` → `CaptureControl`, with proofs of `NodeManager`, `FrameExecution` and
`SourceQueue`; then `FrameScheduler`, `OutputTiming`, `NdiPacing`, `ScreenOutput` →
`NdiOutput`, `NdiControl` → `DeckLinkInput`, `DeckLinkOutput`, `DeckLinkControl` →
`TransferBackend`, `FrameStream` → `ClientSync` → `Application` → the drawing nodes.

Then `DeckLinkDevices`, and the proofs of `Application`, `StatusSync`, `NdiControl`,
`DeckLinkControl` and `DeckLinkDevices`; then those of `TextureUpload`, `TextureReadback` and
`TransferBackend` with the refinement of `FrameStream`, and of `ScreenOutput`, `FrameScheduler` and
`NdiPacing`.

What could come next:

1. `SlotsAndBytesAreAccountedFor` with the sum as a recursive function over an enumeration of the
   slots, so that the induction is over numbers.
2. `ClientSync`: that settled editors agree, one message at a time as in `StatusSyncProofs`.
3. `UploadStream` as a specification of its own that `TextureUpload` implements.
