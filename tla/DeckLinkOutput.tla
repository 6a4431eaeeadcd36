---------------------------- MODULE DeckLinkOutput ----------------------------
(* The life cycle of a DeckLink output: the node, on the render thread, starts  *)
(* and stops a playback and submits a frame per program frame; the control      *)
(* executor opens the device, prerolls it and closes it; the SDK reports every  *)
(* frame it has shown on a thread of its own, which schedules the next.         *)
(*                                                                              *)
(* src/src/nodes/decklink/output.cpp, detail/output_activation.cpp and          *)
(* detail/device_reservation.hpp. Frames are counted: which of them is selected *)
(* is OutputTiming and checked in NdiPacing. The SDK calls back one call at a   *)
(* time; what happens under frame_mutex_ is one step.                           *)
EXTENDS SerialExecutor, Integers

CONSTANTS
    Playbacks,     \* bound: identities for callback_s objects alive at once
    Target,        \* scheduled_frame_target_, buffer_frames or the device's minimum
    Headroom,      \* OUTPUT_QUEUE_HEADROOM
    Reserve,       \* PROGRAM_QUEUE_RESERVE
    PipelineBound, \* bound: frames that have been downloaded and not collected
    Unset          \* selection_ holds nothing

\* What the constants have to be; assumed where they get values.
OutputAssumption ==
    /\ None \notin Playbacks
    /\ Target \in Nat \ {0} /\ Headroom \in Nat /\ Reserve \in Nat /\ PipelineBound \in Nat
    /\ Unset \notin {"disabled", "plain", "keyed"}

VARIABLES
    node,      \* whether the graph holds the node
    selection, \* selection_: disabled, or the keyer mode it wants
    playback,  \* callback_
    drawing,   \* render_state_: the node has the stream to draw to
    object,    \* the atomics of each callback_s
    wanted,    \* requested_keyer_mode_ of each
    holder,    \* the playback that holds the device's reservation, or None
    listed,    \* the registry lists the device
    device,    \* what the SDK has been told, and its keyer
    path,      \* active_output_ of each: none, plain or keyed
    frames,    \* of each: downloaded, in the output queue, one shown, scheduled
    observed,  \* decklink_to_program_clock_ of each has an observation
    sdk        \* the completion in progress: of which playback

output_node == <<node, selection, playback, drawing>>
media       == <<path, frames, observed>>
output_vars == <<output_node, object, wanted, holder, listed, device, media, sdk>>
vars == <<executor, output_vars>>

Task(op, c) == [op |-> op, object |-> c]
InHand(op, place) ==
    running # None /\ running.op = op /\ running.object \in Playbacks /\ at = place
Outputs == {"start output", "pump output", "retire output", "fail output"}
AnyInHand(place) == \E op \in Outputs : InHand(op, place)

Absent == [phase |-> "none", stop_requested |-> FALSE, pump_posted |-> FALSE]
Empty  == [ready |-> 0, queued |-> 0, shown |-> FALSE, scheduled |-> 0]

(* A callback_s goes with the last reference to it. *)
Referred(c) ==
    \/ playback' = c
    \/ running' # None /\ running'.object = c
    \/ \E i \in DOMAIN tasks' : tasks'[i].object = c
    \/ device'.callback = c \/ sdk' = c

Objects(changed) ==
    object' = [c \in Playbacks |-> IF Referred(c) THEN changed[c] ELSE Absent]

\* stop_async and request_failure: the first to ask posts the retirement.
Asked(c, task) == IF object[c].stop_requested THEN tasks ELSE Posted(<<Task(task, c)>>)
Stopping(c) ==
    IF object[c].stop_requested THEN object
    ELSE [object EXCEPT ![c] = [@ EXCEPT !.stop_requested = TRUE, !.phase = "stopping"]]

-----------------------------------------------------------------------------
(* The node, on the render thread. *)

(* stop_playback, for a selection that has changed, a device that is not       *)
(* listed any more or a node that is destroyed.                                *)
StopPlayback(selected, alive) ==
    /\ node = "alive" /\ playback # None
    /\ selection' = selected /\ node' = alive
    /\ playback' = None /\ drawing' = FALSE
    /\ tasks' = Asked(playback, "retire output")
    /\ UNCHANGED <<running, at, closing, wanted, holder, listed, device, media, sdk>>
    /\ Objects(Stopping(playback))

(* prepare, up to stop_playback                                                *)
Select(mode) ==
    /\ node = "alive" /\ (selection # mode \/ ~listed)
    /\ \/ StopPlayback(mode, node)
       \/ /\ playback = None /\ selection' = mode /\ selection' # selection
          /\ UNCHANGED <<executor, node, playback, drawing, object, wanted, holder, listed,
                         device, media, sdk>>

RemoveNode ==
    /\ node = "alive"
    /\ \/ StopPlayback(Unset, "gone")
       \/ /\ playback = None /\ node' = "gone" /\ selection' = Unset
          /\ UNCHANGED <<executor, playback, drawing, object, wanted, holder, listed, device,
                         media, sdk>>

(* request_preroll_pump, at most one at a time.                                *)
Pumped(c) ==
    LET posts == object[c].phase = "prerolling" /\ ~object[c].pump_posted
    IN  /\ tasks' = IF posts THEN Posted(<<Task("pump output", c)>>) ELSE tasks
        /\ object' = [object EXCEPT ![c].pump_posted = posts \/ @]

(* prepare_existing_playback: one that plays or prerolls gives the node its    *)
(* stream, one that has ended is dropped, and the others are waited for.       *)
Existing ==
    /\ playback # None
    /\ LET phase == object[playback].phase
       IN  \/ /\ phase \in {"prerolling", "running"}
              /\ drawing' = TRUE /\ Pumped(playback)
              /\ UNCHANGED playback
           \/ /\ phase \in {"failed", "stopped"}
              /\ playback' = None /\ drawing' = FALSE
              /\ UNCHANGED <<tasks, running, device, sdk>>
              /\ Objects(object)
           \/ /\ phase \in {"starting", "stopping"}
              /\ drawing' = FALSE
              /\ UNCHANGED <<tasks, playback, object>>
    /\ UNCHANGED <<running, at, closing, node, selection, wanted, holder, listed, device, media, sdk>>

(* start_playback, of a device that is listed and not reserved; otherwise the  *)
(* node tries again later.                                                     *)
Start ==
    /\ node = "alive" /\ playback = None /\ selection \in {"plain", "keyed"} /\ listed
    /\ holder = None
    /\ \E c \in Playbacks :
          /\ object[c].phase = "none"
          /\ playback' = c /\ holder' = c
          /\ wanted' = [wanted EXCEPT ![c] = selection]
          /\ object' = [object EXCEPT ![c].phase = "starting"]
          /\ tasks' = Posted(<<Task("start output", c)>>)
    /\ UNCHANGED <<running, at, closing, node, selection, drawing, listed, device, media, sdk>>

(* execute and complete: a frame is drawn and submitted, and it is downloaded, *)
(* if the stream has a slot.                                                   *)
Submit ==
    /\ drawing /\ playback # None /\ path[playback] # "none"
    /\ frames[playback].ready < PipelineBound
    /\ frames' = [frames EXCEPT ![playback].ready = @ + 1]
    /\ Pumped(playback)
    /\ UNCHANGED <<running, at, closing, output_node, wanted, holder, listed, device, path,
                   observed, sdk>>

Discover ==
    /\ listed' = ~listed
    /\ UNCHANGED <<executor, output_node, object, wanted, holder, device, media, sdk>>

-----------------------------------------------------------------------------
(* output_activation_s::start. What the SDK answers is a record: whether it    *)
(* supports the mode, has a keyer for it, has the paths, enables the output,   *)
(* accepts the keyer, and lets the output be restarted.                        *)

Answers == [supports : BOOLEAN, keys : BOOLEAN, paths : BOOLEAN, enables : BOOLEAN,
            keyer : {"refused", "without level", "enabled"}, restarts : BOOLEAN]

\* Fault: the ordinary path is opened without switching the keyer off again.
RestartKeepingKeyer(keyer, restarts) ==
    [enabled |-> TRUE, keyer |-> keyer, path |-> IF restarts THEN "plain" ELSE "none"]

(* restart_without_keyer *)
RestartWithoutKeyer(keyer, restarts) ==
    [enabled |-> TRUE, keyer |-> FALSE, path |-> IF restarts THEN "plain" ELSE "none"]

Activated(mode, sdk_says) ==
    LET keyed == mode = "keyed" /\ sdk_says.keys
    IN  IF ~sdk_says.supports \/ ~sdk_says.paths
        THEN [enabled |-> FALSE, keyer |-> device.keyer, path |-> "none"]
        ELSE IF ~sdk_says.enables THEN [enabled |-> FALSE, keyer |-> FALSE, path |-> "none"]
        ELSE IF ~keyed THEN [enabled |-> TRUE, keyer |-> FALSE, path |-> "plain"]
        ELSE IF sdk_says.keyer = "enabled" THEN [enabled |-> TRUE, keyer |-> TRUE, path |-> "keyed"]
        ELSE RestartWithoutKeyer(sdk_says.keyer = "without level", sdk_says.restarts)

-----------------------------------------------------------------------------
(* The control executor. *)

Object == object[running.object]

(* retire_playback begins: playback that has started is asked to stop,         *)
Retire(changed, told, final) ==
    /\ object' = [changed EXCEPT ![running.object].phase = "stopping"]
    /\ device' = told
    /\ Reach(final)
    /\ UNCHANGED <<output_node, wanted, holder, listed, frames, observed, sdk>>

\* Fault: the reservation is left to the destructor of an object that stays.
RetireKeepingDevice ==
    /\ \E final \in {"stopped", "failed"} :
          LET c == running.object
          IN  /\ AnyInHand(final)
              /\ path' = [path EXCEPT ![c] = "none"]
              /\ frames' = [frames EXCEPT ![c] = Empty]
              /\ observed' = [observed EXCEPT ![c] = FALSE]
              /\ wanted' = [wanted EXCEPT ![c] = "disabled"]
              /\ holder' = IF holder = c THEN None ELSE holder
              /\ Finish
              /\ UNCHANGED <<output_node, listed, device, sdk>>
              /\ Objects([object EXCEPT ![c].phase = final])

(* and within two seconds, whether the device says that it has or not, nothing *)
(* more is played or reported, all frames go, and the reservation last.        *)
RetireEnds ==
    /\ \E final \in {"stopped", "failed"} :
          LET c == running.object
              mine == holder = c
          IN  /\ AnyInHand(final)
              /\ device' = IF mine THEN [user |-> None, callback |-> None, playing |-> FALSE,
                                         keyer |-> device.keyer /\ device.user # c]
                                   ELSE device
              /\ path' = [path EXCEPT ![c] = "none"]
              /\ frames' = [frames EXCEPT ![c] = Empty]
              /\ observed' = [observed EXCEPT ![c] = FALSE]
              /\ wanted' = [wanted EXCEPT ![c] = "disabled"]
              /\ holder' = IF mine THEN None ELSE holder
              /\ Finish
              /\ UNCHANGED <<output_node, listed, sdk>>
              /\ Objects([object EXCEPT ![c].phase = final])

(* start_control: nothing if it is late; otherwise initialize_output, which    *)
(* may fail at any call.                                                       *)
StartControl ==
    /\ InHand("start output", "begin")
    /\ LET c == running.object
       IN  \/ /\ Object.stop_requested
              /\ Retire(object, device, "stopped") /\ UNCHANGED path
           \/ /\ ~Object.stop_requested
              /\ \E sdk_says \in Answers, pool \in BOOLEAN :
                    LET a == Activated(wanted[c], sdk_says)
                        told == [user |-> IF a.enabled THEN c ELSE None, playing |-> FALSE,
                                 callback |-> IF a.path # "none" /\ pool THEN c ELSE None,
                                 keyer |-> a.keyer]
                    IN  /\ path' = [path EXCEPT ![c] = a.path]
                        /\ IF told.callback = c
                           THEN /\ device' = told /\ Reach("initialized")
                                /\ UNCHANGED <<output_node, object, wanted, holder, listed,
                                               frames, observed, sdk>>
                           ELSE Retire([object EXCEPT ![c].stop_requested = TRUE], told, "failed")

StartEnds ==
    /\ InHand("start output", "initialized")
    /\ IF Object.stop_requested
       THEN Retire(object, device, "stopped") /\ UNCHANGED path
       ELSE Reach("ready") /\ UNCHANGED output_vars

Ready ==
    /\ InHand("start output", "ready")
    /\ Finish
    /\ UNCHANGED <<output_node, wanted, holder, listed, device, media, sdk>>
    /\ Objects([object EXCEPT ![running.object].phase = "prerolling"])

\* Fault: the queue holds no more than is scheduled.
CapacityWithoutHeadroom == Target
(* get_output_queue_capacity *)
Capacity == Target + Headroom

\* Fault: the queue grows without a limit.
CollectedUnbounded(f) == [f EXCEPT !.ready = 0, !.queued = f.queued + f.ready]

\* collect_completed_readbacks: the oldest make room.
Collected(f) ==
    [f EXCEPT !.ready = 0,
              !.queued = IF f.queued + f.ready > Capacity THEN Capacity ELSE f.queued + f.ready]

(* pump_preroll *)
PumpBegins ==
    /\ InHand("pump output", "begin")
    /\ LET goes == Object.phase = "prerolling" /\ ~Object.stop_requested
       IN  /\ IF goes THEN Reach("pumping") ELSE Finish
           /\ UNCHANGED <<output_node, wanted, holder, listed, device, media, sdk>>
           /\ Objects([object EXCEPT ![running.object].pump_posted = FALSE])

(* With enough program frames the schedule is filled, or something fails.      *)
PumpSchedules ==
    /\ InHand("pump output", "pumping")
    /\ LET c == running.object
           f == Collected(frames[c])
       IN  \/ /\ f.queued < Target + Reserve
              /\ frames' = [frames EXCEPT ![c] = f]
              /\ Finish
              /\ UNCHANGED <<output_node, wanted, holder, listed, device, path, observed,
                             sdk>>
              /\ Objects(object)
           \/ /\ f.queued >= Target + Reserve
              /\ \E left \in 0 .. f.queued - 1, scheduled \in 0 .. Target :
                    /\ frames' = [frames EXCEPT ![c] =
                          [f EXCEPT !.queued = left, !.shown = TRUE, !.scheduled = scheduled]]
                    /\ IF scheduled = Target
                       THEN /\ object' = [object EXCEPT ![c].phase = "running"]
                            /\ Reach("playing")
                            /\ UNCHANGED tasks
                       ELSE /\ tasks' = Asked(c, "fail output")
                            /\ running' = None /\ at' = "begin" /\ UNCHANGED closing
                            /\ object' = Stopping(c)
              /\ UNCHANGED <<output_node, wanted, holder, listed, device, path, observed,
                             sdk>>

(* StartScheduledPlayback *)
PumpPlays ==
    /\ InHand("pump output", "playing")
    /\ LET c == running.object
       IN  \/ /\ device' = [device EXCEPT !.playing = TRUE]
              /\ Finish
              /\ UNCHANGED <<output_node, wanted, holder, listed, media, sdk>>
              /\ Objects(object)
           \/ /\ tasks' = Asked(c, "fail output")
              /\ running' = None /\ at' = "begin" /\ UNCHANGED closing
              /\ UNCHANGED <<output_node, wanted, holder, listed, device, media, sdk>>
              /\ object' = Stopping(c)

RetireControl ==
    /\ \/ InHand("retire output", "begin") /\ Retire(object, device, "stopped")
       \/ InHand("fail output", "begin") /\ Retire(object, device, "failed")
    /\ UNCHANGED path

-----------------------------------------------------------------------------
(* The SDK. *)

(* ScheduledFrameCompleted: while it plays, frames are shown and reported.     *)
FrameCompletes ==
    /\ device.playing /\ sdk = None /\ device.callback # None
    /\ object[device.callback].phase = "running"
    /\ frames[device.callback].scheduled > 0
    /\ sdk' = device.callback
    /\ UNCHANGED <<executor, output_node, object, wanted, holder, listed, device, media>>

\* Fault: a frame the device dropped is not replaced.
CompletedUnfilled(c, timed, refilled) ==
    [Collected(frames[c]) EXCEPT !.scheduled = IF refilled /\ timed THEN Target ELSE @ - 1]

(* scheduled_frame_completed: the schedule is filled up again,                 *)
Completed(c, timed, refilled) ==
    [Collected(frames[c]) EXCEPT !.scheduled = IF refilled THEN Target ELSE @ - 1]

(* if the playback still runs. A completion that tells no time, of a frame the *)
(* device dropped, is good for a refill only if one before it told the time.   *)
Replenish ==
    /\ sdk # None
    /\ LET c == sdk
       IN  \/ /\ object[c].phase # "running"
              /\ UNCHANGED <<tasks, frames, observed>> /\ sdk' = None
              /\ UNCHANGED <<running, at, closing, output_node, wanted, holder, listed, device,
                             path>>
              /\ Objects(object)
           \/ /\ object[c].phase = "running"
              /\ \E timed, refilled \in BOOLEAN, left \in 0 .. Collected(frames[c]).queued :
                    /\ refilled => timed \/ observed[c]
                    /\ observed' = [observed EXCEPT ![c] = timed \/ @]
                    /\ frames' = [frames EXCEPT ![c] =
                          [Completed(c, timed, refilled) EXCEPT !.queued = left]]
                    /\ tasks' = IF refilled THEN tasks ELSE Asked(c, "fail output")
                    /\ sdk' = None
                    /\ UNCHANGED <<running, at, closing, output_node, wanted, holder, listed,
                                   device, path>>
                    /\ Objects(IF refilled THEN object ELSE Stopping(c))

-----------------------------------------------------------------------------
OutputInit ==
    /\ node \in {"alive", "gone"} /\ selection = Unset /\ playback = None /\ drawing = FALSE
    /\ object = [c \in Playbacks |-> Absent] /\ holder = None /\ listed = TRUE
    /\ wanted = [c \in Playbacks |-> "disabled"]
    /\ \E keyer \in BOOLEAN :
          device = [user |-> None, callback |-> None, playing |-> FALSE, keyer |-> keyer]
    /\ path = [c \in Playbacks |-> "none"] /\ frames = [c \in Playbacks |-> Empty]
    /\ observed = [c \in Playbacks |-> FALSE]
    /\ sdk = None

Init == OutputInit /\ tasks = <<>> /\ running = None /\ at = "begin" /\ closing = FALSE

Selections == {"disabled", "plain", "keyed"}

Node ==
    \/ \E mode \in Selections : Select(mode)
    \/ Existing \/ Start \/ Submit
    \/ RemoveNode

Control ==
    \/ StartControl \/ StartEnds \/ Ready
    \/ PumpBegins \/ PumpSchedules \/ PumpPlays
    \/ RetireControl \/ RetireEnds

Callback == FrameCompletes \/ Replenish

Next ==
    \/ Node \/ Discover
    \/ (Take /\ UNCHANGED output_vars)
    \/ Control
    \/ Callback

(* The render thread prepares every node in every frame and draws to the       *)
(* stream it has; the executor runs what it has; a callback returns.           *)
Fairness ==
    /\ WF_vars((Take /\ UNCHANGED output_vars) \/ Control)
    /\ WF_vars(Existing) /\ WF_vars(Submit)
    /\ WF_vars(Replenish)

Spec == Init /\ [][Next]_vars /\ Fairness

-----------------------------------------------------------------------------
Phases == {"none", "starting", "prerolling", "running", "stopping", "stopped", "failed"}

TypeOK ==
    /\ node \in {"alive", "gone"} /\ selection \in Selections \cup {Unset}
    /\ {playback, holder, sdk, device.user, device.callback} \subseteq Playbacks \cup {None}
    /\ {drawing, listed, device.playing, device.keyer} \subseteq BOOLEAN
    /\ \A c \in Playbacks :
          /\ object[c].phase \in Phases
          /\ {object[c].stop_requested, object[c].pump_posted, observed[c]} \subseteq BOOLEAN
          /\ wanted[c] \in Selections /\ path[c] \in {"none", "plain", "keyed"}
          /\ frames[c].ready \in 0..PipelineBound /\ frames[c].queued \in 0..Capacity
          /\ frames[c].scheduled \in 0..Target

(* A device has one user, who holds its reservation, from before it is enabled *)
(* until nothing is played or reported any more; and none without a user.      *)
OneUserOfTheOutput ==
    /\ device.user # None => holder = device.user
    /\ device.callback # None => holder = device.callback
    /\ device.playing => device.user # None /\ frames[device.user].shown
    /\ \A c \in Playbacks : path[c] # "none" \/ frames[c].scheduled > 0 => holder = c

(* The keyer is on exactly while frames with an alpha channel are shown,       *)
(* whatever a playback before, or another program, has left it at.             *)
KeyerMatchesThePath ==
    \A c \in Playbacks :
       path[c] # "none" /\ device.user = c => (device.keyer <=> path[c] = "keyed")

(* While a playback runs, the device has as many frames ahead as the settings  *)
(* ask for, after completions that came in time, late or not at all; or the    *)
(* playback is being given up.                                                 *)
RunningOutputsAreFull ==
    \A c \in Playbacks :
       object[c].phase = "running" /\ ~object[c].stop_requested => frames[c].scheduled = Target

(* What the node has let go of is gone in the end, and the device free, so it  *)
(* can be started with another selection.                                      *)
RetiredOutputsEnd == \A c \in Playbacks : (holder = c /\ playback # c) ~> holder # c

(* An output that has the frames of the program drawn and submitted plays them *)
(* or gives up; it does not stay where it is.                                  *)
PrerollEnds ==
    \A c \in Playbacks : object[c].phase = "prerolling" ~> object[c].phase # "prerolling"
=============================================================================
