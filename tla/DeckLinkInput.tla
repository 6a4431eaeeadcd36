----------------------------- MODULE DeckLinkInput -----------------------------
(* The life cycle of a DeckLink input's captures: the node, on the render       *)
(* thread, starts and stops them and lets go of their frames when the format    *)
(* changes; the control executor of the DeckLink registry calls the SDK and     *)
(* waits for the buffers of a pool; the SDK calls back on a thread of its own.  *)
(*                                                                              *)
(* src/src/nodes/decklink/input.cpp, detail/input_capture.cpp,                  *)
(* detail/allocator.cpp and detail/device_reservation.hpp. What the queue does  *)
(* with its frames is SourceQueue; here a frame is one of the pool's buffers.   *)
(* The SDK calls a capture back one call at a time, and an access to one of its *)
(* atomics is a step.                                                           *)
EXTENDS SerialExecutor, Integers

CONSTANTS
    Captures,   \* bound: identities for callback_s objects alive at once
    Modes,      \* display modes; the first mode of the device is among them
    FirstMode,
    QueueBound, \* SOURCE_QUEUE_CAPACITY
    TaskBound,  \* bound: tasks that wait when the format changes once more
    Unset       \* capture_selection_ holds nothing

ASSUME InputAssumption ==
    /\ None \notin Captures \cup Modes
    /\ FirstMode \in Modes /\ QueueBound \in Nat \ {0} /\ TaskBound \in Nat
    /\ Unset \notin {"enabled", "disabled"}
    /\ Modes \cap {"begin", "enabled", "checking", "deciding", "stopped", "failed"} = {}

VARIABLES
    node,      \* whether the graph holds the node
    selection, \* capture_selection_, for the one device
    capture,   \* capture_
    render,    \* the capture the render thread is letting go of, or None
    object,    \* the atomics of each callback_s
    holder,    \* the capture that holds the device's reservation, or None
    listed,    \* the registry lists the device
    device,    \* what the SDK has been told: user, callback, streaming
    pool,      \* allocator_ of each capture: none, open or shutting down
    lent,      \* the SDK has buffers of the pool
    queued,    \* buffers in frames of the queue
    sdk        \* the callback in progress

input_node == <<node, selection, capture, render>>
buffers    == <<pool, lent, queued>>
input_vars == <<input_node, object, holder, listed, device, buffers, sdk>>
vars == <<executor, input_vars>>

Task(op, c) == [op |-> op, object |-> c]
InHand(op, place) ==
    running # None /\ running.op = op /\ running.object \in Captures /\ at = place
Inputs == {"start input", "reconfigure input", "retire input"}
AnyInHand(place) == \E op \in Inputs : InHand(op, place)

Absent == [phase |-> "none", stop_requested |-> FALSE, terminal |-> "stopped",
           pending |-> None, mode |-> None]
Quiet  == [user |-> None, callback |-> None, streaming |-> FALSE]
NoCall == [call |-> "none", object |-> None, mode |-> None]

(* A callback_s goes with the last reference to it: the node's, a task's, the  *)
(* SDK's.                                                                      *)
Referred(c) ==
    \/ capture' = c \/ render' = c
    \/ running' # None /\ running'.object = c
    \/ \E i \in DOMAIN tasks' : tasks'[i].object = c
    \/ device'.callback = c \/ sdk'.object = c

Objects(changed) ==
    object' = [c \in Captures |-> IF Referred(c) THEN changed[c] ELSE Absent]

Changed(c, field, value) == [object EXCEPT ![c][field] = value]

-----------------------------------------------------------------------------
(* The node, on the render thread. *)

(* prepare_active_capture, when a capture asks for it: the frames go, and the  *)
(* control executor may go on.                                                 *)
ReleaseFrames ==
    /\ render = None /\ capture # None /\ object[capture].phase = "release_requested"
    /\ queued' = [queued EXCEPT ![capture] = 0]
    /\ tasks' = Posted(<<Task("reconfigure input", capture)>>)
    /\ object' = Changed(capture, "phase", "reconfiguring")
    /\ UNCHANGED <<running, at, closing, input_node, holder, listed, device, pool, lent, sdk>>

(* A capture that has stopped by itself is dropped.                            *)
DropStopped ==
    /\ render = None /\ capture # None /\ object[capture].phase = "stopped"
    /\ capture' = None /\ selection' = Unset
    /\ UNCHANGED <<executor, node, render, holder, listed, device, buffers, sdk>>
    /\ Objects(object)

(* stop_capture begins: the frames go. It is called for a capture that failed, *)
(* whose device is not listed any more, whose selection has changed, or whose  *)
(* node is destroyed.                                                          *)
StopCapture(selected, alive) ==
    /\ render = None /\ capture # None
    /\ render' = capture
    /\ capture' = None /\ selection' = selected /\ node' = alive
    /\ queued' = [queued EXCEPT ![capture] = 0]
    /\ UNCHANGED <<executor, object, holder, listed, device, pool, lent, sdk>>

LetGo(wanted) ==
    /\ node = "alive"
    /\ \/ capture # None /\ object[capture].phase = "failed"
       \/ ~listed
       \/ selection # wanted
    /\ StopCapture(Unset, node)

RemoveNode ==
    /\ node = "alive" /\ render = None
    /\ \/ StopCapture(Unset, "gone")
       \/ /\ capture = None
          /\ node' = "gone" /\ selection' = Unset
          /\ UNCHANGED <<executor, capture, render, object, holder, listed, device, buffers, sdk>>

(* stop_async: a capture that runs or waits for its frames is retired by a     *)
(* task of its own; one in any other phase is in the hands of a task that will *)
(* find stop_requested_ set.                                                   *)
StopAsync ==
    /\ render # None
    /\ LET posts == object[render].phase \in {"running", "release_requested"}
       IN  /\ tasks' = IF posts THEN Posted(<<Task("retire input", render)>>) ELSE tasks
           /\ render' = None
           /\ UNCHANGED <<running, at, closing, node, selection, capture, holder, listed,
                          device, buffers, sdk>>
           /\ Objects([object EXCEPT ![render] =
                          [@ EXCEPT !.terminal = "stopped", !.stop_requested = TRUE,
                                    !.phase = IF posts THEN "stopping" ELSE object[render].phase]])

(* prepare, with nothing to let go of and a selection not yet committed: a     *)
(* disabled input is done, one whose device is listed and not reserved starts  *)
(* a capture, any other tries again in the next frame.                         *)
Start(wanted) ==
    /\ node = "alive" /\ render = None /\ capture = None /\ selection # wanted
    /\ \/ /\ wanted = "disabled" /\ selection' = wanted
          /\ UNCHANGED <<executor, capture, object, holder>>
       \/ /\ wanted = "enabled" /\ listed /\ holder = None
          /\ \E c \in Captures :
                /\ object[c].phase = "none"
                /\ capture' = c /\ holder' = c /\ selection' = wanted
                /\ tasks' = Posted(<<Task("start input", c)>>)
                /\ object' = [object EXCEPT ![c] = [Absent EXCEPT !.phase = "starting"]]
          /\ UNCHANGED <<running, at, closing>>
    /\ UNCHANGED <<node, render, listed, device, buffers, sdk>>

(* A frame of the program takes frames from the queue and gives back what it   *)
(* has not submitted: select_frame to release_frame.                           *)
UseFrames ==
    /\ render = None /\ capture # None /\ object[capture].phase = "running"
    /\ \E n \in 0 .. queued[capture] - 1 : queued' = [queued EXCEPT ![capture] = n]
    /\ UNCHANGED <<executor, input_node, object, holder, listed, device, pool, lent, sdk>>

(* discovery_callback: the device comes and goes.                              *)
Discover ==
    /\ listed' = ~listed
    /\ UNCHANGED <<executor, input_node, object, holder, device, buffers, sdk>>

-----------------------------------------------------------------------------
(* The control executor. *)

Object == object[running.object]

\* The SDK is stopped, and release_upload_pool closes the pool.
SdkStopped(callback) == device' = [user |-> None, callback |-> callback, streaming |-> FALSE]
PoolShut == pool' = [pool EXCEPT ![running.object] = IF @ = "none" THEN @ ELSE "shutting"]

\* Fault: the buffers are not waited for.
PoolDrainedAlways(c) == TRUE
(* shutdown_and_wait: all buffers of the pool have come back.                  *)
PoolDrained(c) == ~lent[c] /\ queued[c] = 0 /\ ~(sdk.call = "frame" /\ sdk.object = c)

(* retire_capture begins, and will end in phase final.                         *)
Retire(changed, final) ==
    /\ object' = [changed EXCEPT ![running.object].phase = "stopping"]
    /\ IF holder = running.object THEN SdkStopped(None) ELSE UNCHANGED device
    /\ PoolShut
    /\ Reach(final)
    /\ UNCHANGED <<input_node, holder, listed, lent, queued, sdk>>

(* and ends when the pool has drained: the reservation goes.                   *)
RetireEnds ==
    /\ \E final \in {"stopped", "failed"} :
          /\ AnyInHand(final) /\ PoolDrained(running.object)
          /\ pool' = [pool EXCEPT ![running.object] = "none"]
          /\ holder' = (IF holder = running.object THEN None ELSE holder)
          /\ Finish
          /\ UNCHANGED <<input_node, listed, device, lent, queued, sdk>>
          /\ Objects(Changed(running.object, "phase", final))

(* start_capture_control *)
StartControl ==
    /\ InHand("start input", "begin")
    /\ \/ Object.stop_requested /\ Retire(object, "stopped")
       \/ ~Object.stop_requested /\ Retire(Changed(running.object, "stop_requested", TRUE), "failed")
       \/ /\ ~Object.stop_requested
          /\ device' = [user |-> running.object, callback |-> running.object, streaming |-> TRUE]
          /\ pool' = [pool EXCEPT ![running.object] = "open"]
          /\ lent' = [lent EXCEPT ![running.object] = TRUE]
          /\ Reach("enabled")
          /\ UNCHANGED <<input_node, object, holder, listed, queued, sdk>>

(* enable_capture sets the phase when the streams have started.                *)
Enabled(mode) ==
    /\ object' = [object EXCEPT ![running.object] = [@ EXCEPT !.mode = mode, !.phase = "running"]]
    /\ Reach("checking")
    /\ UNCHANGED <<input_node, holder, listed, device, buffers, sdk>>

StartEnabled == InHand("start input", "enabled") /\ Enabled(FirstMode)

(* Both controls look once more whether they are to stop.                      *)
CheckStop ==
    /\ AnyInHand("checking")
    /\ IF Object.stop_requested
       THEN Retire(object, IF running.op = "start input" THEN Object.terminal ELSE "stopped")
       ELSE /\ Finish
            /\ UNCHANGED <<input_node, holder, listed, device, buffers, sdk>>
            /\ Objects(object)

(* reconfigure_capture_control                                                 *)
ReconfigureControl ==
    /\ InHand("reconfigure input", "begin")
    /\ IF Object.stop_requested THEN Retire(object, Object.terminal)
       ELSE Reach("deciding") /\ UNCHANGED input_vars

(* A mode that is the active one needs nothing; for another the streams are    *)
(* stopped, the pool drained, and the streams started again with a new pool.   *)
Reconfigure ==
    /\ InHand("reconfigure input", "deciding")
    /\ LET c == running.object
           taken == Changed(c, "pending", None)
       IN  \/ /\ Object.pending \in {None, Object.mode}
              /\ Finish
              /\ UNCHANGED <<input_node, holder, listed, device, buffers, sdk>>
              /\ Objects([taken EXCEPT ![c].phase = "running"])
           \/ /\ Object.pending \notin {None, Object.mode}
              /\ object' = [taken EXCEPT ![c].phase = "reconfiguring"]
              /\ SdkStopped(c) /\ PoolShut
              /\ Reach(Object.pending)
              /\ UNCHANGED <<input_node, holder, listed, lent, queued, sdk>>

Reenable ==
    /\ \E mode \in Modes :
          /\ InHand("reconfigure input", mode) /\ pool[running.object] = "shutting"
          /\ PoolDrained(running.object)
          /\ pool' = [pool EXCEPT ![running.object] = "open"]
          /\ lent' = [lent EXCEPT ![running.object] = TRUE]
          /\ device' = [device EXCEPT !.user = running.object, !.streaming = TRUE]
          /\ Reach(mode)
          /\ UNCHANGED <<input_node, object, holder, listed, queued, sdk>>

ReenableFails ==
    /\ \E mode \in Modes :
          /\ InHand("reconfigure input", mode) /\ PoolDrained(running.object)
          /\ pool[running.object] = "shutting"
    /\ Retire(Changed(running.object, "stop_requested", TRUE), "failed")

Reenabled ==
    \E mode \in Modes :
       InHand("reconfigure input", mode) /\ pool[running.object] = "open" /\ Enabled(mode)

RetireControl == InHand("retire input", "begin") /\ Retire(object, "stopped")

-----------------------------------------------------------------------------
(* The SDK. *)

\* Fault: a pool that shuts down does not take its buffers back.
ReturnToOpenPool(c) ==
    /\ lent[c] /\ device.user # c /\ pool[c] = "open"
    /\ lent' = [lent EXCEPT ![c] = FALSE]
    /\ UNCHANGED <<executor, input_node, object, holder, listed, device, pool, queued, sdk>>

(* It gives its buffers back when the input is disabled.                       *)
ReturnBuffers(c) ==
    /\ lent[c] /\ device.user # c
    /\ lent' = [lent EXCEPT ![c] = FALSE]
    /\ UNCHANGED <<executor, input_node, object, holder, listed, device, pool, queued, sdk>>

Calls == device.streaming /\ sdk = NoCall

(* VideoInputFrameArrived: a frame is turned away unless the capture runs,     *)
FrameArrives ==
    /\ Calls /\ object[device.callback].phase = "running"
    /\ sdk' = [call |-> "frame", object |-> device.callback, mode |-> None]
    /\ UNCHANGED <<executor, input_node, object, holder, listed, device, buffers>>

(* and pushed onto the queue, which makes room,                                *)
PushFrame ==
    /\ sdk.call = "frame"
    /\ LET c == sdk.object
       IN  queued' = [queued EXCEPT ![c] = IF @ < QueueBound THEN @ + 1 ELSE @]
    /\ sdk' = NoCall
    /\ UNCHANGED <<executor, input_node, holder, listed, device, pool, lent>>
    /\ Objects(object)

(* or something fails, and the capture is to be released and retired.          *)
FrameFails ==
    /\ sdk.call = "frame"
    /\ sdk' = NoCall
    /\ UNCHANGED <<executor, input_node, holder, listed, device, buffers>>
    /\ Objects(IF object[sdk.object].stop_requested THEN object
               ELSE [object EXCEPT ![sdk.object] =
                        [@ EXCEPT !.stop_requested = TRUE, !.terminal = "failed",
                                  !.phase = "release_requested"]])

(* VideoInputFormatChanged: nothing if the capture is to stop, otherwise a     *)
(* mode that is not the active one is left for the control executor.           *)
FormatChanges(mode) ==
    /\ Calls /\ ~object[device.callback].stop_requested
    /\ mode # object[device.callback].mode /\ Len(tasks) < TaskBound
    /\ sdk' = [call |-> "format", object |-> device.callback, mode |-> mode]
    /\ UNCHANGED <<executor, input_node, object, holder, listed, device, buffers>>

RequestRelease ==
    /\ sdk.call = "format"
    /\ sdk' = NoCall
    /\ UNCHANGED <<executor, input_node, holder, listed, device, buffers>>
    /\ Objects([object EXCEPT ![sdk.object] =
                   [@ EXCEPT !.pending = sdk.mode, !.phase = "release_requested"]])

-----------------------------------------------------------------------------
InputInit ==
    /\ node \in {"alive", "gone"} /\ selection = Unset /\ capture = None /\ render = None
    /\ object = [c \in Captures |-> Absent] /\ holder = None
    /\ listed = TRUE /\ device = Quiet
    /\ pool = [c \in Captures |-> "none"] /\ lent = [c \in Captures |-> FALSE]
    /\ queued = [c \in Captures |-> 0] /\ sdk = NoCall

Init == InputInit /\ tasks = <<>> /\ running = None /\ at = "begin" /\ closing = FALSE

Options == {"enabled", "disabled"}

Prepare ==
    \/ ReleaseFrames \/ DropStopped \/ StopAsync
    \/ \E wanted \in Options : LetGo(wanted) \/ Start(wanted)

Node == Prepare \/ RemoveNode \/ UseFrames

Control ==
    \/ StartControl \/ StartEnabled \/ CheckStop
    \/ ReconfigureControl \/ Reconfigure \/ Reenable \/ ReenableFails \/ Reenabled
    \/ RetireControl \/ RetireEnds

Callback ==
    \/ FrameArrives \/ PushFrame \/ FrameFails \/ RequestRelease
    \/ \E mode \in Modes : FormatChanges(mode)

Next ==
    \/ Node \/ Discover
    \/ (Take /\ UNCHANGED input_vars)
    \/ Control
    \/ Callback
    \/ \E c \in Captures : ReturnBuffers(c)

(* The render thread calls every node in every frame; the executor runs what   *)
(* it has; a callback returns, and the SDK gives back what it was lent.        *)
Fairness ==
    /\ WF_vars((Take /\ UNCHANGED input_vars) \/ Control)
    /\ WF_vars(ReleaseFrames \/ StopAsync \/ DropStopped)
    /\ WF_vars(PushFrame \/ FrameFails \/ RequestRelease)
    /\ \A c \in Captures : WF_vars(ReturnBuffers(c))

Spec == Init /\ [][Next]_vars /\ Fairness

-----------------------------------------------------------------------------
Phases == {"none", "starting", "running", "release_requested", "reconfiguring", "stopping",
           "stopped", "failed"}

TypeOK ==
    /\ node \in {"alive", "gone"} /\ selection \in Options \cup {Unset}
    /\ {capture, render, holder} \subseteq Captures \cup {None}
    /\ \A c \in Captures :
          /\ object[c].phase \in Phases /\ object[c].stop_requested \in BOOLEAN
          /\ object[c].terminal \in {"stopped", "failed"}
          /\ {object[c].pending, object[c].mode} \subseteq Modes \cup {None}
    /\ listed \in BOOLEAN
    /\ device.user \in Captures \cup {None} /\ device.streaming <=> device.user # None
    /\ pool \in [Captures -> {"none", "open", "shutting"}]
    /\ lent \in [Captures -> BOOLEAN] /\ queued \in [Captures -> 0..QueueBound]

(* A device has one user, who holds its reservation, from before it is enabled *)
(* until its pool has drained.                                                 *)
OneUserOfTheInput ==
    /\ device.user # None => holder = device.user
    /\ device.callback # None => holder = device.callback
    /\ \A c \in Captures : pool[c] # "none" => holder = c

(* A pool outlives the buffers that will come back to it, wherever they are.   *)
BuffersHaveTheirPool ==
    \A c \in Captures :
       lent[c] \/ queued[c] > 0 \/ (sdk.call = "frame" /\ sdk.object = c) => pool[c] # "none"

(* A capture whose retirement finds no frame of it in the queue, nor on its way *)
(* there, is gone in the end, and its device free: whatever else the executor  *)
(* has to do and wherever the SDK has the buffers.                             *)
EmptyCapturesRetire ==
    \A c \in Captures :
       (\E final \in {"stopped", "failed"} :
           /\ AnyInHand(final) /\ running.object = c
           /\ queued[c] = 0 /\ sdk.object # c) ~> holder # c

(* A capture the node has let go of is gone in the end, and its device free.   *)
LetGoCapturesEnd ==
    \A c \in Captures : (holder = c /\ capture # c) ~> holder # c
=============================================================================
