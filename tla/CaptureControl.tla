---------------------------- MODULE CaptureControl ----------------------------
(* The life cycle of an NDI input's captures: the node, on the render thread,  *)
(* replaces its capture when the selection changes or the capture has failed;  *)
(* the control executor opens the receiver and starts the capture thread, and  *)
(* later joins the one and destroys the other.                                 *)
(*                                                                             *)
(* src/src/nodes/ndi/input.cpp, the control half of                            *)
(* src/src/nodes/ndi/detail/input_capture.cpp, and the destructor of           *)
(* src/src/nodes/ndi/registry.cpp. What a capture does with its frames is      *)
(* SourceQueue. A store to one of a capture's atomics is a step.               *)
EXTENDS SerialExecutor

CONSTANTS
    Captures, \* bound: identities for input_capture_s objects alive at once
    Sources,  \* source names
    Unset     \* capture_selection_ holds nothing

\* What the constants have to be; assumed where they get values.
SentinelsAssumption ==
    /\ None \notin Captures \cup Sources
    /\ Unset \notin Sources \cup {None}

VARIABLES
    node,           \* whether the graph holds the node
    selection,      \* capture_selection_
    capture,        \* capture_
    phase,          \* phase_ of each capture, "none" if there is no such object
    stop_requested, \* stop_requested_
    worker_running, \* worker_running_
    thread,         \* worker_: none, running, failing or ended
    receiver,       \* receiver_ is not null
    runtime         \* the NDI runtime is there

vars == <<executor, node, selection, capture, phase, stop_requested,
          worker_running, thread, receiver, runtime>>

objects == <<phase, stop_requested, worker_running, thread, receiver>>

Task(op, c) == [op |-> op, object |-> c]
Tasks == [op : {"start", "stop"}, object : Captures]

Pending == {tasks[i] : i \in DOMAIN tasks}
InHand(op, place) ==
    running # None /\ running.op = op /\ running.object \in Captures /\ at = place

-----------------------------------------------------------------------------
(* The node, on the render thread. *)

Dead == capture # None /\ phase[capture] \in {"failed", "stopped"}

(* stop_async, of a capture that is not known to have stopped. *)
Stops == IF capture # None /\ phase[capture] # "stopped" THEN <<Task("stop", capture)>> ELSE <<>>
Requested ==
    [c \in Captures |-> c \in {task.object : task \in {Stops[i] : i \in DOMAIN Stops}}
                        \/ stop_requested[c]]

\* Fault: the new capture is scheduled before the old one is stopped.
StartBeforeStop(c) == <<Task("start", c)>> \o Stops

Replacement(c) == Stops \o <<Task("start", c)>>

(* update_capture_lifecycle, once per frame, with the source that the options  *)
(* of this frame want, None if disabled or empty: a dead capture is let go and *)
(* replaced, a changed selection stops the capture and starts another.         *)
Prepare(wanted) ==
    /\ node = "alive"
    /\ Dead \/ wanted # selection
    /\ selection' = wanted
    /\ stop_requested' = Requested
    /\ \/ /\ wanted = None
          /\ capture' = None
          /\ tasks' = Posted(Stops)
          /\ UNCHANGED phase
       \/ /\ wanted # None
          /\ \E c \in Captures :
                /\ phase[c] = "none"
                /\ capture' = c
                /\ phase' = [phase EXCEPT ![c] = "starting"]
                /\ tasks' = Posted(Replacement(c))
    /\ UNCHANGED <<running, at, closing, node, worker_running, thread, receiver, runtime>>

(* The node's destructor, run on the render thread: stop_capture stops what it *)
(* has, whatever its phase; stop_control makes nothing of a second stop.       *)
RemoveNode ==
    /\ node = "alive"
    /\ node' = "gone" /\ capture' = None /\ selection' = Unset
    /\ LET stop == IF capture = None THEN <<>> ELSE <<Task("stop", capture)>>
       IN  tasks' = Posted(stop)
    /\ stop_requested' = [c \in Captures |-> c = capture \/ stop_requested[c]]
    /\ UNCHANGED <<running, at, closing, phase, worker_running, thread, receiver, runtime>>

(* A node of the same id may follow it. *)
AddNode ==
    /\ node = "gone" /\ ~closing
    /\ node' = "alive"
    /\ UNCHANGED <<executor, objects, selection, capture, runtime>>

-----------------------------------------------------------------------------
(* The control executor. *)

RunNext == Take /\ UNCHANGED <<objects, node, selection, capture, runtime>>

\* Fault: the object goes with its task, whoever else refers to it.
ReleasedAlways(c, p) == phase' = [phase EXCEPT ![c] = "none"]
                        /\ stop_requested' = [stop_requested EXCEPT ![c] = FALSE]

(* A task has ended with the capture in phase p: the object goes with the last *)
(* reference to it, held by the node or by another task.                       *)
Released(c, p) ==
    LET referred == c = capture \/ c \in {task.object : task \in Pending}
    IN  /\ phase' = [phase EXCEPT ![c] = IF referred THEN p ELSE "none"]
        /\ stop_requested' = [stop_requested EXCEPT ![c] = referred /\ @]

(* start_control of a capture that was stopped before it started, or one       *)
(* whose receiver cannot be created.                                           *)
StartNothing ==
    /\ InHand("start", "begin")
    /\ \/ stop_requested[running.object] /\ Released(running.object, "stopped")
       \/ ~stop_requested[running.object] /\ Released(running.object, "failed")
    /\ Finish
    /\ UNCHANGED <<node, selection, capture, worker_running, thread, receiver, runtime>>

(* start_control: the receiver is created and the thread started ...           *)
StartThread ==
    /\ InHand("start", "begin") /\ ~stop_requested[running.object]
    /\ receiver' = [receiver EXCEPT ![running.object] = TRUE]
    /\ worker_running' = [worker_running EXCEPT ![running.object] = TRUE]
    /\ thread' = [thread EXCEPT ![running.object] = "running"]
    /\ Reach("started")
    /\ UNCHANGED <<node, selection, capture, phase, stop_requested, runtime>>

(* ... and then the phase is set, whatever the thread has set it to.           *)
StartEnds ==
    /\ InHand("start", "started")
    /\ Released(running.object, "running")
    /\ Finish
    /\ UNCHANGED <<node, selection, capture, worker_running, thread, receiver, runtime>>

(* stop_control returns at once if the capture has stopped ...                 *)
StopNothing ==
    /\ InHand("stop", "begin") /\ phase[running.object] = "stopped"
    /\ Released(running.object, "stopped")
    /\ Finish
    /\ UNCHANGED <<node, selection, capture, worker_running, thread, receiver, runtime>>

\* Fault: the thread is not told to leave.
StopThreadSilently ==
    /\ InHand("stop", "begin") /\ phase[running.object] # "stopped"
    /\ phase' = [phase EXCEPT ![running.object] = "stopping"]
    /\ Reach("joining")
    /\ UNCHANGED <<node, selection, capture, worker_running, stop_requested, thread,
                   receiver, runtime>>

(* ... and tells the thread to leave otherwise,                                *)
StopThread ==
    /\ InHand("stop", "begin") /\ phase[running.object] # "stopped"
    /\ phase' = [phase EXCEPT ![running.object] = "stopping"]
    /\ worker_running' = [worker_running EXCEPT ![running.object] = FALSE]
    /\ Reach("joining")
    /\ UNCHANGED <<node, selection, capture, stop_requested, thread, receiver, runtime>>

\* Fault: the receiver is destroyed before the thread is joined.
StopWithoutJoin ==
    /\ InHand("stop", "joining")
    /\ receiver' = [receiver EXCEPT ![running.object] = FALSE]
    /\ Released(running.object, "stopped")
    /\ Finish
    /\ UNCHANGED <<node, selection, capture, worker_running, thread, runtime>>

(* joins it, if it was ever started, and destroys the receiver.                *)
StopEnds ==
    /\ InHand("stop", "joining") /\ thread[running.object] \in {"none", "ended"}
    /\ thread' = [thread EXCEPT ![running.object] = "none"]
    /\ receiver' = [receiver EXCEPT ![running.object] = FALSE]
    /\ Released(running.object, "stopped")
    /\ Finish
    /\ UNCHANGED <<node, selection, capture, worker_running, runtime>>

-----------------------------------------------------------------------------
(* A capture thread. *)

(* The receiver reports an error, or processing a frame throws: the phase      *)
(* first, then the flag.                                                       *)
CaptureFails(c) ==
    /\ thread[c] = "running"
    /\ phase' = [phase EXCEPT ![c] = "failed"]
    /\ thread' = [thread EXCEPT ![c] = "failing"]
    /\ UNCHANGED <<executor, node, selection, capture, stop_requested, worker_running,
                   receiver, runtime>>

CaptureEnds(c) ==
    /\ \/ thread[c] = "failing" /\ worker_running' = [worker_running EXCEPT ![c] = FALSE]
       \/ thread[c] = "running" /\ ~worker_running[c] /\ UNCHANGED worker_running
    /\ thread' = [thread EXCEPT ![c] = "ended"]
    /\ UNCHANGED <<executor, node, selection, capture, phase, stop_requested, receiver,
                   runtime>>

-----------------------------------------------------------------------------
(* ~app_state_s after the nodes: ~ndi_registry_s closes the executor, waits    *)
(* for it and destroys the runtime.                                            *)
CloseExecutor ==
    /\ node = "gone"
    /\ Close
    /\ UNCHANGED <<objects, node, selection, capture, runtime>>

DestroyRuntime ==
    /\ Drained /\ runtime
    /\ runtime' = FALSE
    /\ UNCHANGED <<executor, objects, node, selection, capture>>

-----------------------------------------------------------------------------
Init ==
    /\ tasks = <<>> /\ running = None /\ at = "begin" /\ closing = FALSE
    /\ node = "alive" /\ selection = Unset /\ capture = None
    /\ phase = [c \in Captures |-> "none"]
    /\ stop_requested = [c \in Captures |-> FALSE]
    /\ worker_running = [c \in Captures |-> FALSE]
    /\ thread = [c \in Captures |-> "none"]
    /\ receiver = [c \in Captures |-> FALSE]
    /\ runtime = TRUE

Node == (\E wanted \in Sources \cup {None} : Prepare(wanted)) \/ RemoveNode \/ AddNode

(* A frame that finds its capture dead. *)
Replace == Dead /\ \E wanted \in Sources \cup {None} : Prepare(wanted)

Executor ==
    \/ StartNothing \/ StartThread \/ StartEnds
    \/ StopNothing \/ StopThread \/ StopEnds

Thread(c) == CaptureFails(c) \/ CaptureEnds(c)

Next ==
    \/ Node
    \/ RunNext \/ Executor
    \/ \E c \in Captures : Thread(c)
    \/ CloseExecutor \/ DestroyRuntime
    \/ ~runtime /\ UNCHANGED vars

(* Frames go on, the executor runs its tasks, a capture thread leaves its loop *)
(* when told (it waits for a frame with a timeout) and a shutdown goes on.     *)
(* Nothing has to be selected, removed, closed or fail.                        *)
Fairness ==
    /\ WF_vars(Replace) /\ WF_vars(RunNext \/ Executor) /\ WF_vars(DestroyRuntime)
    /\ \A c \in Captures : WF_vars(CaptureEnds(c))

Spec == Init /\ [][Next]_vars /\ Fairness

-----------------------------------------------------------------------------
Phases == {"none", "starting", "running", "stopping", "stopped", "failed"}

(* Types, and nobody refers to a capture that has been destroyed. *)
TypeOK ==
    /\ \A i \in DOMAIN tasks : tasks[i].object \in Captures => tasks[i] \in Tasks
    /\ at \in {"begin", "started", "joining"} /\ closing \in BOOLEAN
    /\ node \in {"alive", "gone"}
    /\ selection \in Sources \cup {None, Unset}
    /\ capture \in Captures \cup {None}
    /\ phase \in [Captures -> Phases]
    /\ stop_requested \in [Captures -> BOOLEAN]
    /\ worker_running \in [Captures -> BOOLEAN]
    /\ thread \in [Captures -> {"none", "running", "failing", "ended"}]
    /\ receiver \in [Captures -> BOOLEAN]
    /\ runtime \in BOOLEAN
    /\ \A c \in Captures :
          (c = capture \/ Task("start", c) \in Pending \/ Task("stop", c) \in Pending
           \/ (running # None /\ running.object = c)) => phase[c] # "none"

(* A capture thread has its receiver until it is joined, and no receiver       *)
(* outlives its capture or the NDI runtime, whoever lets go of them when.      *)
ReceiversAreUsedInTime ==
    \A c \in Captures :
        /\ thread[c] # "none" => receiver[c]
        /\ receiver[c] => phase[c] # "none" /\ runtime

(* The node never has two receivers open: a capture that was stopped, or that  *)
(* a removed node left behind, is destroyed before the next one is created.    *)
OneReceiver == \A c, d \in Captures : receiver[c] /\ receiver[d] => c = d

(* Every capture the node lets go of is brought to an end, so its source is    *)
(* not received for ever and the shutdown does not wait for it for ever.       *)
RetiredCapturesEnd ==
    \A c \in Captures : (receiver[c] /\ capture # c) ~> ~receiver[c]

(* docs/gpu-and-media.md:257: "NDI input owns a dedicated capture thread which *)
(* continuously drains NDIlib_recv_capture_v3()". So a node whose capture      *)
(* thread has come to an end gets another capture.                             *)
DeadCapturesAreReplaced ==
    \A c \in Captures : (capture = c /\ thread[c] = "ended") ~> capture # c
=============================================================================
