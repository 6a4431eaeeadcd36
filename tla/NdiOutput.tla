------------------------------ MODULE NdiOutput ------------------------------
(* The life cycle of an NDI output's senders and of the streams they are given:*)
(* the node, on the render thread, replaces its sender when the selection      *)
(* changes or the sender has failed, and its stream when the picture or the    *)
(* timing changes; the control executor opens and closes senders; a sender's   *)
(* thread works on one stream at a time.                                       *)
(*                                                                             *)
(* src/src/nodes/ndi/output.cpp and the control half of                        *)
(* src/src/nodes/ndi/detail/output_sender.cpp. How frames are paced within a   *)
(* stream is NdiPacing.                                                        *)
EXTENDS SerialExecutor

CONSTANTS
    Senders, \* bound: identities for output_sender_s objects alive at once
    Streams, \* bound: identities for readback streams alive at once
    Unset    \* an observed value that holds nothing

\* What the constants have to be; assumed where they get values.
OutputAssumption ==
    /\ None \notin Senders \cup Streams
    /\ Unset \notin {"enabled", "disabled"}

VARIABLES
    node,           \* whether the graph holds the node
    selection,      \* sender_selection_
    sender,         \* sender_
    stream,         \* readback_stream_
    phase,          \* phase_ of each sender, "none" if there is no such object
    stop_requested, \* stop_requested_
    worker_running, \* worker_running_
    stream_state,   \* the stream of stream_state_, or None
    worker,         \* worker_: none, waiting, streaming or ended
    taken,          \* the stream run_stream works on, or None
    instance        \* sender_ of each sender is not null

output_node == <<node, selection, sender, stream>>
output_objects == <<phase, stop_requested, worker_running, stream_state, instance>>
output_threads == <<worker, taken>>
vars == <<executor, output_node, output_objects, output_threads>>

Task(op, s) == [op |-> op, object |-> s]
Tasks == [op : {"start", "stop"}, object : Senders]
Pending == {tasks[i] : i \in DOMAIN tasks}
InHand(op, place) ==
    running # None /\ running.op = op /\ running.object \in Senders /\ at = place

\* A stream goes with the last reference to it.
Referred(st) ==
    \/ stream = st
    \/ \E s \in Senders : stream_state[s] = st \/ taken[s] = st

-----------------------------------------------------------------------------
(* The node, on the render thread. *)

Dead == sender # None /\ phase[sender] \in {"failed", "stopped"}

(* Whether the name or the switch has changed. Names are not told apart: what is *)
(* sent under which name, no step depends on.                                  *)
Changed(wanted, renamed) == selection # wanted \/ renamed

(* The sender the node lets go of in this frame. *)
Retire(changed) == IF sender # None /\ (Dead \/ changed) THEN {sender} ELSE {}

(* A sender that is known to have stopped is not stopped again. *)
Stops(retired) == {s \in retired : phase[s] # "stopped"}

(* clear_stream of those the node takes the stream from; a dead sender has     *)
(* been let go of before, with what it had.                                    *)
ClearedOf(gone) == [s \in Senders |-> IF s \in gone THEN None ELSE stream_state[s]]

(* prepare: update_sender_lifecycle, and clear_render_state if the timing has  *)
(* changed, which makes no difference to a frame that changes the sender. A    *)
(* frame that changes neither is no step.                                      *)
Prepare(wanted, renamed) ==
    LET retired == Retire(Changed(wanted, renamed))
        changes == retired # {} \/ Changed(wanted, renamed)
        stops   == Stops(retired)
        stop    == IF stops = {} THEN <<>> ELSE <<Task("stop", sender)>>
    IN  /\ node = "alive"
        /\ selection' = wanted
        /\ stream' = None
        /\ stream_state' = ClearedOf(IF Dead THEN {} ELSE retired \cup {sender})
        /\ stop_requested' = [s \in Senders |-> s \in stops \/ stop_requested[s]]
        /\ \/ changes /\ wanted = "enabled"
              /\ \E s \in Senders :
                    /\ phase[s] = "none"
                    /\ sender' = s
                    /\ phase' = [phase EXCEPT ![s] = "starting"]
                    /\ tasks' = Posted(stop \o <<Task("start", s)>>)
           \/ ~(changes /\ wanted = "enabled")
              /\ sender' = (IF changes THEN None ELSE sender)
              /\ tasks' = Posted(stop)
              /\ UNCHANGED phase
        /\ UNCHANGED <<running, at, closing, node, worker_running, instance, output_threads>>

\* Fault: the node goes on submitting to a stream the sender does not have.
SetStreamUntold ==
    /\ node = "alive" /\ sender # None /\ phase[sender] = "running"
    /\ \E st \in Streams : ~Referred(st) /\ stream' = st
    /\ UNCHANGED <<executor, node, selection, sender, output_objects, output_threads>>

(* ensure_readback_stream, when there is none or the picture has a new size:   *)
(* the sender is told of the stream the node submits to.                       *)
SetStream ==
    /\ node = "alive" /\ sender # None /\ phase[sender] = "running"
    /\ \E st \in Streams :
          ~Referred(st) /\ stream' = st /\ stream_state' = [stream_state EXCEPT ![sender] = st]
    /\ UNCHANGED <<executor, node, selection, sender, phase, stop_requested, worker_running,
                   instance, output_threads>>

(* ~node_impl: stop_sender *)
RemoveNode ==
    /\ node = "alive"
    /\ node' = "gone" /\ sender' = None /\ stream' = None /\ selection' = Unset
    /\ stream_state' = ClearedOf({sender})
    /\ stop_requested' = [s \in Senders |-> s = sender \/ stop_requested[s]]
    /\ tasks' = Posted(IF sender = None THEN <<>> ELSE <<Task("stop", sender)>>)
    /\ UNCHANGED <<running, at, closing, phase, worker_running, instance, output_threads>>

(* A node of the same id, and so of the same sender name, may follow it. *)
AddNode ==
    /\ node = "gone" /\ ~closing
    /\ node' = "alive"
    /\ UNCHANGED <<executor, selection, sender, stream, output_objects, output_threads>>

-----------------------------------------------------------------------------
(* The control executor. *)

RunNext == Take /\ UNCHANGED <<output_node, output_objects, output_threads>>

(* A task has ended with its sender in phase p; the object goes with the last  *)
(* reference to it.                                                            *)
Released(s, p) ==
    LET referred == s = sender \/ s \in {task.object : task \in Pending}
    IN  /\ phase' = [phase EXCEPT ![s] = IF referred THEN p ELSE "none"]
        /\ stop_requested' = [stop_requested EXCEPT ![s] = referred /\ @]

(* start_control: too late, or the library has no sender to give,              *)
StartNothing ==
    /\ InHand("start", "begin")
    /\ \/ stop_requested[running.object] /\ Released(running.object, "stopped")
       \/ ~stop_requested[running.object] /\ Released(running.object, "failed")
    /\ Finish
    /\ UNCHANGED <<output_node, worker_running, stream_state, instance, output_threads>>

(* or it has, and its thread starts and finds nothing to do yet.               *)
StartSender ==
    /\ InHand("start", "begin") /\ ~stop_requested[running.object]
    /\ LET s == running.object
       IN  /\ instance' = [instance EXCEPT ![s] = TRUE]
           /\ worker_running' = [worker_running EXCEPT ![s] = TRUE]
           /\ worker' = [worker EXCEPT ![s] = "waiting"]
           /\ Released(s, "running")
    /\ Finish
    /\ UNCHANGED <<output_node, stream_state, taken>>

\* Fault: the thread is not told to leave.
StopUntold ==
    /\ InHand("stop", "begin")
    /\ phase' = [phase EXCEPT ![running.object] = "stopping"]
    /\ Reach("joining")
    /\ UNCHANGED <<output_node, stop_requested, stream_state, worker_running, instance,
                   output_threads>>

(* stop_control tells the thread to leave,                                     *)
StopBegins ==
    /\ InHand("stop", "begin") /\ phase[running.object] # "stopped"
    /\ LET s == running.object
       IN  /\ phase' = [phase EXCEPT ![s] = "stopping"]
           /\ worker_running' = [worker_running EXCEPT ![s] = FALSE]
           /\ stream_state' = [stream_state EXCEPT ![s] = None]
    /\ Reach("joining")
    /\ UNCHANGED <<output_node, stop_requested, instance, output_threads>>

\* Fault: the sender is destroyed while its thread runs.
StopUnjoined ==
    /\ InHand("stop", "joining")
    /\ instance' = [instance EXCEPT ![running.object] = FALSE]
    /\ Released(running.object, "stopped")
    /\ Finish
    /\ UNCHANGED <<output_node, worker_running, stream_state, output_threads>>

(* joins it and destroys the sender; a second stop finds nothing to do.        *)
StopEnds ==
    /\ \/ InHand("stop", "joining") /\ worker[running.object] \in {"none", "ended"}
       \/ InHand("stop", "begin") /\ phase[running.object] = "stopped"
    /\ LET s == running.object
       IN  /\ worker' = [worker EXCEPT ![s] = "none"]
           /\ instance' = [instance EXCEPT ![s] = FALSE]
           /\ Released(s, "stopped")
    /\ Finish
    /\ UNCHANGED <<output_node, worker_running, stream_state, taken>>

-----------------------------------------------------------------------------
(* A sender's thread. *)

(* worker_loop waits for a stream or the end, and run_stream returns when its  *)
(* stream is not the current one.                                              *)
Worker(s) ==
    /\ \/ /\ worker[s] = "waiting" /\ ~worker_running[s]
          /\ worker' = [worker EXCEPT ![s] = "ended"] /\ UNCHANGED taken
       \/ /\ worker[s] = "waiting" /\ worker_running[s] /\ stream_state[s] # None
          /\ worker' = [worker EXCEPT ![s] = "streaming"]
          /\ taken' = [taken EXCEPT ![s] = stream_state[s]]
       \/ /\ worker[s] = "streaming" /\ (~worker_running[s] \/ stream_state[s] # taken[s])
          /\ worker' = [worker EXCEPT ![s] = "waiting"]
          /\ taken' = [taken EXCEPT ![s] = None]
    /\ UNCHANGED <<executor, output_node, output_objects>>

-----------------------------------------------------------------------------
Init ==
    /\ tasks = <<>> /\ running = None /\ at = "begin" /\ closing = FALSE
    /\ node = "alive" /\ selection = Unset /\ sender = None /\ stream = None
    /\ phase = [s \in Senders |-> "none"]
    /\ stop_requested = [s \in Senders |-> FALSE]
    /\ worker_running = [s \in Senders |-> FALSE]
    /\ stream_state = [s \in Senders |-> None]
    /\ worker = [s \in Senders |-> "none"]
    /\ taken = [s \in Senders |-> None]
    /\ instance = [s \in Senders |-> FALSE]

Executor == StartNothing \/ StartSender \/ StopBegins \/ StopEnds

Node ==
    \/ \E wanted \in {"enabled", "disabled"}, renamed \in BOOLEAN : Prepare(wanted, renamed)
    \/ SetStream
    \/ RemoveNode \/ AddNode

Next ==
    \/ Node
    \/ RunNext \/ Executor
    \/ \E s \in Senders : Worker(s)

(* The executor runs its tasks; a thread that streams polls its stream with a  *)
(* timeout and one that waits is notified.                                     *)
Fairness ==
    /\ WF_vars(RunNext \/ Executor)
    /\ \A s \in Senders : WF_vars(Worker(s))

Spec == Init /\ [][Next]_vars /\ Fairness

-----------------------------------------------------------------------------
Phases == {"none", "starting", "running", "stopping", "stopped", "failed"}

(* Types; and what the node submits to is what its sender has been given, once *)
(* it runs, unless it is being stopped by another task than the node's.        *)
TypeOK ==
    /\ \A i \in DOMAIN tasks : tasks[i].object \in Senders => tasks[i] \in Tasks
    /\ node \in {"alive", "gone"}
    /\ selection \in {"enabled", "disabled", Unset}
    /\ sender \in Senders \cup {None} /\ stream \in Streams \cup {None}
    /\ phase \in [Senders -> Phases]
    /\ stop_requested \in [Senders -> BOOLEAN] /\ worker_running \in [Senders -> BOOLEAN]
    /\ stream_state \in [Senders -> Streams \cup {None}]
    /\ taken \in [Senders -> Streams \cup {None}]
    /\ worker \in [Senders -> {"none", "waiting", "streaming", "ended"}]
    /\ instance \in [Senders -> BOOLEAN]
    /\ stream # None => sender # None /\ stream_state[sender] = stream

(* A thread has its sender until it is joined; and there are never two senders *)
(* for the name the network sees, however often the output is switched off and *)
(* on again, renamed, fails, or is removed and added again in between.         *)
SendersAreUsedInTime ==
    \A s, r \in Senders :
        /\ worker[s] # "none" => instance[s]
        /\ instance[s] /\ instance[r] => s = r

(* A sender the node has let go of is destroyed, so its name is free again and *)
(* the shutdown does not wait for it for ever: its thread has let go of its    *)
(* stream before.                                                              *)
RetiredSendersEnd == \A s \in Senders : (instance[s] /\ sender # s) ~> ~instance[s]
=============================================================================
