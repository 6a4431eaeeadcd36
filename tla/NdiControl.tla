------------------------------ MODULE NdiControl ------------------------------
(* The NDI part of the program: an input and an output whose control tasks run  *)
(* on the one executor of the NDI registry, so that each waits for the threads  *)
(* the other's tasks join, and the registry's destructor, which waits for all.  *)
(*                                                                              *)
(* src/src/nodes/ndi/registry.cpp with CaptureControl and NdiOutput.            *)
EXTENDS SerialExecutor

CONSTANTS Captures, Sources, Senders, Streams, Unset

VARIABLES
    input_node, input_selection, capture, input_phase, input_stop_requested,
    input_worker_running, thread, receiver, runtime,
    output_node, output_selection, sender, stream, output_phase, output_stop_requested,
    output_worker_running, stream_state, worker, taken, instance

input == <<input_node, input_selection, capture, input_phase, input_stop_requested,
           input_worker_running, thread, receiver, runtime>>
output == <<output_node, output_selection, sender, stream, output_phase, output_stop_requested,
            output_worker_running, stream_state, worker, taken, instance>>
vars == <<executor, input, output>>

Input == INSTANCE CaptureControl WITH
    node <- input_node, selection <- input_selection, phase <- input_phase,
    stop_requested <- input_stop_requested, worker_running <- input_worker_running

Output == INSTANCE NdiOutput WITH
    node <- output_node, selection <- output_selection, phase <- output_phase,
    stop_requested <- output_stop_requested, worker_running <- output_worker_running

\* No capture is a sender, and no task is None.
ASSUME NdiAssumption ==
    /\ Input!SentinelsAssumption /\ Output!OutputAssumption
    /\ Captures \cap Senders = {}
    /\ None \notin Input!Tasks \cup Output!Tasks

Init == Input!Init /\ Output!Init

\* Fault: the registry does not wait for the output.
ShutdownEarly == Input!CloseExecutor \/ Input!DestroyRuntime

(* ~ndi_registry_s, when the nodes are gone. *)
Shutdown == output_node = "gone" /\ (Input!CloseExecutor \/ Input!DestroyRuntime)

Next ==
    \/ Input!Node /\ UNCHANGED output
    \/ \E c \in Captures : Input!Thread(c) /\ UNCHANGED output
    \/ Output!Node /\ UNCHANGED input
    \/ \E s \in Senders : Output!Worker(s) /\ UNCHANGED input
    \/ Take /\ UNCHANGED <<input, output>>
    \/ Input!Executor /\ UNCHANGED output
    \/ Output!Executor /\ UNCHANGED input
    \/ Shutdown /\ UNCHANGED output
    \/ ~runtime /\ UNCHANGED vars

(* As for each alone; the executor is one. *)
Fairness ==
    /\ WF_vars(\/ Take /\ UNCHANGED <<input, output>>
               \/ Input!Executor /\ UNCHANGED output
               \/ Output!Executor /\ UNCHANGED input)
    /\ WF_vars(Shutdown /\ UNCHANGED output)
    /\ \A c \in Captures : WF_vars(Input!CaptureEnds(c) /\ UNCHANGED output)
    /\ \A s \in Senders : WF_vars(Output!Worker(s) /\ UNCHANGED input)

Spec == Init /\ [][Next]_vars /\ Fairness

-----------------------------------------------------------------------------
(* Types; nothing of the library is used after the registry has destroyed its  *)
(* runtime or its owner has destroyed it, and each node has one of it at a     *)
(* time.                                                                       *)
DevicesAreUsedInTime ==
    /\ Input!TypeOK /\ Output!TypeOK
    /\ Input!ReceiversAreUsedInTime /\ Input!OneReceiver
    /\ Output!SendersAreUsedInTime
    /\ \A s \in Senders : instance[s] => runtime

(* What either node lets go of is brought to an end, although the tasks of the *)
(* other are in the way and each of them waits for a thread.                   *)
RetiredDevicesEnd == Input!RetiredCapturesEnd /\ Output!RetiredSendersEnd
=============================================================================
