---------------------------- MODULE DeckLinkControl ----------------------------
(* The DeckLink part of the program: an input and an output of one device whose *)
(* control tasks run on the one executor of the DeckLink registry, the device   *)
(* coming and going, and the registry's destructor, which waits for the tasks.  *)
(*                                                                              *)
(* src/src/nodes/decklink/registry.cpp with DeckLinkInput and DeckLinkOutput.   *)
EXTENDS DeckLinkInput

CONSTANTS
    Graphs,   \* which of "input" and "output" the graph may begin with
    Playbacks, Target, Headroom, Reserve, PipelineBound

ASSUME GraphsAssumption == Graphs \subseteq SUBSET {"input", "output"}

VARIABLES
    registry, \* whether decklink_registry_s is there
    output_node, output_selection, playback, drawing, output_object, wanted, output_holder,
    output_device, path, frames, observed, output_sdk

output == <<output_node, output_selection, playback, drawing, output_object, wanted,
            output_holder, output_device, path, frames, observed, output_sdk>>
\* What an input has of its own: all but the list of devices.
input == <<input_node, object, holder, device, buffers, sdk>>
system_vars == <<vars, registry, output>>

Output == INSTANCE DeckLinkOutput WITH
    node <- output_node, selection <- output_selection, object <- output_object,
    holder <- output_holder, device <- output_device, sdk <- output_sdk

ASSUME PlaybacksAssumption ==
    /\ Output!OutputAssumption
    /\ Captures \cap Playbacks = {}
    /\ None \notin [op : Inputs \cup Output!Outputs, object : Captures \cup Playbacks]

SystemInit ==
    /\ Init /\ Output!OutputInit /\ registry = TRUE
    /\ \E graph \in Graphs :
          /\ node = (IF "input" \in graph THEN "alive" ELSE "gone")
          /\ output_node = (IF "output" \in graph THEN "alive" ELSE "gone")
          /\ "output" \notin graph => ~output_device.keyer

NodesAreGone == node = "gone" /\ output_node = "gone" /\ render = None

(* ~decklink_registry_s: the executor is drained, and the interfaces of the    *)
(* devices go. Nobody posts once the nodes are gone, so that the executor is   *)
(* closed as soon as it is empty.                                              *)
Shutdown ==
    /\ NodesAreGone /\ registry /\ registry' = FALSE
    /\ tasks = <<>> /\ running = None
    /\ closing' = TRUE /\ UNCHANGED <<tasks, running, at>>

(* The callbacks of the device notifications; without a node nobody looks.     *)
DeviceChanges == "alive" \in {node, output_node} /\ Discover

Executor ==
    \/ Take /\ UNCHANGED <<input, output>>
    \/ running # None /\ running.object \in Captures /\ Control /\ UNCHANGED output
    \/ running # None /\ running.object \in Playbacks /\ Output!Control /\ UNCHANGED input

SystemNext ==
    \/ (Node /\ UNCHANGED <<output, registry>>)
    \/ (Callback /\ UNCHANGED <<output, registry>>)
    \/ (\E c \in Captures : ReturnBuffers(c) /\ UNCHANGED <<output, registry>>)
    \/ ((Output!Node \/ Output!Callback) /\ UNCHANGED <<input, registry>>)
    \/ (Executor /\ UNCHANGED <<listed, registry>>)
    \/ (DeviceChanges /\ UNCHANGED <<output, registry>>)
    \/ (Shutdown /\ UNCHANGED <<listed, input, output>>)

(* As for each alone; the executor is one. *)
SystemFairness ==
    /\ WF_system_vars(Executor /\ UNCHANGED <<listed, registry>>)
    /\ WF_system_vars((ReleaseFrames \/ StopAsync \/ DropStopped) /\ UNCHANGED <<output, registry>>)
    /\ WF_system_vars((PushFrame \/ FrameFails \/ RequestRelease) /\ UNCHANGED <<output, registry>>)
    /\ \A c \in Captures : WF_system_vars(ReturnBuffers(c) /\ UNCHANGED <<output, registry>>)
    /\ WF_system_vars(playback # None /\ Output!Existing /\ UNCHANGED <<input, registry>>)
    /\ WF_system_vars(drawing /\ Output!Submit /\ UNCHANGED <<input, registry>>)
    /\ WF_system_vars(output_sdk # None /\ Output!Replenish /\ UNCHANGED <<input, registry>>)

SystemSpec == SystemInit /\ [][SystemNext]_system_vars /\ SystemFairness

-----------------------------------------------------------------------------
(* Types; a device has one user in each direction, who has the reservation for *)
(* longer than it uses the device, its frames and its buffers; and the registry *)
(* goes after the last output.                                                 *)
DevicesHaveOneUser ==
    /\ TypeOK /\ Output!TypeOK
    /\ OneUserOfTheInput /\ BuffersHaveTheirPool
    /\ Output!OneUserOfTheOutput
    /\ output_holder # None => registry

(* The keyer is on exactly while frames with an alpha channel are shown,       *)
(* whatever a playback before, or another program, has left it at; and while a *)
(* playback runs, the device has as many frames ahead as the settings ask for, *)
(* after completions that came in time, late or not at all, or the playback is *)
(* being given up.                                                             *)
PlaybacksFollowTheirSettings == Output!KeyerMatchesThePath /\ Output!RunningOutputsAreFull

(* What is retired is gone in the end and its device free: an output whatever  *)
(* its state, an input if no frame has come between the last look at its queue *)
(* and its stop.                                                               *)
DevicesAreGivenBack == EmptyCapturesRetire /\ Output!RetiredOutputsEnd

(* An output that has the frames of the program drawn and submitted plays them *)
(* or gives up; it does not stay where it is.                                  *)
PrerollEnds == Output!PrerollEnds
=============================================================================
