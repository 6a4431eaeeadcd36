----------------------------- MODULE MCTimedMedia -----------------------------
(* The queues of frames with a time for TLC: a behaviour is about the source   *)
(* queue of an input, the pacing of an NDI output along the program's clock,   *)
(* or the presentation of a screen output. The others stay where they began.   *)
EXTENDS SourceQueue

CONSTANTS
    Handles, Dimensions, Windows, Unset, ObservationCount, AllowedLateness, Durations,
    PacingHorizon, ScreenHorizon, Duration, Buffers, QueueHeadroom, PipelineHeadroom

VARIABLES part,
          now, duration, anchor, timeline_frame, next_number, active, context,
          timing, stream, dimensions, submitted, worker_running, stream_state,
          worker, local, reading, sent,
          s_now, program, node, settings, presenter, stopping, running, free,
          s_submitted, retired, thread, queue, observed, swap, next_swap, s_shown

Pacing == INSTANCE NdiPacing WITH
    NoFrame <- None, Streams <- Handles, Horizon <- PacingHorizon

Screen == INSTANCE ScreenOutput WITH
    NoFrame <- None, Horizon <- ScreenHorizon,
    now <- s_now, submitted <- s_submitted, shown <- s_shown

ASSUME TimedAssumption ==
    Pacing!SchedulerAssumption /\ Pacing!PacingAssumption /\ Screen!ScreenAssumption

pVars == <<now, duration, anchor, timeline_frame, next_number, active, context, timing, stream,
           dimensions, submitted, worker_running, stream_state, worker, local, reading, sent>>
sVars == <<s_now, program, node, settings, presenter, stopping, running, free, s_submitted,
           retired, thread, queue, observed, swap, next_swap, s_shown>>

AllInit ==
    /\ part \in {"source", "pacing", "screen"}
    /\ Init /\ Pacing!Init /\ Screen!Init
    /\ part = "screen" \/ settings = CHOOSE s \in Screen!Settings : ~s.enabled

AllNext ==
    /\ UNCHANGED part
    /\ \/ part = "source" /\ Next /\ UNCHANGED <<pVars, sVars>>
       \/ part = "pacing" /\ Pacing!Next /\ UNCHANGED <<vars, sVars>>
       \/ part = "screen" /\ Screen!Next /\ UNCHANGED <<vars, pVars>>

AllSpec == AllInit /\ [][AllNext]_<<part, vars, pVars, sVars>>

(* Types; every frame of a source and every slot of a screen output is in one  *)
(* place, no path through drops, repeats and failures loses or doubles it; and *)
(* the library reads the buffer of the frame it was sent only while it is held. *)
FramesAreAccountedFor ==
    /\ TypeOK /\ Pacing!TypeOK /\ Screen!TypeOK
    /\ Pacing!SentBuffersAreHeld

(* However far the thread that sends or shows falls behind, the render thread  *)
(* has the slots of its pipeline.                                              *)
PipelineHasSlots == Pacing!PipelineHasSlots /\ Screen!RenderHasSlots

(* A presenter that goes on shows with the settings the node saw last.         *)
PresenterFollowsSettings == Screen!PresenterFollowsSettings

(* Outputs never go back in program time: across failed readbacks, repeats,    *)
(* overruns, drops, new rates, streams, senders and presenters.                *)
OutputsPlayInOrder == Pacing!SentInOrder /\ Screen!ShownInOrder

(* A frame, or a swap, that ends late is followed by the first one whose       *)
(* lateness is permitted, on the grid of its clock; program time only grows,   *)
(* and within an epoch exactly with the frame numbers.                         *)
CadencesCatchUp ==
    /\ Pacing!SkipsRestoreTheCadence /\ Pacing!ProgramTimeIsExact
    /\ Screen!CadenceCatchesUp
=============================================================================
