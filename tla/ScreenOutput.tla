---------------------------- MODULE ScreenOutput ----------------------------
(* A program output on a window: the node draws into slots on the render       *)
(* thread, and a presenter thread shows them at the cadence of the monitor.    *)
(*                                                                             *)
(* src/src/nodes/screen/screen_output.cpp and detail/output_presenter.cpp, on  *)
(* top of OutputTiming. Slots are told apart only by where they are, so they   *)
(* are counted. The cadence is the nominal one (X11); the drawing itself,      *)
(* metrics and the refresh rate of a monitor are left out. The targets of      *)
(* program frames grow (FrameScheduler).                                       *)
EXTENDS OutputTiming

CONSTANTS
    None,             \* no presenter, no frame
    Windows,          \* monitors, full screen or not, and positions
    Buffers,          \* values of the setting buffer_frames
    QueueHeadroom,    \* OUTPUT_QUEUE_HEADROOM
    PipelineHeadroom, \* RENDER_PIPELINE_HEADROOM
    Duration,         \* nominal_frame_duration_
    Horizon           \* bound: when time ends

Settings == [window : Windows, buffer : Buffers, enabled : BOOLEAN]

\* What the constants have to be; assumed where they get values.
ScreenAssumption ==
    /\ None = NoFrame /\ None \notin Int \cup [target : Int] \cup Settings
    /\ Buffers \subseteq Nat \ {0} /\ Duration \in Nat \ {0} /\ ObservationCount \in Nat \ {0}
    /\ {QueueHeadroom, PipelineHeadroom, Horizon} \subseteq Nat

VARIABLES
    now,        \* the time
    program,    \* program_target_time of the frame
    node,       \* its frame: idle, prepared or drawing; or removing, removed
    settings,   \* what the node observed: window, buffer and enabled
    presenter,  \* what presenter_ was made for, or None
    stopping,   \* presenter_stopping_
    running,    \* running_
    free,       \* length of free_slots_
    submitted,  \* submitted_frames_
    retired,    \* lengths of retired_slots_, with and without a fence
    thread,     \* the presenter: collecting, testing, tested, blocked, first,
                \* looping, sleeping, swapping, finishing; ended (display_finished_)
    queue,      \* its timed_output_queue_s
    observed,   \* observations of its presentation_timeline_s
    swap,       \* the swap under way: whether it is the first, and the target
                \* whose latency it tells, or None
    next_swap,  \* next_nominal_swap_
    shown       \* history: the target of the frame shown last

node_vars   == <<program, node, settings, presenter, stopping>>
slot_vars   == <<free, submitted, retired>>
thread_vars == <<queue, observed, swap, next_swap, shown>>
vars == <<now, node_vars, running, slot_vars, thread, thread_vars>>

QueueCapacity(buffer) == buffer + QueueHeadroom
SlotCount(buffer)     == QueueCapacity(buffer) + 1 + PipelineHeadroom

Kept(q)  == Len(q.frames) + (IF q.current = None THEN 0 ELSE 1)

\* The thread holds mutex_ from the test of its predicate until it sleeps.
MutexFree == thread # "tested"

-----------------------------------------------------------------------------
(* The node, on the render thread. *)

NoPresenter ==
    /\ presenter' = None /\ stopping' = FALSE /\ running' = FALSE
    /\ free' = 0 /\ submitted' = <<>> /\ retired' = [fenced |-> 0, plain |-> 0]
    /\ thread' = "ended" /\ queue' = EmptyQueue /\ observed' = <<>>
    /\ swap' = None /\ next_swap' = 0

(* What a new presenter starts with. *)
Fresh(buffer) ==
    /\ stopping' = FALSE /\ running' = TRUE
    /\ free' = SlotCount(buffer)
    /\ submitted' = <<>> /\ retired' = [fenced |-> 0, plain |-> 0]
    /\ thread' = "collecting" /\ queue' = EmptyQueue /\ observed' = <<>>
    /\ swap' = None /\ next_swap' = 0

\* Fault: it is made for the settings its predecessor was stopped with.
NewPresenterStale(s) == presenter' = [settings EXCEPT !.enabled = TRUE] /\ Fresh(settings.buffer)

(* The constructor and start. *)
NewPresenter(s) == presenter' = s /\ Fresh(s.buffer)

(* request_stop: a thread that is about to sleep is not awake to be notified   *)
(* and not yet asleep, since mutex_ is not taken.                              *)
RequestStop ==
    /\ running' = FALSE
    /\ thread' = IF thread = "blocked" THEN "testing" ELSE thread

(* prepare: settings that differ ask the presenter to stop. Once it has, which *)
(* is never waited for, it is destroyed and, if the output is enabled, one is  *)
(* made for the settings of this frame; which can fail, and is tried again.    *)
Prepare(s) ==
    LET changes == presenter # None /\ s # settings
        leaves  == stopping \/ changes
        over    == leaves /\ thread = "ended"
    IN  /\ settings' = s
        /\ CASE leaves /\ ~over ->
                   /\ stopping' = TRUE /\ node' = "idle"
                   /\ IF stopping THEN UNCHANGED <<running, thread>> ELSE RequestStop
                   /\ UNCHANGED <<presenter, slot_vars, queue, observed, swap, next_swap>>
             [] (over \/ presenter = None) /\ s.enabled ->
                   \/ node' = "prepared" /\ NewPresenter(s)
                   \/ node' = "idle" /\ NoPresenter
             [] (over \/ presenter = None) /\ ~s.enabled ->
                   node' = "idle" /\ NoPresenter
             [] OTHER ->
                   /\ node' = "prepared"
                   /\ UNCHANGED <<presenter, stopping, running, slot_vars, thread,
                                  queue, observed, swap, next_swap>>

BeginFrame(s) ==
    /\ node = "idle"
    /\ program' \in program + 1..now
    /\ Prepare(s)
    /\ UNCHANGED <<now, shown>>

(* try_acquire: slots without a fence and those whose fence has signalled are  *)
(* reclaimed; without a free slot the frame is not drawn.                      *)
Acquire ==
    /\ node = "prepared" /\ MutexFree
    /\ \E signalled \in 0..retired.fenced :
          LET found == free + retired.plain + signalled
          IN  /\ retired' = [fenced |-> retired.fenced - signalled, plain |-> 0]
              /\ free' = Max({0, found - 1})
              /\ node' = IF found = 0 THEN "idle" ELSE "drawing"
    /\ UNCHANGED <<now, program, settings, presenter, stopping, running, submitted,
                   thread, thread_vars>>

(* submit, and the presenter is notified. *)
Submit ==
    /\ node = "drawing" /\ MutexFree
    /\ submitted' = Append(submitted, [target |-> program])
    /\ thread' = IF thread = "blocked" THEN "testing" ELSE thread
    /\ node' = "idle"
    /\ UNCHANGED <<now, program, settings, presenter, stopping, running, free, retired,
                   thread_vars>>

\* Fault: the slot of a frame that is not submitted is not given back.
AbandonLeaking ==
    /\ node = "drawing" /\ MutexFree
    /\ node' = "idle"
    /\ UNCHANGED <<now, program, settings, presenter, stopping, running, slot_vars,
                   thread, thread_vars>>

(* The drawing throws: ~render_frame_s gives the slot back. *)
Abandon ==
    /\ node = "drawing" /\ MutexFree
    /\ free' = free + 1 /\ node' = "idle"
    /\ UNCHANGED <<now, program, settings, presenter, stopping, running, submitted,
                   retired, thread, thread_vars>>

(* ~node_impl: stop joins the thread. *)
RemoveNode ==
    /\ node = "idle" /\ presenter # None
    /\ node' = "removing" /\ RequestStop
    /\ UNCHANGED <<now, program, settings, presenter, stopping, slot_vars, thread_vars>>

Joined ==
    /\ node = "removing" /\ thread = "ended"
    /\ node' = "removed" /\ NoPresenter
    /\ UNCHANGED <<now, program, settings, shown>>

-----------------------------------------------------------------------------
(* The presenter thread. *)

ThreadOnly == UNCHANGED <<now, node_vars, running>>

\* What collect_submitted leaves: the queue, and the frames it turned away.
Collected == PushAll(queue, submitted, QueueCapacity(presenter.buffer))

CollectsInto(q) ==
    /\ submitted' = <<>> /\ queue' = q
    /\ retired' = [retired EXCEPT !.plain = @ + Kept(queue) + Len(submitted) - Kept(q)]

(* An iteration of wait_for_preroll, up to the lock. *)
CollectPreroll ==
    /\ thread = "collecting" /\ ThreadOnly
    /\ IF ~running THEN thread' = "first" /\ UNCHANGED <<queue, submitted, retired>>
       ELSE /\ CollectsInto(Collected)
            /\ thread' = IF Len(queue'.frames) >= presenter.buffer THEN "first" ELSE "testing"
    /\ UNCHANGED <<free, observed, swap, next_swap, shown>>

(* condition_.wait: the predicate, and the thread sleeps. *)
TestPreroll ==
    /\ thread = "testing" /\ ThreadOnly
    /\ thread' = IF ~running \/ submitted # <<>> THEN "collecting" ELSE "tested"
    /\ UNCHANGED <<slot_vars, thread_vars>>

Block ==
    /\ thread = "tested" /\ ThreadOnly
    /\ thread' = "blocked"
    /\ UNCHANGED <<slot_vars, thread_vars>>

(* The selection is drawn, and swap_and_wait is under way. Leases that are let *)
(* go of are retired: that of the frame shown before, with a fence.            *)
Shows(chosen, arrived, is_first, observes) ==
    LET fenced == IF queue.current \notin {None, chosen.current} THEN 1 ELSE 0
    IN  /\ queue' = chosen /\ shown' = chosen.current.target
        /\ swap' = [first |-> is_first, observes |-> observes]
        /\ retired' = [fenced |-> retired.fenced + fenced,
                       plain  |-> retired.plain + Kept(queue) + arrived - Kept(chosen) - fenced]
        /\ thread' = "swapping"

(* present_preroll, for the time of the oldest frame. *)
PresentPreroll ==
    /\ thread = "first" /\ ThreadOnly
    /\ IF ~running \/ queue.frames = <<>>
       THEN thread' = "finishing" /\ UNCHANGED <<retired, queue, swap, shown>>
       ELSE LET oldest == queue.frames[1].target
            IN  Shows(Select(queue, oldest, Duration \div 2), 0, TRUE, oldest)
    /\ UNCHANGED <<free, submitted, observed, next_swap>>

(* The loop of run, at its test. *)
Loop ==
    /\ thread = "looping" /\ ThreadOnly
    /\ thread' = IF running THEN "sleeping" ELSE "finishing"
    /\ UNCHANGED <<slot_vars, thread_vars>>

(* select_frame, at the predicted completion: when a full queue holds nothing  *)
(* but frames that are not due, the latency is observed again.                 *)
SelectFrame ==
    /\ thread = "sleeping" /\ now >= next_swap /\ ThreadOnly
    /\ LET q      == Collected
           stalls == /\ Len(q.frames) = QueueCapacity(presenter.buffer)
                     /\ q.frames[1].target > ProgramTarget(observed, next_swap) + Duration \div 2
           chosen == Select(q, ProgramTarget(observed', next_swap), Duration \div 2)
       IN  /\ observed' = IF stalls THEN Observe(observed, next_swap - q.frames[1].target)
                                    ELSE observed
           /\ Shows(chosen, Len(submitted), FALSE,
                    IF chosen.current = queue.current THEN None ELSE chosen.current.target)
    /\ submitted' = <<>>
    /\ UNCHANGED <<free, next_swap>>

\* Fault: an overrun is not caught up with.
IntervalOne(completion) == 1

(* interval_count of observe_completion: whole intervals, to the nearest. *)
IntervalCount(completion) ==
    Max({1, 1 + ((completion - next_swap + Duration \div 2) \div Duration)})

(* swap_and_wait returns. *)
Swapped ==
    /\ thread = "swapping" /\ ThreadOnly
    /\ thread' = "looping" /\ swap' = None
    /\ observed' = IF swap.observes = None THEN observed
                                           ELSE Observe(observed, now - swap.observes)
    /\ next_swap' = IF swap.first THEN now + Duration
                    ELSE next_swap + Duration * IntervalCount(now)
    /\ UNCHANGED <<slot_vars, queue, shown>>

(* The end of run: what is left goes with the queue, glFinish has been called. *)
Finish ==
    /\ thread = "finishing" /\ ThreadOnly
    /\ thread' = "ended" /\ queue' = EmptyQueue /\ submitted' = <<>>
    /\ LET fenced == IF queue.current = None THEN 0 ELSE 1
       IN  retired' = [fenced |-> retired.fenced + fenced,
                       plain  |-> retired.plain + Len(submitted) + Len(queue.frames)]
    /\ UNCHANGED <<free, observed, swap, next_swap, shown>>

-----------------------------------------------------------------------------
Tick ==
    /\ now < Horizon /\ now' = now + 1
    /\ UNCHANGED <<node_vars, running, slot_vars, thread, thread_vars>>

Init ==
    /\ now = 0 /\ program = -1 /\ node = "idle"
    /\ settings \in Settings /\ settings.enabled = FALSE
    /\ presenter = None /\ stopping = FALSE /\ running = FALSE
    /\ free = 0 /\ submitted = <<>> /\ retired = [fenced |-> 0, plain |-> 0]
    /\ thread = "ended" /\ queue = EmptyQueue /\ observed = <<>>
    /\ swap = None /\ next_swap = 0 /\ shown = -1

Node == (\E s \in Settings : BeginFrame(s)) \/ Acquire \/ Submit \/ Abandon
        \/ RemoveNode \/ Joined

Presenter == CollectPreroll \/ TestPreroll \/ Block \/ PresentPreroll \/ Loop
             \/ SelectFrame \/ Swapped \/ Finish

Next == Tick \/ Node \/ Presenter \/ (now = Horizon /\ UNCHANGED vars)

Spec == Init /\ [][Next]_vars

-----------------------------------------------------------------------------
Slots == free + Len(submitted) + Kept(queue) + retired.fenced + retired.plain
            + (IF node = "drawing" THEN 1 ELSE 0)

(* Types; and every slot of the presenter is in one place: no path, of frames  *)
(* dropped, turned away, abandoned, repeated or left over, loses or doubles it.*)
TypeOK ==
    /\ settings \in Settings /\ presenter \in Settings \cup {None}
    /\ node \in {"idle", "prepared", "drawing", "removing", "removed"}
    /\ thread \in {"collecting", "testing", "tested", "blocked", "first", "looping",
                   "sleeping", "swapping", "finishing", "ended"}
    /\ running => presenter # None
    /\ Slots = IF presenter = None THEN 0 ELSE SlotCount(presenter.buffer)

(* What the presenter keeps leaves the render thread the slots of the          *)
(* pipeline, as soon as it has collected and the GPU has released: a presenter *)
(* that falls behind, or repeats a frame, does not stop the program's drawing. *)
RenderHasSlots ==
    presenter # None /\ submitted = <<>> => SlotCount(presenter.buffer) - Kept(queue) >= PipelineHeadroom

(* An output that is not being stopped is shown with the settings the node saw *)
(* last, also when they changed while its predecessor was stopping.            *)
PresenterFollowsSettings ==
    presenter # None /\ ~stopping => presenter = settings /\ settings.enabled

(* What is on the screen never goes back in program time, across repeats,      *)
(* overruns, dropped frames and new presenters.                                *)
ShownInOrder == [][shown' >= shown]_vars

(* After a swap that took too long the next is due at least half an interval   *)
(* and at most one and a half later, still on the grid of the monitor.         *)
CadenceCatchesUp ==
    [][thread = "swapping" /\ thread' # thread /\ ~swap.first =>
          /\ (next_swap' - next_swap) % Duration = 0
          /\ next_swap' > now + (Duration - 1) \div 2
          /\ next_swap' <= now + Duration + Duration \div 2]_vars

(* A presenter that sleeps until frames come is woken when it shall stop. *)
SleeperIsWoken == thread = "blocked" => running
=============================================================================
