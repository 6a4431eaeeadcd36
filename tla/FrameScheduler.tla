--------------------------- MODULE FrameScheduler ---------------------------
(* The clock of the program: frames are rendered on a grid of target times that *)
(* starts anew when the frame rate changes, and targets that cannot be met any  *)
(* more are skipped.                                                            *)
(*                                                                              *)
(* src/src/core/frame_scheduler.cpp and clock_source.cpp, as the loop of        *)
(* src/src/main.cpp calls them. Times are integers; metrics are left out.       *)
EXTENDS Integers

CONSTANTS
    Durations,        \* frame durations of the rates the settings offer
    AllowedLateness,  \* allowed_lateness_frames
    Horizon           \* bound: when time ends

\* What the constants have to be; assumed where they get values.
SchedulerAssumption ==
    /\ Durations \subseteq Nat \ {0}
    /\ AllowedLateness \in Nat /\ Horizon \in Nat

VARIABLES
    now,            \* what the steady clock shows
    duration,       \* duration_, 0 before the first frame
    anchor,         \* anchor_time_
    timeline_frame, \* timeline_frame_
    next_number,    \* next_frame_number_
    active,         \* frame_active_
    context         \* context_: number, epoch, pts and target of a frame

scheduler == <<now, duration, anchor, timeline_frame, next_number, active, context>>

NoContext == [number |-> -1, epoch |-> 0, pts |-> 0, target |-> -1]

Tick == now < Horizon /\ now' = now + 1
        /\ UNCHANGED <<duration, anchor, timeline_frame, next_number, active, context>>

\* Fault: the excess is rounded down.
SkipTooFew(end, next_target) ==
    LET excess == end - next_target - duration * AllowedLateness
    IN  IF excess <= 0 THEN 0 ELSE excess \div duration

(* frames_to_skip: none while the lateness is permitted, then as many as bring *)
(* it back to what is.                                                         *)
FramesToSkip(end, next_target) ==
    LET excess == end - next_target - duration * AllowedLateness
    IN  IF excess <= 0 THEN 0 ELSE (excess - 1) \div duration + 1

(* The last frame's finish_frame ends in wait_until. *)
TargetHasCome == now >= anchor + duration * timeline_frame

\* Fault: a frame of a new rate does not wait for the one before it.
BeginUnwaited(d) ==
    /\ ~active /\ (d = duration => TargetHasCome)
    /\ LET fresh == d # duration
           frame == IF fresh THEN 0 ELSE timeline_frame
           start == IF fresh THEN now ELSE anchor
       IN  /\ duration' = d /\ anchor' = start /\ timeline_frame' = frame
           /\ context' = [number |-> next_number,
                          epoch  |-> IF fresh THEN context.epoch + 1 ELSE context.epoch,
                          pts    |-> d * frame,
                          target |-> start + d * frame]
    /\ active' = TRUE
    /\ UNCHANGED <<now, next_number>>

(* begin_frame: a new rate starts the timeline anew, in an epoch of its own. *)
BeginFrame(d) ==
    /\ ~active /\ TargetHasCome
    /\ LET fresh == d # duration
           frame == IF fresh THEN 0 ELSE timeline_frame
           start == IF fresh THEN now ELSE anchor
       IN  /\ duration' = d /\ anchor' = start /\ timeline_frame' = frame
           /\ context' = [number |-> next_number,
                          epoch  |-> IF fresh THEN context.epoch + 1 ELSE context.epoch,
                          pts    |-> d * frame,
                          target |-> start + d * frame]
    /\ active' = TRUE
    /\ UNCHANGED <<now, next_number>>

\* Fault: frame numbers do not account for the frames that were skipped.
FinishUncounted ==
    /\ active
    /\ LET next == timeline_frame + 1
       IN  /\ timeline_frame' = next + FramesToSkip(now, anchor + duration * next)
           /\ next_number' = next_number + 1
    /\ active' = FALSE
    /\ UNCHANGED <<now, duration, anchor, context>>

(* finish_frame *)
FinishFrame ==
    /\ active
    /\ LET next == timeline_frame + 1
           skip == FramesToSkip(now, anchor + duration * next)
       IN  timeline_frame' = next + skip /\ next_number' = next_number + 1 + skip
    /\ active' = FALSE
    /\ UNCHANGED <<now, duration, anchor, context>>

SchedulerInit ==
    /\ now = 0 /\ duration = 0 /\ anchor = 0 /\ timeline_frame = 0 /\ next_number = 0
    /\ active = FALSE /\ context = NoContext

-----------------------------------------------------------------------------
SchedulerTypeOK ==
    /\ now \in 0..Horizon /\ duration \in Durations \cup {0} /\ anchor \in 0..now
    /\ timeline_frame \in Nat /\ next_number \in Nat /\ active \in BOOLEAN
    /\ DOMAIN context = DOMAIN NoContext

(* Program time never stands still or goes back, across a change of rate       *)
(* neither, so an output may take the target of a frame for its place in the   *)
(* order; and within an epoch frame numbers tell how far apart two frames are, *)
(* frames that were skipped counted.                                           *)
ProgramTimeIsExact ==
    [][context' # context /\ context # NoContext =>
          /\ context'.target > context.target
          /\ context'.number > context.number
          /\ context'.epoch = context.epoch =>
                context'.target - context.target
                   = duration * (context'.number - context.number)]_scheduler

(* A frame that ends late is followed by the first one whose lateness is       *)
(* permitted: none earlier, which would be late for ever, and none later.      *)
SkipsRestoreTheCadence ==
    [][active /\ ~active' =>
          LET lateness == now - (anchor + duration * timeline_frame')
              permitted == duration * AllowedLateness
          IN  /\ lateness <= permitted
              /\ timeline_frame' > timeline_frame + 1 => lateness + duration > permitted]_scheduler
=============================================================================
