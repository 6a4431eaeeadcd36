----------------------------- MODULE OutputTiming -----------------------------
(* The two data structures every paced output is built from: the bounded queue *)
(* of finished program frames, and the estimate of how far presentation lags   *)
(* behind the program.                                                         *)
(*                                                                             *)
(* src/src/media/timed_output_queue.hpp and presentation_timeline.hpp. Times   *)
(* are integers. Metrics are left out.                                         *)
EXTENDS Integers, SequencesExt

CONSTANTS
    NoFrame,           \* no frame
    ObservationCount   \* LATENCY_OBSERVATION_COUNT

-----------------------------------------------------------------------------
(* timed_output_queue_s: frames by program time, and the frame shown last. *)

EmptyQueue == [frames |-> <<>>, current |-> NoFrame]

\* Fault: nothing makes room.
PushUnbounded(q, f, capacity) ==
    LET place == Cardinality({i \in DOMAIN q.frames : q.frames[i].target <= f.target})
    IN  IF q.current # NoFrame /\ f.target <= q.current.target THEN q
        ELSE [q EXCEPT !.frames = InsertAt(@, place + 1, f)]

\* push: a frame not later than the one shown is turned away, any other is
\* sorted in behind those of its time; the oldest make room.
Push(q, f, capacity) ==
    LET place  == Cardinality({i \in DOMAIN q.frames : q.frames[i].target <= f.target})
        frames == InsertAt(q.frames, place + 1, f)
    IN  IF q.current # NoFrame /\ f.target <= q.current.target THEN q
        ELSE [q EXCEPT !.frames = SubSeq(frames, Len(frames) - Min({capacity, Len(frames)}) + 1,
                                         Len(frames))]

\* collect_completed_readbacks: all that have come, oldest first.
PushAll(q, fs, capacity) ==
    LET pushed[n \in 0..Len(fs)] == IF n = 0 THEN q ELSE Push(pushed[n - 1], fs[n], capacity)
    IN  pushed[Len(fs)]

Due(q, target, tolerance) ==
    Cardinality({i \in DOMAIN q.frames : q.frames[i].target <= target + tolerance})

\* Fault: only the selected frame leaves the queue.
SelectKeepsEarlier(q, target, tolerance) ==
    LET n == Due(q, target, tolerance)
    IN  IF n = 0 THEN q ELSE [frames |-> RemoveAt(q.frames, n), current |-> q.frames[n]]

\* select: the latest due frame is shown and those before it are dropped; if
\* none is due the frame shown last is repeated, if there is one.
Select(q, target, tolerance) ==
    LET n == Due(q, target, tolerance)
    IN  IF n = 0 THEN q
        ELSE [frames |-> SubSeq(q.frames, n + 1, Len(q.frames)), current |-> q.frames[n]]

-----------------------------------------------------------------------------
(* presentation_timeline_s: the mean of the last observations. *)

\* Conversion to an integer cuts towards zero.
Quotient(sum, n) == IF sum < 0 THEN -((-sum) \div n) ELSE sum \div n

Observe(observations, latency) ==
    LET all == Append(observations, latency)
    IN  SubSeq(all, Len(all) - Min({ObservationCount, Len(all)}) + 1, Len(all))

Latency(observations) ==
    LET sum[n \in 0..Len(observations)] == IF n = 0 THEN 0 ELSE sum[n - 1] + observations[n]
    IN  Quotient(sum[Len(observations)], Len(observations))

\* map_presentation_to_program_target
ProgramTarget(observations, presentation) == presentation - Latency(observations)
=============================================================================
