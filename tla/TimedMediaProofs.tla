-------------------------- MODULE TimedMediaProofs --------------------------
(***************************************************************************)
(* Machine-checked proofs about the queues of frames with a time: for      *)
(* every capacity, buffer, rate, headroom and horizon, and any number of   *)
(* frames.                                                                 *)
(*                                                                         *)
(* The source queue (SourceQueue): its invariant orders the places a frame *)
(* passes. What is in frames_ was captured before what is in a batch, that *)
(* before what is pending, and all of it after the frame shown last.       *)
(*                                                                         *)
(* The queue of paced outputs (OutputTiming): what push and select keep,   *)
(* however many frames there are, by induction over numbers.               *)
(*                                                                         *)
(* The screen output (ScreenOutput): every slot is in one place, and what  *)
(* was shown is not newer than the queue, the queue than what is submitted *)
(* and that than the program.                                              *)
(*                                                                         *)
(* The program's clock (FrameScheduler): the target of a frame is that of  *)
(* its place on the grid.                                                  *)
(*                                                                         *)
(* The NDI output (NdiPacing): what was sent is not newer than what the    *)
(* thread's queue has, that not than what is submitted to its stream, and  *)
(* that not than what the node's next stream has.                          *)
(***************************************************************************)
EXTENDS MCTimedMedia, Integers, SequenceTheorems, FiniteSetTheorems, WellFoundedInduction, TLAPS

-----------------------------------------------------------------------------
(* The source queue. *)

\* The first frame push has not yet put into the queue.
Unseen == IF loaded = None THEN next ELSE next - 1

PushInv == loaded # None => next > 1

SeenInv ==
    /\ shown < Unseen
    /\ \A f \in Frames : f >= Unseen => place[f] = "none" /\ upload[f] \in {"none", "leased"}

OrderInv ==
    /\ \A f, g \in Frames :
        /\ place[f] = "frames" /\ place[g] \in {"batch", "pending"} => f < g
        /\ place[f] = "batch" /\ place[g] = "pending" => f < g
    /\ \A f \in Queued : shown < f

PhaseInv ==
    /\ pc \notin {"advance", "discontinuity"} => At("batch") = {}
    /\ pc \notin {"execute", "complete"} => ticket = NoTicket

TicketInv ==
    ticket.selection = "new" =>
        /\ ticket.frame \in Frames
        /\ pc = "execute" => readiness[ticket.frame] = "submitted"
        /\ readiness[ticket.frame] = "submitted" =>
              place[ticket.frame] = "frames" /\ \A g \in At("frames") : ticket.frame <= g

UploadInv ==
    \A f \in Frames : upload[f] \in {"queued", "completed"} =>
        /\ ticket = [frame |-> f, selection |-> "new"]
        /\ place[f] = "frames" /\ readiness[f] = "submitted"

RepeatInv ==
    /\ \A f \in At("current") : readiness[f] = "ready" /\ retained = f
    /\ ticket.selection = "repeat" => ticket.frame = retained

IInv == /\ TypeOK /\ QueueIsBounded /\ PushInv /\ SeenInv /\ OrderInv /\ PhaseInv
        /\ TicketInv /\ UploadInv /\ RepeatInv

-----------------------------------------------------------------------------
(* Counting. *)

LEMMA FramesAreNumbers == Frames \subseteq Nat /\ Frames \subseteq Int /\ IsFiniteSet(Frames)
BY CapacityAssumption, FS_Interval DEF Frames

LEMMA QueuedIsFinite == IsFiniteSet(Queued) /\ Cardinality(Queued) \in Nat
BY FramesAreNumbers, FS_Subset, FS_CardinalityType DEF Queued

\* Frames leave the queue, each counted once.
LEMMA Leaving ==
    ASSUME NEW fs, QueueIsBounded, Queued' = Queued \ fs,
           queued' = queued - Cardinality(fs \cap Queued)
    PROVE  QueueIsBounded' /\ queued' \in Nat
<1>1. Cardinality(Queued') = Cardinality(Queued) - Cardinality(Queued \cap fs) /\ IsFiniteSet(Queued')
  BY QueuedIsFinite, FS_Difference
<1>2. Queued \cap fs = fs \cap Queued /\ IsFiniteSet(fs \cap Queued)
  BY QueuedIsFinite, FS_Intersection
<1>3. Cardinality(Queued') \in Nat /\ Cardinality(fs \cap Queued) \in Nat
  BY <1>1, <1>2, FS_CardinalityType
<1> QED
  BY <1>1, <1>2, <1>3, QueuedIsFinite, CapacityAssumption DEF QueueIsBounded

\* Neither entering nor leaving.
LEMMA Staying ==
    ASSUME QueueIsBounded, Queued' = Queued, queued' = queued
    PROVE  QueueIsBounded'
BY DEF QueueIsBounded

\* What letting frames go does to the frames.
LEMMA LettingGo ==
    ASSUME NEW fs \in SUBSET Frames, TypeOK, QueueIsBounded, LetGo(fs)
    PROVE  /\ place' \in [Frames -> Places]
           /\ readiness' \in [Frames -> {"none", "reserved", "submitted", "ready", "failed"}]
           /\ upload' \in [Frames -> {"none", "leased", "returned", "queued", "completed",
                                     "failed", "discarded", "retained", "retired"}]
           /\ QueueIsBounded' /\ queued' \in Nat
           /\ due' \subseteq At("frames")'
           /\ \A f \in Frames :
                /\ place'[f] = IF f \in fs THEN "gone" ELSE place[f]
                /\ upload'[f] = upload[f] \/ (upload[f] = "leased" /\ upload'[f] = "returned")
                /\ readiness[f] = "ready" => readiness'[f] = "ready"
                /\ f \notin fs => readiness'[f] = readiness[f] /\ upload'[f] = upload[f]
                /\ f \in fs => readiness'[f] # "submitted"
<1>1. place' \in [Frames -> Places] /\ \A f \in Frames : place'[f] = IF f \in fs THEN "gone" ELSE place[f]
  BY DEF LetGo, Move, TypeOK, Places
<1>2. Queued' = Queued \ fs
  BY <1>1 DEF Queued
<1>3. QueueIsBounded' /\ queued' \in Nat
  BY <1>2, Leaving DEF LetGo
<1>4. due' \subseteq At("frames")'
  BY <1>1 DEF LetGo, TypeOK, At
<1>5. /\ readiness' \in [Frames -> {"none", "reserved", "submitted", "ready", "failed"}]
      /\ \A f \in Frames : /\ readiness[f] = "ready" => readiness'[f] = "ready"
                           /\ f \notin fs => readiness'[f] = readiness[f]
                           /\ f \in fs => readiness'[f] # "submitted"
  BY DEF LetGo, Cancelled, TypeOK
<1>6. /\ upload' \in [Frames -> {"none", "leased", "returned", "queued", "completed",
                                "failed", "discarded", "retained", "retired"}]
      /\ \A f \in Frames : /\ upload'[f] = upload[f] \/ (upload[f] = "leased" /\ upload'[f] = "returned")
                           /\ f \notin fs => upload'[f] = upload[f]
  <2>1. upload' = Returned(fs)
    BY DEF LetGo
  <2> QED BY <2>1 DEF Returned, TypeOK
<1> QED BY <1>1, <1>3, <1>4, <1>5, <1>6

-----------------------------------------------------------------------------
(* The capture thread. *)

LEMMA BeginPushKeeps == ASSUME IInv, BeginPush PROVE IInv'
<1> USE DEF IInv
<1>1. next \in Frames /\ next' = next + 1 /\ next' \in 1 .. MaxFrames + 1 /\ Unseen = next /\ Unseen' = next
  BY CapacityAssumption, NoneAssumption DEF BeginPush, TypeOK, Frames, Unseen
<1>2. /\ place[next] = "none" /\ upload[next] \in {"none", "leased"}
      /\ \A f \in Frames : f # next => readiness'[f] = readiness[f] /\ upload'[f] = upload[f]
      /\ readiness'[next] = "reserved" /\ upload'[next] = "leased"
  BY <1>1, FramesAreNumbers DEF BeginPush, SeenInv, TypeOK
<1>3. TypeOK'
  BY <1>1 DEF BeginPush, TypeOK, At
<1>4. QueueIsBounded'
  BY Staying DEF BeginPush, Queued
<1>5. PushInv'
  BY <1>1 DEF PushInv, TypeOK, Frames
<1>6. SeenInv'
  BY <1>1, <1>2 DEF SeenInv, BeginPush
<1>7. OrderInv' /\ PhaseInv'
  BY DEF BeginPush, OrderInv, PhaseInv, At, Queued
<1>8. TicketInv'
  BY <1>2 DEF BeginPush, TicketInv, At
<1>9. UploadInv'
  BY <1>2 DEF BeginPush, UploadInv
<1>10. RepeatInv'
  BY <1>2 DEF BeginPush, RepeatInv, At
<1> QED BY <1>3, <1>4, <1>5, <1>6, <1>7, <1>8, <1>9, <1>10

\* The frame being pushed is a frame no part of the queue has yet.
LEMMA PushedIsNew ==
    ASSUME IInv, loaded # None
    PROVE  /\ Pushed \in Frames /\ Unseen = Pushed /\ next = Pushed + 1
           /\ place[Pushed] = "none" /\ upload[Pushed] \in {"none", "leased"}
           /\ shown < Pushed
           /\ \A f \in Frames : place[f] # "none" => f < Pushed
<1>1. Pushed \in Frames /\ Unseen = Pushed /\ next = Pushed + 1
  BY CapacityAssumption DEF IInv, TypeOK, PushInv, Pushed, Unseen, Frames
<1> QED BY <1>1, FramesAreNumbers DEF IInv, SeenInv

LEMMA PushOverKeeps == ASSUME IInv, PushOver PROVE IInv'
<1> USE DEF IInv
<1>1. PICK victim \in IF At("pending") = {} THEN {Pushed} ELSE Oldest(At("pending")) :
          /\ place' = [f \in Frames |-> IF f = victim THEN "gone"
                                        ELSE IF f = Pushed THEN "pending" ELSE place[f]]
          /\ readiness' = Cancelled({victim})
          /\ upload' = Returned({victim})
  BY DEF PushOver
<1>2. /\ Pushed \in Frames /\ Unseen = Pushed /\ next = Pushed + 1 /\ shown < Pushed
      /\ place[Pushed] = "none" /\ upload[Pushed] \in {"none", "leased"}
      /\ \A f \in Frames : place[f] # "none" => f < Pushed
  BY PushedIsNew DEF PushOver
<1>3. victim \in Frames /\ (victim = Pushed \/ (place[victim] = "pending" /\ victim # Pushed))
  <2>1. CASE At("pending") = {}
    BY <2>1, <1>1, <1>2
  <2>2. CASE At("pending") # {}
    BY <2>2, <1>1, <1>2 DEF At, Oldest
  <2> QED BY <2>1, <2>2
<1>4. /\ place' \in [Frames -> Places]
      /\ \A f \in Frames : place'[f] = IF f = victim THEN "gone"
                                       ELSE IF f = Pushed THEN "pending" ELSE place[f]
  BY <1>1 DEF TypeOK, Places
<1>5. /\ readiness' \in [Frames -> {"none", "reserved", "submitted", "ready", "failed"}]
      /\ \A f \in Frames : f # victim \/ readiness[f] = "ready" => readiness'[f] = readiness[f]
      /\ readiness'[victim] # "submitted"
  BY <1>1, <1>3 DEF TypeOK, Cancelled
<1>6. /\ upload' \in [Frames -> {"none", "leased", "returned", "queued", "completed",
                                "failed", "discarded", "retained", "retired"}]
      /\ \A f \in Frames : /\ f # victim => upload'[f] = upload[f]
                           /\ upload'[f] \in {"queued", "completed"} => upload'[f] = upload[f]
  BY <1>1 DEF TypeOK, Returned
<1>7. Unseen' = next /\ next' = next
  BY DEF PushOver, Unseen
<1>8. At("frames")' = At("frames") /\ At("current")' = At("current") /\ At("batch")' = At("batch")
  BY <1>2, <1>3, <1>4 DEF At
<1>9. TypeOK'
  BY <1>4, <1>5, <1>6, <1>8, SMTT(30) DEF PushOver, TypeOK
<1>10. QueueIsBounded'
  <2>1. CASE victim = Pushed
    <3>1. Queued' = Queued
      BY <2>1, <1>2, <1>4 DEF Queued
    <3> QED BY <3>1, Staying DEF PushOver
  <2>2. CASE victim # Pushed
    <3>1. Queued' = (Queued \ {victim}) \cup {Pushed} /\ victim \in Queued /\ Pushed \notin Queued
      BY <2>2, <1>2, <1>3, <1>4 DEF Queued
    <3>2. IsFiniteSet(Queued \ {victim}) /\ Cardinality(Queued \ {victim}) = Cardinality(Queued) - 1
      BY <3>1, QueuedIsFinite, FS_RemoveElement
    <3>3. Cardinality(Queued') = (Cardinality(Queued) - 1) + 1
      BY <3>1, <3>2, FS_AddElement
    <3> QED BY <3>3, QueuedIsFinite DEF QueueIsBounded, PushOver
  <2> QED BY <2>1, <2>2
<1>11. PushInv'
  BY DEF PushOver, PushInv
<1>12. SeenInv'
  <2>1. \A f \in Frames : f >= next => f # Pushed /\ f >= Unseen
    BY <1>2, FramesAreNumbers
  <2>2. \A f \in Frames : f >= next => f # victim
    BY <2>1, <1>2, <1>3, FramesAreNumbers
  <2>3. \A f \in Frames : f >= next => place'[f] = "none" /\ upload'[f] \in {"none", "leased"}
    BY <2>1, <2>2, <1>4, <1>6 DEF SeenInv
  <2>4. shown < next
    BY <1>2, FramesAreNumbers DEF TypeOK
  <2> QED BY <2>3, <2>4, <1>7 DEF SeenInv, PushOver
<1>13. OrderInv'
  BY <1>2, <1>3, <1>4 DEF OrderInv, Queued, PushOver
<1>14. PhaseInv'
  BY <1>8 DEF PushOver, PhaseInv
<1>15. TicketInv'
  BY <1>2, <1>3, <1>4, <1>5, <1>8 DEF PushOver, TicketInv
<1>16. UploadInv'
  BY <1>2, <1>3, <1>4, <1>5, <1>6 DEF PushOver, UploadInv
<1>17. RepeatInv'
  BY <1>5, <1>8 DEF PushOver, RepeatInv, At
<1> QED BY <1>9, <1>10, <1>11, <1>12, <1>13, <1>14, <1>15, <1>16, <1>17

LEMMA PushIntoKeeps == ASSUME IInv, PushInto PROVE IInv'
<1> USE DEF IInv
<1>1. CASE loaded # queued
  <2>1. UNCHANGED <<place, readiness, upload, queued, next, due, clock, ticket, retained, shown, pc>>
        /\ loaded' = queued
    BY <1>1 DEF PushInto
  <2>2. queued # None /\ loaded # None /\ Unseen' = Unseen
    BY <2>1, NoneAssumption DEF TypeOK, Unseen, PushInto
  <2>3. TypeOK' /\ QueueIsBounded' /\ PushInv'
    BY <2>1, <2>2 DEF TypeOK, QueueIsBounded, PushInv, At, Queued
  <2>4. SeenInv' /\ OrderInv' /\ PhaseInv'
    BY <2>1, <2>2 DEF SeenInv, OrderInv, PhaseInv, At, Queued
  <2>5. TicketInv' /\ UploadInv' /\ RepeatInv'
    BY <2>1 DEF TicketInv, UploadInv, RepeatInv, At
  <2> QED BY <2>3, <2>4, <2>5
<1>2. CASE loaded = queued
  <2>1. /\ Pushed \in Frames /\ Unseen = Pushed /\ next = Pushed + 1 /\ shown < Pushed
        /\ place[Pushed] = "none" /\ upload[Pushed] \in {"none", "leased"}
        /\ \A f \in Frames : place[f] # "none" => f < Pushed
    BY PushedIsNew DEF PushInto
  <2>2. /\ queued' = queued + 1 /\ loaded' = None /\ queued < Capacity
        /\ UNCHANGED <<readiness, upload, next, due, clock, ticket, retained, shown, pc>>
    BY <1>2 DEF PushInto
  <2>3. place' \in [Frames -> Places] /\ \A f \in Frames : place'[f] = IF f = Pushed THEN "pending" ELSE place[f]
    BY <1>2 DEF PushInto, Move, TypeOK, Places
  <2>4. At("frames")' = At("frames") /\ At("current")' = At("current") /\ At("batch")' = At("batch")
    BY <2>1, <2>3 DEF At
  <2>5. TypeOK'
    BY <2>2, <2>3, <2>4 DEF TypeOK
  <2>6. QueueIsBounded'
    <3>1. Queued' = Queued \cup {Pushed} /\ Pushed \notin Queued
      BY <2>1, <2>3 DEF Queued
    <3>2. Cardinality(Queued') = Cardinality(Queued) + 1
      BY <3>1, QueuedIsFinite, FS_AddElement
    <3> QED BY <3>2, <2>2, QueuedIsFinite, CapacityAssumption DEF QueueIsBounded
  <2>7. PushInv' /\ PhaseInv'
    BY <2>2, <2>4 DEF PushInv, PhaseInv
  <2>8. SeenInv'
    <3>1. \A f \in Frames : f >= next => f # Pushed /\ f >= Unseen
      BY <2>1, FramesAreNumbers
    <3>2. Unseen' = next /\ shown < next
      BY <2>1, <2>2, FramesAreNumbers DEF Unseen, TypeOK
    <3> QED BY <3>1, <3>2, <2>2, <2>3 DEF SeenInv
  <2>9. OrderInv'
    BY <2>1, <2>2, <2>3 DEF OrderInv, Queued
  <2>10. TicketInv' /\ UploadInv'
    BY <2>1, <2>2, <2>3, <2>4 DEF TicketInv, UploadInv
  <2>11. RepeatInv'
    BY <2>2, <2>4 DEF RepeatInv
  <2> QED BY <2>5, <2>6, <2>7, <2>8, <2>9, <2>10, <2>11
<1> QED BY <1>1, <1>2

LEMMA TransferKeeps == ASSUME IInv, Transfer PROVE IInv'
<1> USE DEF IInv
<1>1. PICK f \in Frames, result \in {"completed", "failed"} :
          upload[f] = "queued" /\ upload' = [upload EXCEPT ![f] = result]
  BY DEF Transfer
<1>2. \A g \in Frames : upload'[g] = IF g = f THEN result ELSE upload[g]
  BY <1>1 DEF TypeOK
<1>3. TypeOK' /\ QueueIsBounded' /\ PushInv'
  BY <1>1 DEF Transfer, TypeOK, QueueIsBounded, PushInv, At, Queued
<1>4. SeenInv'
  BY <1>1, <1>2 DEF Transfer, SeenInv, Unseen
<1>5. OrderInv' /\ PhaseInv' /\ TicketInv' /\ RepeatInv'
  BY DEF Transfer, OrderInv, PhaseInv, TicketInv, RepeatInv, At, Queued
<1>6. UploadInv'
  BY <1>1, <1>2 DEF Transfer, UploadInv
<1> QED BY <1>3, <1>4, <1>5, <1>6

-----------------------------------------------------------------------------
(* The render thread. *)

\* Letting go of frames that are not parked keeps everything but the frame's phase.
LEMMA LetGoKeeps ==
    ASSUME IInv, NEW fs \in SUBSET Frames, LetGo(fs), UNCHANGED <<next, loaded, retained, shown>>,
           \A f \in fs : place[f] # "none", ticket' = ticket,
           \A f \in fs : ticket # [frame |-> f, selection |-> "new"]
    PROVE  /\ QueueIsBounded' /\ PushInv' /\ SeenInv' /\ OrderInv' /\ UploadInv' /\ RepeatInv'
           /\ At("batch")' \subseteq At("batch")
<1> USE DEF IInv
<1>1. /\ QueueIsBounded'
      /\ \A f \in Frames :
           /\ place'[f] = IF f \in fs THEN "gone" ELSE place[f]
           /\ upload'[f] = upload[f] \/ (upload[f] = "leased" /\ upload'[f] = "returned")
           /\ readiness[f] = "ready" => readiness'[f] = "ready"
           /\ f \notin fs => readiness'[f] = readiness[f] /\ upload'[f] = upload[f]
  BY LettingGo
<1>2. PushInv' /\ SeenInv'
  BY <1>1 DEF PushInv, SeenInv, Unseen
<1>3. OrderInv'
  BY <1>1 DEF OrderInv, Queued
<1>4. UploadInv'
  BY <1>1 DEF UploadInv
<1>5. RepeatInv'
  BY <1>1 DEF RepeatInv, At
<1> QED BY <1>1, <1>2, <1>3, <1>4, <1>5 DEF At

LEMMA NoTicketIsParked == \A f : NoTicket # [frame |-> f, selection |-> "new"]
<1> SUFFICES ASSUME NEW f, NoTicket = [frame |-> f, selection |-> "new"] PROVE FALSE
  OBVIOUS
<1>1. NoTicket.selection = "new"
  OBVIOUS
<1> QED BY <1>1 DEF NoTicket

LEMMA SwapPendingKeeps == ASSUME IInv, SwapPending PROVE IInv'
<1> USE DEF IInv
<1>1. /\ place' \in [Frames -> Places]
      /\ \A f \in Frames : place'[f] = IF place[f] = "pending" THEN "batch" ELSE place[f]
  BY DEF SwapPending, Move, At, TypeOK, Places
<1>2. At("batch") = {} /\ ticket = NoTicket
  BY DEF SwapPending, PhaseInv
<1>3. Queued' = Queued /\ At("frames")' = At("frames") /\ At("current")' = At("current")
  BY <1>1 DEF Queued, At
<1>4. TypeOK'
  BY <1>1, <1>3 DEF SwapPending, TypeOK
<1>5. QueueIsBounded' /\ PushInv'
  BY <1>3, Staying DEF SwapPending, PushInv
<1>6. SeenInv'
  BY <1>1 DEF SwapPending, SeenInv, Unseen
<1>7. OrderInv'
  BY <1>1, <1>2, <1>3 DEF SwapPending, OrderInv, At
<1>8. PhaseInv' /\ TicketInv'
  BY <1>2 DEF SwapPending, PhaseInv, TicketInv, NoTicket
<1>9. UploadInv'
  BY <1>1, <1>3 DEF SwapPending, UploadInv
<1>10. RepeatInv'
  BY <1>3 DEF SwapPending, RepeatInv
<1> QED BY <1>4, <1>5, <1>6, <1>7, <1>8, <1>9, <1>10

\* The three clears between frames.
LEMMA ClearKeeps ==
    ASSUME IInv, NEW fs \in SUBSET (At("pending") \cup Cleared), LetGo(fs),
           UNCHANGED <<next, loaded, ticket, retained, shown>>, clock' \in BOOLEAN,
           pc \in {"prepare", "discontinuity", "stopped"},
           \/ pc = "discontinuity" /\ pc' = "advance"
           \/ pc # "discontinuity" /\ pc' \in {"stopped", "destroyed"}
    PROVE  IInv'
<1> USE DEF IInv
<1>1. ticket = NoTicket /\ ticket.selection = "missing"
  BY DEF PhaseInv, NoTicket
<1>2. fs \in SUBSET Frames /\ \A f \in fs : place[f] # "none"
  BY DEF At, Cleared
<1>3. /\ QueueIsBounded' /\ PushInv' /\ SeenInv' /\ OrderInv' /\ UploadInv' /\ RepeatInv'
      /\ At("batch")' \subseteq At("batch")
  BY <1>1, <1>2, LetGoKeeps, NoTicketIsParked
<1>4. TypeOK'
  BY <1>2, LettingGo DEF TypeOK
<1>5. PhaseInv'
  BY <1>1, <1>3 DEF PhaseInv
<1>6. TicketInv'
  BY <1>1 DEF TicketInv
<1> QED BY <1>3, <1>4, <1>5, <1>6

LEMMA ProgramDiscontinuityKeeps == ASSUME IInv, ProgramDiscontinuity PROVE IInv'
BY ClearKeeps DEF ProgramDiscontinuity

LEMMA StopCaptureKeeps == ASSUME IInv, StopCapture PROVE IInv'
BY ClearKeeps DEF StopCapture

LEMMA DestroyKeeps == ASSUME IInv, Destroy PROVE IInv'
<1>1. clock' \in BOOLEAN
  BY DEF Destroy, IInv, TypeOK
<1> QED BY <1>1, ClearKeeps DEF Destroy

LEMMA AdvanceFrameKeeps == ASSUME IInv, AdvanceFrame PROVE IInv'
<1> USE DEF IInv
<1>1. PICK f \in Oldest(At("batch")), jump \in {clock, FALSE}, mapped \in BOOLEAN :
        LET cleared == IF jump THEN Cleared ELSE {}
            dropped == cleared \cup (IF mapped THEN {} ELSE {f})
        IN  /\ place' = [Move(dropped, "gone") EXCEPT ![f] = IF mapped THEN "frames" ELSE "gone"]
            /\ readiness' = Cancelled(cleared)
            /\ upload' = Returned(dropped)
            /\ queued' = queued - Cardinality(dropped \cap Queued)
            /\ due' \in {due \ cleared} \cup {(due \ cleared) \cup {g} : g \in {f} \ dropped}
  BY DEF AdvanceFrame
<1> DEFINE cleared == IF jump THEN Cleared ELSE {}
           dropped == cleared \cup (IF mapped THEN {} ELSE {f})
<1>2. f \in Frames /\ place[f] = "batch" /\ \A g \in At("batch") : f <= g
  BY DEF Oldest, At
<1>3. cleared \subseteq Frames /\ \A g \in cleared : place[g] \in {"frames", "current"}
  BY DEF Cleared, At
<1>4. cleared = {} \/ cleared = At("frames") \cup At("current")
  BY DEF Cleared
<1>5. /\ place' = [Move(dropped, "gone") EXCEPT ![f] = IF mapped THEN "frames" ELSE "gone"]
      /\ readiness' = Cancelled(cleared) /\ upload' = Returned(dropped)
      /\ queued' = queued - Cardinality(dropped \cap Queued)
      /\ due' = due \ cleared \/ (f \notin dropped /\ due' = (due \ cleared) \cup {f})
  BY <1>1
<1>6. dropped \subseteq cleared \cup {f} /\ cleared \subseteq dropped /\ f \notin cleared /\ (f \in dropped <=> ~mapped)
  BY <1>2, <1>3
<1> HIDE DEF cleared, dropped
<1>7. /\ place' \in [Frames -> Places]
      /\ \A g \in Frames : place'[g] = IF g = f THEN (IF f \in dropped THEN "gone" ELSE "frames")
                                       ELSE IF g \in cleared THEN "gone" ELSE place[g]
  <2>1. Move(dropped, "gone") \in [Frames -> Places]
    BY DEF Move, TypeOK, Places
  <2>2. \A g \in Frames : g # f => place'[g] = IF g \in cleared THEN "gone" ELSE place[g]
    BY <1>5, <1>6 DEF Move
  <2>3. place'[f] = IF f \in dropped THEN "gone" ELSE "frames"
    BY <1>2, <1>5, <1>6, <2>1
  <2> QED BY <1>2, <1>5, <2>1, <2>2, <2>3 DEF Places
<1>8. /\ readiness' \in [Frames -> {"none", "reserved", "submitted", "ready", "failed"}]
      /\ \A g \in Frames : readiness[g] = "ready" => readiness'[g] = "ready"
  BY <1>5 DEF Cancelled, TypeOK
<1>9. /\ upload' \in [Frames -> {"none", "leased", "returned", "queued", "completed",
                                "failed", "discarded", "retained", "retired"}]
      /\ \A g \in Frames : /\ upload'[g] \in {"queued", "completed"} => upload'[g] = upload[g]
                           /\ g \notin dropped => upload'[g] = upload[g]
  BY <1>5 DEF Returned, TypeOK
<1>10. QueueIsBounded' /\ queued' \in Nat
  <2>1. Queued' = Queued \ dropped
    BY <1>2, <1>3, <1>6, <1>7 DEF Queued
  <2> QED BY <2>1, <1>5, Leaving
<1>11. ticket = NoTicket /\ ticket' = ticket /\ ticket.selection = "missing"
  BY DEF AdvanceFrame, PhaseInv, NoTicket
<1>12. due' \subseteq At("frames")'
  <2>1. due \ cleared \subseteq At("frames")'
    BY <1>2, <1>7 DEF TypeOK, At
  <2>2. f \notin dropped => f \in At("frames")'
    BY <1>2, <1>7 DEF At
  <2> QED BY <2>1, <2>2, <1>5
<1>13. TypeOK'
  BY <1>7, <1>8, <1>9, <1>10, <1>12 DEF AdvanceFrame, TypeOK
<1>14. PushInv' /\ PhaseInv' /\ TicketInv'
  BY <1>11 DEF AdvanceFrame, PushInv, PhaseInv, TicketInv
<1>15. SeenInv'
  <2>1. \A g \in dropped : place[g] # "none" /\ g \in Frames
    BY <1>2, <1>3, <1>6
  <2>2. Unseen' = Unseen /\ shown' = shown
    BY DEF AdvanceFrame, Unseen
  <2>3. \A g \in Frames : g >= Unseen => g # f /\ g \notin dropped /\ g \notin cleared
    BY <1>2, <1>6, <2>1 DEF SeenInv
  <2> QED BY <2>2, <2>3, <1>7, <1>9 DEF SeenInv
<1>16. OrderInv'
  <2>1. \A g \in Frames : place[g] = "batch" /\ g # f => f < g
    BY <1>2, FramesAreNumbers DEF At
  <2> QED BY <2>1, <1>2, <1>7, SMTT(30) DEF AdvanceFrame, OrderInv, Queued
<1>17. UploadInv'
  BY <1>9, <1>11, NoTicketIsParked DEF UploadInv
<1>18. RepeatInv'
  <2>1. At("current")' \subseteq At("current") /\ retained' = retained
    BY <1>7 DEF AdvanceFrame, At
  <2> QED BY <2>1, <1>8, <1>11 DEF RepeatInv, At
<1> QED BY <1>10, <1>13, <1>14, <1>15, <1>16, <1>17, <1>18

LEMMA EndAdvanceKeeps == ASSUME IInv, EndAdvance PROVE IInv'
<1> USE DEF IInv
<1>1. TypeOK' /\ QueueIsBounded' /\ PushInv' /\ SeenInv' /\ OrderInv'
  BY DEF EndAdvance, TypeOK, QueueIsBounded, PushInv, SeenInv, Unseen, OrderInv, At, Queued
<1>2. PhaseInv' /\ TicketInv'
  BY DEF EndAdvance, PhaseInv, TicketInv, NoTicket, At
<1>3. UploadInv' /\ RepeatInv'
  BY DEF EndAdvance, UploadInv, RepeatInv, At
<1> QED BY <1>1, <1>2, <1>3

LEMMA SubmitFrameKeeps == ASSUME IInv, SubmitFrame PROVE IInv'
<1> USE DEF IInv
<1>1. /\ ticket = NoTicket /\ ticket.selection = "missing" /\ At("batch") = {}
      /\ pc = "submit" /\ pc' = "execute" /\ UNCHANGED <<next, loaded, clock, retained, shown>>
  BY DEF SubmitFrame, PhaseInv, NoTicket
<1>2. \A f \in Frames : upload[f] \notin {"queued", "completed"}
  BY <1>1, NoTicketIsParked DEF UploadInv
<1>3. ASSUME NEW s \in Newest(due),
             place' = Move(Superseded(s), "gone"),
             readiness' = [Cancelled(Superseded(s)) EXCEPT ![s] = "submitted"],
             upload' = [Returned(Superseded(s)) EXCEPT ![s] = "queued"],
             queued' = queued - Cardinality(Superseded(s)),
             due' = due \ Superseded(s),
             ticket' = [frame |-> s, selection |-> "new"]
      PROVE  IInv'
  <2>1. s \in Frames /\ place[s] = "frames" /\ s \in due
    BY DEF Newest, TypeOK, At
  <2>2. /\ Superseded(s) \subseteq Frames /\ Superseded(s) \subseteq Queued /\ s \notin Superseded(s)
        /\ \A g \in At("frames") : g \notin Superseded(s) => s <= g
        /\ \A g \in Superseded(s) : place[g] = "frames"
    BY <2>1, FramesAreNumbers DEF Superseded, At, Queued
  <2>3. /\ place' \in [Frames -> Places]
        /\ \A g \in Frames : place'[g] = IF g \in Superseded(s) THEN "gone" ELSE place[g]
    BY <1>3 DEF Move, TypeOK, Places
  <2>4. Cancelled(Superseded(s)) \in [Frames -> {"none", "reserved", "submitted", "ready", "failed"}]
        /\ \A g \in Frames : readiness[g] = "ready" => Cancelled(Superseded(s))[g] = "ready"
    BY DEF Cancelled, TypeOK
  <2>5. /\ readiness' \in [Frames -> {"none", "reserved", "submitted", "ready", "failed"}]
        /\ readiness'[s] = "submitted"
        /\ \A g \in Frames : g # s /\ readiness[g] = "ready" => readiness'[g] = "ready"
    BY <1>3, <2>1, <2>4
  <2>6. Returned(Superseded(s)) \in [Frames -> {"none", "leased", "returned", "queued",
                                "completed", "failed", "discarded", "retained", "retired"}]
        /\ \A g \in Frames : /\ Returned(Superseded(s))[g] \notin {"queued", "completed"}
                             /\ g \notin Superseded(s) => Returned(Superseded(s))[g] = upload[g]
    BY <1>2 DEF Returned, TypeOK
  <2>7. /\ upload' \in [Frames -> {"none", "leased", "returned", "queued", "completed",
                                  "failed", "discarded", "retained", "retired"}]
        /\ \A g \in Frames : g # s => /\ upload'[g] \notin {"queued", "completed"}
                                      /\ g \notin Superseded(s) => upload'[g] = upload[g]
    BY <1>3, <2>1, <2>6
  <2>8. QueueIsBounded' /\ queued' \in Nat
    <3>1. Queued' = Queued \ Superseded(s)
      BY <2>2, <2>3 DEF Queued
    <3>2. Superseded(s) \cap Queued = Superseded(s)
      BY <2>2
    <3> QED BY <1>3, <3>1, <3>2, Leaving
  <2>9. due' \subseteq At("frames")'
    BY <1>3, <2>3 DEF TypeOK, At
  <2>10. TypeOK'
    BY <1>1, <1>3, <2>1, <2>3, <2>5, <2>7, <2>8, <2>9 DEF TypeOK
  <2>11. PushInv' /\ PhaseInv'
    BY <1>1, <2>3 DEF PushInv, PhaseInv, At
  <2>12. SeenInv'
    <3>1. Unseen' = Unseen
      BY <1>1 DEF Unseen
    <3>2. \A g \in Frames : g >= Unseen => g # s /\ g \notin Superseded(s)
      BY <2>1, <2>2 DEF SeenInv
    <3> QED BY <1>1, <3>1, <3>2, <2>3, <2>7 DEF SeenInv
  <2>13. OrderInv'
    BY <1>1, <2>3 DEF OrderInv, Queued
  <2>14. TicketInv'
    <3>1. At("frames")' \subseteq At("frames") /\ \A g \in At("frames")' : g \notin Superseded(s)
      BY <2>3 DEF At
    <3>2. ticket'.frame = s /\ place'[s] = "frames"
      BY <1>3, <2>1, <2>2, <2>3
    <3> QED BY <3>1, <3>2, <2>1, <2>2, <2>5 DEF TicketInv
  <2>15. UploadInv'
    BY <1>3, <2>1, <2>2, <2>3, <2>5, <2>7 DEF UploadInv
  <2>16. RepeatInv'
    <3>1. At("current")' = At("current") /\ s \notin At("current")
      BY <2>1, <2>2, <2>3 DEF At
    <3>2. ticket'.selection = "new"
      BY <1>3
    <3> QED BY <1>1, <3>1, <3>2, <2>5 DEF RepeatInv, At
  <2> QED BY <2>8, <2>10, <2>11, <2>12, <2>13, <2>14, <2>15, <2>16
<1>4. ASSUME NEW s \in Newest(due), LetGo(Superseded(s) \cup {s}), ticket' = NoTicket
      PROVE  IInv'
  <2>1. /\ Superseded(s) \cup {s} \in SUBSET Frames
        /\ \A f \in Superseded(s) \cup {s} : place[f] # "none"
    BY DEF Superseded, Newest, TypeOK, At
  <2>2. /\ QueueIsBounded' /\ PushInv' /\ SeenInv' /\ OrderInv' /\ UploadInv' /\ RepeatInv'
        /\ At("batch")' \subseteq At("batch")
    BY <1>1, <1>4, <2>1, LetGoKeeps, NoTicketIsParked
  <2>3. TypeOK'
    BY <1>1, <1>4, <2>1, LettingGo DEF TypeOK
  <2>4. PhaseInv' /\ TicketInv'
    BY <1>1, <1>4, <2>2 DEF PhaseInv, TicketInv
  <2> QED BY <2>2, <2>3, <2>4
<1>5. CASE SubmitRepeat
  <2>1. UNCHANGED <<place, readiness, upload, queued, due>>
    BY <1>5 DEF SubmitRepeat
  <2>2. \/ ticket' = NoTicket
        \/ /\ At("current") # {} /\ Current \in At("current")
           /\ ticket' = [frame |-> Current, selection |-> "repeat"]
    <3>1. CASE At("current") = {}
      BY <1>5, <3>1 DEF SubmitRepeat, Current
    <3>2. CASE At("current") # {}
      <4>1. Current \in At("current")
        BY <3>2 DEF Current
      <4>2. Current # None
        BY <4>1, FramesAreNumbers, NoneAssumption DEF At
      <4> QED BY <1>5, <3>2, <4>1, <4>2 DEF SubmitRepeat
    <3> QED BY <3>1, <3>2
  <2>3. ticket'.selection # "new" /\ (ticket'.selection = "repeat" => ticket'.frame = retained)
        /\ ticket' \in [frame : Frames \cup {None}, selection : {"new", "repeat", "missing"}]
    BY <2>2 DEF NoTicket, RepeatInv, At
  <2>4. TypeOK' /\ QueueIsBounded' /\ PushInv'
    BY <1>1, <2>1, <2>3 DEF TypeOK, QueueIsBounded, PushInv, At, Queued
  <2>5. SeenInv' /\ OrderInv' /\ PhaseInv'
    BY <1>1, <2>1 DEF SeenInv, Unseen, OrderInv, PhaseInv, At, Queued
  <2>6. TicketInv' /\ UploadInv' /\ RepeatInv'
    BY <1>1, <1>2, <2>1, <2>3 DEF TicketInv, UploadInv, RepeatInv, At
  <2> QED BY <2>4, <2>5, <2>6
<1> QED BY <1>3, <1>4, <1>5 DEF SubmitFrame, SubmitNew

\* Steps of the frame that leave the queue and the ticket alone.
LEMMA InactiveKeeps ==
    ASSUME IInv, pc \in {"submit", "execute"}, pc' = "complete",
           UNCHANGED <<place, readiness, upload, queued, next, loaded, due, clock, ticket,
                       retained, shown>>
    PROVE  IInv'
<1> USE DEF IInv
<1>1. TypeOK' /\ QueueIsBounded' /\ PushInv' /\ SeenInv' /\ OrderInv'
  BY DEF TypeOK, QueueIsBounded, PushInv, SeenInv, Unseen, OrderInv, At, Queued
<1>2. PhaseInv' /\ TicketInv'
  BY DEF PhaseInv, TicketInv, At
<1>3. UploadInv' /\ RepeatInv'
  BY DEF UploadInv, RepeatInv, At
<1> QED BY <1>1, <1>2, <1>3

\* What commit and fail find: the parked frame is queued and the oldest in frames_.
LEMMA ParkedIsQueued ==
    ASSUME IInv, pc = "execute", ticket.selection = "new"
    PROVE  /\ ticket.frame \in Frames /\ place[ticket.frame] = "frames"
           /\ readiness[ticket.frame] = "submitted" /\ ticket.frame \in Queued
           /\ shown < ticket.frame
           /\ \A g \in At("frames") : ticket.frame <= g
BY DEF IInv, TicketInv, OrderInv, Queued

LEMMA CommitKeeps == ASSUME IInv, Commit PROVE IInv'
<1> USE DEF IInv
<1> DEFINE t == ticket.frame
<1>1. /\ t \in Frames /\ place[t] = "frames" /\ readiness[t] = "submitted" /\ t \in Queued
      /\ shown < t /\ \A g \in At("frames") : t <= g
  BY ParkedIsQueued DEF Commit
<1>2. /\ retained' = t /\ shown' = t /\ queued' = queued - 1 /\ due' = due \ {t}
      /\ pc = "execute" /\ pc' = "complete" /\ ticket.selection = "new"
      /\ UNCHANGED <<next, loaded, clock, ticket>>
      /\ readiness' = [readiness EXCEPT ![t] = "ready"]
      /\ place' = [Move(At("current"), "gone") EXCEPT ![t] = "current"]
  BY DEF Commit
<1>3. /\ upload' \in [Frames -> {"none", "leased", "returned", "queued", "completed",
                                "failed", "discarded", "retained", "retired"}]
      /\ \A g \in Frames : /\ upload'[g] \in {"queued", "completed"} => g # t /\ upload'[g] = upload[g]
                           /\ g # t /\ upload[g] \in {"none", "leased"} => upload'[g] = upload[g]
  <2>1. upload' = [f \in Frames |->
                    IF f = t THEN "retained"
                    ELSE IF upload[f] \in {"completed", "retained"} THEN "retired" ELSE upload[f]]
    BY DEF Commit
  <2> QED BY <2>1 DEF TypeOK
<1> HIDE DEF t
<1>4. /\ place' \in [Frames -> Places]
      /\ \A g \in Frames : place'[g] = IF g = t THEN "current"
                                       ELSE IF place[g] = "current" THEN "gone" ELSE place[g]
  <2>1. Move(At("current"), "gone") \in [Frames -> Places]
        /\ \A g \in Frames : Move(At("current"), "gone")[g] = IF place[g] = "current" THEN "gone" ELSE place[g]
    BY DEF Move, At, TypeOK, Places
  <2> QED BY <2>1, <1>1, <1>2 DEF Places
<1>5. /\ readiness' \in [Frames -> {"none", "reserved", "submitted", "ready", "failed"}]
      /\ readiness'[t] = "ready" /\ \A g \in Frames : g # t => readiness'[g] = readiness[g]
  BY <1>1, <1>2 DEF TypeOK
<1>6. QueueIsBounded' /\ queued' \in Nat
  <2>1. Queued' = Queued \ {t} /\ {t} \cap Queued = {t}
    BY <1>1, <1>4 DEF Queued
  <2>2. queued' = queued - Cardinality({t} \cap Queued)
    BY <2>1, <1>2, FS_Singleton
  <2> QED BY <2>1, <2>2, Leaving
<1>7. due' \subseteq At("frames")'
  BY <1>2, <1>4 DEF TypeOK, At
<1>8. TypeOK'
  <2>1. shown' \in 0 .. MaxFrames /\ retained' \in Frames \cup {None}
    BY <1>1, <1>2, CapacityAssumption DEF Frames
  <2> QED BY <2>1, <1>2, <1>3, <1>4, <1>5, <1>6, <1>7 DEF TypeOK
<1>9. PushInv' /\ PhaseInv'
  BY <1>2, <1>1, <1>4 DEF PushInv, PhaseInv, At
<1>10. SeenInv'
  <2>1. Unseen' = Unseen /\ Unseen \in Nat
    BY <1>2, CapacityAssumption DEF Unseen, TypeOK, PushInv
  <2>2. t < Unseen
    BY <1>1, <2>1, FramesAreNumbers DEF SeenInv
  <2>3. \A g \in Frames : g >= Unseen => g # t
    BY <2>1, <2>2, <1>1, FramesAreNumbers
  <2> QED BY <2>1, <2>2, <2>3, <1>2, <1>3, <1>4 DEF SeenInv
<1>11. OrderInv'
  <2>1. \A g \in Frames : place[g] \in {"frames", "batch", "pending"} /\ g # t => t < g
    BY <1>1, FramesAreNumbers DEF OrderInv, At
  <2> QED BY <2>1, <1>2, <1>4 DEF OrderInv, Queued
<1>12. TicketInv'
  BY <1>1, <1>2, <1>5 DEF TicketInv, t
<1>13. UploadInv'
  <2>1. \A g \in Frames : upload'[g] \notin {"queued", "completed"}
    <3>1. SUFFICES ASSUME NEW g \in Frames, upload'[g] \in {"queued", "completed"} PROVE FALSE
      OBVIOUS
    <3>2. g # t /\ ticket = [frame |-> g, selection |-> "new"]
      BY <3>1, <1>3 DEF UploadInv
    <3> QED BY <3>2 DEF t
  <2> QED BY <2>1 DEF UploadInv
<1>14. RepeatInv'
  <2>1. At("current")' = {t}
    BY <1>1, <1>4 DEF At
  <2> QED BY <2>1, <1>2, <1>5 DEF RepeatInv
<1> QED BY <1>6, <1>8, <1>9, <1>10, <1>11, <1>12, <1>13, <1>14

LEMMA FailKeeps == ASSUME IInv, Fail PROVE IInv'
<1> USE DEF IInv
<1> DEFINE t == ticket.frame
<1>1. t \in Frames /\ place[t] = "frames" /\ upload[t] = "failed"
      /\ pc = "execute" /\ pc' = "complete" /\ LetGo({t})
      /\ UNCHANGED <<next, loaded, clock, ticket, retained, shown>>
  BY ParkedIsQueued DEF Fail
<1>2. ticket # [frame |-> t, selection |-> "new"] \/ ticket = [frame |-> t, selection |-> "new"]
  OBVIOUS
<1>3. /\ QueueIsBounded' /\ queued' \in Nat /\ due' \subseteq At("frames")'
      /\ place' \in [Frames -> Places]
      /\ readiness' \in [Frames -> {"none", "reserved", "submitted", "ready", "failed"}]
      /\ upload' \in [Frames -> {"none", "leased", "returned", "queued", "completed",
                                "failed", "discarded", "retained", "retired"}]
      /\ \A f \in Frames :
           /\ place'[f] = IF f \in {t} THEN "gone" ELSE place[f]
           /\ upload'[f] = upload[f] \/ (upload[f] = "leased" /\ upload'[f] = "returned")
           /\ readiness[f] = "ready" => readiness'[f] = "ready"
           /\ f \notin {t} => readiness'[f] = readiness[f] /\ upload'[f] = upload[f]
           /\ f \in {t} => readiness'[f] # "submitted"
  <2>1. {t} \in SUBSET Frames
    BY <1>1
  <2> HIDE DEF t
  <2> QED BY <2>1, <1>1, LettingGo
<1>4. TypeOK'
  BY <1>1, <1>3 DEF TypeOK
<1>5. PushInv' /\ PhaseInv'
  BY <1>1, <1>3 DEF PushInv, PhaseInv, At
<1>6. SeenInv'
  BY <1>1, <1>3 DEF SeenInv, Unseen
<1>7. OrderInv'
  BY <1>1, <1>3 DEF OrderInv, Queued
<1>8. TicketInv'
  BY <1>1, <1>3 DEF TicketInv
<1>9. UploadInv'
  BY <1>1, <1>3 DEF UploadInv
<1>10. RepeatInv'
  BY <1>1, <1>3 DEF RepeatInv, At
<1> QED BY <1>3, <1>4, <1>5, <1>6, <1>7, <1>8, <1>9, <1>10

LEMMA CompleteKeeps == ASSUME IInv, Complete PROVE IInv'
<1> USE DEF IInv
<1>1. /\ place' = Move(Unresolved, "gone") /\ readiness' = Cancelled(Unresolved)
      /\ queued' = queued - Cardinality(Unresolved) /\ due' = due \ Unresolved
      /\ ticket' = NoTicket /\ pc = "complete" /\ pc' = "prepare"
      /\ UNCHANGED <<next, loaded, clock, retained, shown>>
  BY DEF Complete
<1>2. /\ Unresolved \subseteq Frames /\ Unresolved \subseteq Queued
      /\ \A f \in Unresolved : place[f] = "frames"
      /\ \A f \in Frames : upload[f] \in {"queued", "completed"} => f \in Unresolved
  <2>1. \A f \in Unresolved : f \in Frames /\ place[f] = "frames"
    BY DEF Unresolved, TicketInv
  <2>2. ASSUME NEW f \in Frames, upload[f] \in {"queued", "completed"}
        PROVE  f \in Unresolved
    <3>1. ticket = [frame |-> f, selection |-> "new"] /\ readiness[f] = "submitted"
      BY <2>2 DEF UploadInv
    <3>2. f # None /\ ticket.frame = f /\ ticket.selection = "new"
      BY <3>1, FramesAreNumbers, NoneAssumption
    <3> QED BY <3>1, <3>2 DEF Unresolved
  <2> QED BY <2>1, <2>2 DEF Queued
<1> HIDE DEF Unresolved
<1>3. /\ place' \in [Frames -> Places]
      /\ \A f \in Frames : place'[f] = IF f \in Unresolved THEN "gone" ELSE place[f]
  BY <1>1 DEF Move, TypeOK, Places
<1>4. /\ readiness' \in [Frames -> {"none", "reserved", "submitted", "ready", "failed"}]
      /\ \A f \in Frames : readiness[f] = "ready" => readiness'[f] = "ready"
  BY <1>1 DEF Cancelled, TypeOK
<1>5. /\ upload' \in [Frames -> {"none", "leased", "returned", "queued", "completed",
                                "failed", "discarded", "retained", "retired"}]
      /\ \A f \in Frames : /\ upload'[f] \notin {"queued", "completed"}
                           /\ f \notin Unresolved => upload'[f] = upload[f]
  <2>1. upload' = [f \in Frames |-> IF f \in Unresolved /\ upload[f] \in {"queued", "completed"}
                                    THEN "discarded" ELSE upload[f]]
    BY DEF Complete
  <2> QED BY <2>1, <1>2 DEF TypeOK
<1>6. QueueIsBounded' /\ queued' \in Nat
  <2>1. Queued' = Queued \ Unresolved /\ Unresolved \cap Queued = Unresolved
    BY <1>2, <1>3 DEF Queued
  <2> QED BY <2>1, <1>1, Leaving
<1>7. TypeOK'
  <2>1. due' \subseteq At("frames")'
    BY <1>1, <1>3 DEF TypeOK, At
  <2>2. ticket' \in [frame : Frames \cup {None}, selection : {"new", "repeat", "missing"}]
    BY <1>1 DEF NoTicket
  <2> QED BY <2>1, <2>2, <1>1, <1>3, <1>4, <1>5, <1>6 DEF TypeOK
<1>8. PushInv' /\ PhaseInv'
  BY <1>1, <1>2, <1>3 DEF PushInv, PhaseInv, At
<1>9. SeenInv'
  <2>1. \A f \in Frames : f >= Unseen => f \notin Unresolved
    BY <1>2 DEF SeenInv
  <2> QED BY <2>1, <1>1, <1>3, <1>5 DEF SeenInv, Unseen
<1>10. OrderInv'
  BY <1>1, <1>3 DEF OrderInv, Queued
<1>11. TicketInv' /\ UploadInv'
  BY <1>1, <1>5 DEF TicketInv, UploadInv, NoTicket
<1>12. RepeatInv'
  BY <1>1, <1>2, <1>3, <1>4 DEF RepeatInv, At, NoTicket
<1> QED BY <1>6, <1>7, <1>8, <1>9, <1>10, <1>11, <1>12

-----------------------------------------------------------------------------
(* The theorems. *)

LEMMA InitHolds == Init => IInv
<1> SUFFICES ASSUME Init PROVE IInv
  OBVIOUS
<1>1. ticket = NoTicket /\ ticket.selection = "missing" /\ ticket.frame = None
  BY DEF Init, NoTicket
<1>2. At("current") = {} /\ At("batch") = {} /\ Queued = {} /\ Unseen = 1
  BY DEF Init, At, Queued, Unseen
<1>3. TypeOK
  <2>1. 1 \in 1 .. MaxFrames + 1 /\ 0 \in 0 .. MaxFrames
    BY CapacityAssumption
  <2>2. ticket \in [frame : Frames \cup {None}, selection : {"new", "repeat", "missing"}]
    BY <1>1 DEF NoTicket
  <2>3. /\ place \in [Frames -> Places]
        /\ readiness \in [Frames -> {"none", "reserved", "submitted", "ready", "failed"}]
        /\ upload \in [Frames -> {"none", "leased", "returned", "queued", "completed",
                                 "failed", "discarded", "retained", "retired"}]
    BY DEF Init, Places
  <2> QED BY <2>1, <2>2, <2>3 DEF Init, TypeOK
<1>4. QueueIsBounded
  BY <1>2, FS_EmptySet, CapacityAssumption DEF Init, QueueIsBounded
<1>5. PushInv /\ SeenInv /\ OrderInv
  BY <1>2 DEF Init, PushInv, SeenInv, OrderInv
<1>6. PhaseInv /\ TicketInv /\ UploadInv /\ RepeatInv
  BY <1>1, <1>2 DEF Init, PhaseInv, TicketInv, UploadInv, RepeatInv
<1> QED BY <1>3, <1>4, <1>5, <1>6 DEF IInv

LEMMA NextKeeps == IInv /\ [Next]_vars => IInv'
<1> SUFFICES ASSUME IInv, [Next]_vars PROVE IInv'
  OBVIOUS
<1>1. CASE UNCHANGED vars
  <2>1. TypeOK' /\ QueueIsBounded' /\ PushInv' /\ SeenInv' /\ OrderInv'
    BY <1>1 DEF vars, IInv, TypeOK, QueueIsBounded, PushInv, SeenInv, Unseen, OrderInv, At, Queued
  <2>2. PhaseInv' /\ TicketInv' /\ UploadInv' /\ RepeatInv'
    BY <1>1 DEF vars, IInv, PhaseInv, TicketInv, UploadInv, RepeatInv, At
  <2> QED BY <2>1, <2>2 DEF IInv
<1>2. CASE BeginPush \/ PushOver \/ PushInto \/ Transfer
  BY <1>2, BeginPushKeeps, PushOverKeeps, PushIntoKeeps, TransferKeeps
<1>3. CASE SwapPending \/ ProgramDiscontinuity \/ AdvanceFrame \/ EndAdvance
  BY <1>3, SwapPendingKeeps, ProgramDiscontinuityKeeps, AdvanceFrameKeeps, EndAdvanceKeeps
<1>4. CASE SubmitFrame \/ Inactive \/ Repeat
  <2>1. CASE Inactive \/ Repeat
    BY <2>1, InactiveKeeps DEF Inactive, Repeat
  <2> QED BY <1>4, <2>1, SubmitFrameKeeps
<1>5. CASE Commit \/ Fail \/ Complete
  BY <1>5, CommitKeeps, FailKeeps, CompleteKeeps
<1>6. CASE StopCapture \/ Destroy
  BY <1>6, StopCaptureKeeps, DestroyKeeps
<1> QED BY <1>1, <1>2, <1>3, <1>4, <1>5, <1>6 DEF Next, Render, Terminated

\* The invariant holds in every state of the queue, for every capacity.
THEOREM Invariance == Spec => []IInv
BY InitHolds, NextKeeps, PTL DEF Spec

\* The queue's state keeps its type through both threads' steps.
THEOREM TypeCorrect == Spec => []TypeOK
BY Invariance, PTL DEF IInv

\* queued_frames_ counts the queued frames and push never exceeds the capacity.
THEOREM QueueStaysBounded == Spec => []QueueIsBounded
BY Invariance, PTL DEF IInv

\* Every submitted upload is the parked frame's.
THEOREM UploadsStaySettled == Spec => []UploadsAreSettled
<1>1. IInv => UploadsAreSettled
  BY DEF IInv, UploadInv, UploadsAreSettled
<1> QED BY <1>1, Invariance, PTL

\* A repeat shows a ready frame the stream still retains.
THEOREM RepeatsStayRetained == Spec => []RepeatsAreRetained
<1>1. ASSUME IInv PROVE RepeatsAreRetained
  <2>1. Current # None => Current \in At("current")
    BY DEF Current
  <2> QED BY <1>1, <2>1 DEF IInv, RepeatInv, RepeatsAreRetained
<1> QED BY <1>1, Invariance, PTL

\* No commit shows a frame captured before the one shown last.
THEOREM FramesPlayInOrder == Spec => PlayedInOrder
<1>1. IInv /\ [Next]_vars => [shown' # shown => shown' > shown]_shown
  <2> SUFFICES ASSUME IInv, [Next]_vars, shown' # shown PROVE shown' > shown
    OBVIOUS
  <2>1. Commit
    BY DEF Next, Render, Terminated, vars, BeginPush, PushOver, PushInto, Transfer, SwapPending,
           ProgramDiscontinuity, AdvanceFrame, EndAdvance, SubmitFrame, Inactive, Fail, Repeat,
           Complete, StopCapture, Destroy
  <2> QED BY <2>1, ParkedIsQueued, FramesAreNumbers DEF Commit, IInv, TypeOK
<1> QED BY <1>1, Invariance, PTL DEF Spec, PlayedInOrder

-----------------------------------------------------------------------------
(* Numbers. *)

\* A set of numbers has a least one.
LEMMA Least ==
    ASSUME NEW S, S \subseteq Nat, S # {}
    PROVE  \E n \in S : \A m \in S : n <= m
<1>1. PICK n \in S : \A m \in S : ~(<<m, n>> \in OpToRel(<, Nat))
  BY WFMin, NatLessThanWellFounded, Zenon
<1>2. ASSUME NEW m \in S PROVE n <= m
  <2>1. n \in Nat /\ m \in Nat
    OBVIOUS
  <2>2. ~(m < n)
    BY <1>1, <2>1, Zenon DEF OpToRel
  <2> QED BY <2>1, <2>2
<1> QED BY <1>2

\* What holds at 0 and goes on from n to n + 1 holds of every number.
LEMMA Induction ==
    ASSUME NEW S, 0 \in S, \A n \in Nat : n \in S => n + 1 \in S
    PROVE  Nat \subseteq S
<1> SUFFICES ASSUME Nat \ S # {} PROVE FALSE
  OBVIOUS
<1>1. PICK n \in Nat \ S : \A m \in Nat \ S : n <= m
  BY Least
<1>2. n - 1 \in Nat /\ n - 1 \in S
  BY <1>1
<1> QED BY <1>1, <1>2

\* What Min and Max of a pair are.
LEMMA Extremes ==
    \A a, b \in Int :
        /\ Pacing!Min({a, b}) = IF a <= b THEN a ELSE b
        /\ Screen!Min({a, b}) = IF a <= b THEN a ELSE b
        /\ Screen!Max({a, b}) = IF a >= b THEN a ELSE b
<1> SUFFICES ASSUME NEW a \in Int, NEW b \in Int
             PROVE  /\ Pacing!Min({a, b}) = IF a <= b THEN a ELSE b
                    /\ Screen!Min({a, b}) = IF a <= b THEN a ELSE b
                    /\ Screen!Max({a, b}) = IF a >= b THEN a ELSE b
  OBVIOUS
<1> DEFINE least == CHOOSE x \in {a, b} : \A y \in {a, b} : x =< y
           most  == CHOOSE x \in {a, b} : \A y \in {a, b} : x >= y
<1>1. \E x \in {a, b} : \A y \in {a, b} : x =< y
  OBVIOUS
<1>2. \E x \in {a, b} : \A y \in {a, b} : x >= y
  OBVIOUS
<1>3. least \in {a, b} /\ least =< a /\ least =< b
  BY <1>1, Zenon
<1>4. most \in {a, b} /\ most >= a /\ most >= b
  BY <1>2, Zenon
<1>5. Pacing!Min({a, b}) = least /\ Screen!Min({a, b}) = least /\ Screen!Max({a, b}) = most
  BY DEF Pacing!Min, Screen!Min, Screen!Max
<1> HIDE DEF least, most
<1> QED BY <1>3, <1>4, <1>5

\* What comes first in an order is counted by its length.
LEMMA Initial ==
    ASSUME NEW n \in Nat, NEW S, S \subseteq 1..n,
           \A i \in S : \A j \in 1..n : j < i => j \in S
    PROVE  /\ Cardinality(S) \in 0..n
           /\ S = 1..Cardinality(S)
<1>1. PICK k \in 0..n : S = 1..k
  <2> DEFINE Others == {j \in Nat : j # 0 /\ j \notin S}
  <2>1. PICK m \in Others : \A j \in Others : m <= j
    <3>1. n + 1 \in Others /\ Others \subseteq Nat
      OBVIOUS
    <3> HIDE DEF Others
    <3> QED BY <3>1, Least
  <2>2. S = 1..m - 1
    <3>1. ASSUME NEW i \in S PROVE i < m
      <4>1. i \in 1..n /\ m \in Nat /\ m # 0 /\ m \notin S
        BY <2>1
      <4> QED BY <4>1
    <3>2. ASSUME NEW i \in 1..m - 1 PROVE i \in S
      BY <2>1, <3>2
    <3>3. m \in Nat /\ S \subseteq 1..n
      BY <2>1
    <3> HIDE DEF Others
    <3>4. \A i \in S : i \in 1..m - 1
      BY <3>1, <3>3
    <3> QED BY <3>2, <3>4
  <2>3. m - 1 \in 0..n
    BY <2>1
  <2> QED BY <2>2, <2>3
<1>2. Cardinality(1..k) = k
  BY FS_Interval, <1>1
<1> QED BY <1>1, <1>2

-----------------------------------------------------------------------------
(* The queue of an output. *)

\* The instances of FiniteSets count alike.
LEMMA SameCount ==
    \A S : Pacing!Cardinality(S) = Cardinality(S) /\ Screen!Cardinality(S) = Cardinality(S)
BY Zenon DEF Cardinality, Pacing!Cardinality, Screen!Cardinality

\* Both outputs have the same queue.
LEMMA SameQueue ==
    /\ \A q, f, c : Screen!Push(q, f, c) = Pacing!Push(q, f, c)
    /\ \A q, fs, c : Screen!PushAll(q, fs, c) = Pacing!PushAll(q, fs, c)
    /\ \A q, t, d : Screen!Due(q, t, d) = Pacing!Due(q, t, d)
    /\ \A q, t, d : Screen!Select(q, t, d) = Pacing!Select(q, t, d)
    /\ \A o, t : Screen!ProgramTarget(o, t) = Pacing!ProgramTarget(o, t)
    /\ \A o, t : Screen!Observe(o, t) = Pacing!Observe(o, t)
    /\ Screen!EmptyQueue = Pacing!EmptyQueue
<1>1. \A q, f, c : Screen!Push(q, f, c) = Pacing!Push(q, f, c)
  <2>1. \A s, i, e : Screen!InsertAt(s, i, e) = Pacing!InsertAt(s, i, e)
    BY Zenon DEF Screen!InsertAt, Pacing!InsertAt
  <2>2. \A S : Screen!Min(S) = Pacing!Min(S)
    BY Zenon DEF Screen!Min, Pacing!Min
  <2>3. \A S : Screen!Cardinality(S) = Pacing!Cardinality(S)
    BY SameCount, Zenon
  <2> TAKE q, f, c
  <2> DEFINE before == {i \in DOMAIN q.frames : q.frames[i].target <= f.target}
             frames == Pacing!InsertAt(q.frames, Cardinality(before) + 1, f)
             least  == Pacing!Min({c, Len(frames)})
             pushed == [q EXCEPT !.frames = SubSeq(frames, Len(frames) - least + 1, Len(frames))]
  <2>4. /\ Pacing!Cardinality(before) = Cardinality(before)
        /\ Screen!Cardinality(before) = Cardinality(before)
    BY SameCount, Zenon
  <2>5. Pacing!Push(q, f, c) = IF q.current # None /\ f.target <= q.current.target THEN q ELSE pushed
    BY <2>4, Zenon DEF Pacing!Push
  <2>6. /\ Screen!InsertAt(q.frames, Cardinality(before) + 1, f) = frames
        /\ Screen!Min({c, Len(frames)}) = least
    BY <2>1, <2>2, Zenon
  <2>7. Screen!Push(q, f, c) = IF q.current # None /\ f.target <= q.current.target THEN q ELSE pushed
    BY <2>4, <2>6, Zenon DEF Screen!Push
  <2> QED BY <2>5, <2>7, Zenon
<1>2. \A q, fs, c : Screen!PushAll(q, fs, c) = Pacing!PushAll(q, fs, c)
  BY ZenonT(60) DEF Screen!Cardinality, Pacing!Cardinality, Cardinality, Screen!PushAll, Pacing!PushAll,
     Screen!Push, Pacing!Push, Screen!InsertAt,
         Pacing!InsertAt, Screen!Min, Pacing!Min
<1>3. \A q, t, d : Screen!Due(q, t, d) = Pacing!Due(q, t, d)
  BY SameCount, Zenon DEF Screen!Due, Pacing!Due
<1>4. \A q, t, d : Screen!Select(q, t, d) = Pacing!Select(q, t, d)
  BY <1>3, Zenon DEF Screen!Select, Pacing!Select
<1>5. \A o, t : Screen!ProgramTarget(o, t) = Pacing!ProgramTarget(o, t)
  BY Zenon DEF Screen!ProgramTarget, Pacing!ProgramTarget, Screen!Latency, Pacing!Latency,
         Screen!Quotient, Pacing!Quotient
<1>6. \A o, t : Screen!Observe(o, t) = Pacing!Observe(o, t)
  BY Zenon DEF Screen!Observe, Pacing!Observe, Screen!Min, Pacing!Min
<1>7. Screen!EmptyQueue = Pacing!EmptyQueue
  BY DEF Screen!EmptyQueue, Pacing!EmptyQueue
<1> QED BY <1>1, <1>2, <1>3, <1>4, <1>5, <1>6, <1>7

-----------------------------------------------------------------------------
(* What its operations keep, for frames of any kind that have a target. *)

Timed(F) == None \notin F /\ \A f \in F : f.target \in Int

Sorted(frames) == \A i, j \in DOMAIN frames : i < j => frames[i].target <= frames[j].target

After(frames, current) == current # None => \A i \in DOMAIN frames : current.target < frames[i].target

\* A queue of at most c frames of F, in order, later than the one shown.
Queue(q, F, c) ==
    /\ q = [frames |-> q.frames, current |-> q.current]
    /\ q.frames \in Seq(F) /\ Len(q.frames) <= c
    /\ q.current \in F \cup {None}
    /\ Sorted(q.frames) /\ After(q.frames, q.current)

\* The frames of s come from t or are f.
Adds(s, t, f) ==
    /\ Len(s) <= Len(t) + 1
    /\ \A i \in DOMAIN s : s[i] = f \/ \E j \in DOMAIN t : s[i] = t[j]

\* What SubSeq takes.
LEMMA Part ==
    ASSUME NEW F, NEW s \in Seq(F), NEW m \in 1..Len(s) + 1, NEW n \in 0..Len(s), m <= n + 1,
           NEW t, t = SubSeq(s, m, n)
    PROVE  /\ t \in Seq(F) /\ Len(t) = n - m + 1
           /\ \A i \in 1..Len(t) : m + i - 1 \in 1..Len(s) /\ t[i] = s[m + i - 1]
<1>1. Len(s) \in Nat /\ m \in Int /\ n \in Int /\ \A i \in m..n : s[i] \in F
  OBVIOUS
<1>2. /\ t \in Seq(F) /\ Len(t) = n - m + 1
      /\ \A i \in 1..n - m + 1 : t[i] = s[m + i - 1]
  BY <1>1, SubSeqProperties, Z3
<1> QED BY <1>1, <1>2

\* t is s with f behind its first k members.
Extends(t, s, k, f) ==
    /\ Len(t) = Len(s) + 1
    /\ \A i \in 1..k : t[i] = s[i]
    /\ t[k + 1] = f
    /\ \A i \in k + 2..Len(t) : t[i] = s[i - 1]

\* What InsertAt gives.
LEMMA Inserting ==
    ASSUME NEW F, NEW s \in Seq(F), NEW f \in F, NEW k \in 0..Len(s), NEW j, j = k + 1,
           NEW t, t = Pacing!InsertAt(s, j, f)
    PROVE  t \in Seq(F) /\ Extends(t, s, k, f)
<1>0. j \in 1..Len(s) + 1
  OBVIOUS
<1>1. PICK a, b : a = SubSeq(s, 1, j - 1) /\ b = SubSeq(s, j, Len(s))
  OBVIOUS
<1>2. t = (a \o <<f>>) \o b
  BY <1>1, Zenon DEF Pacing!InsertAt
<1>3. /\ a \in Seq(F) /\ Len(a) = j - 1
      /\ \A i \in 1..j - 1 : a[i] = s[i]
  <2>1. 1 \in 1..Len(s) + 1 /\ j - 1 \in 0..Len(s) /\ 1 <= j - 1 + 1
    BY <1>0
  <2>2. /\ a \in Seq(F) /\ Len(a) = j - 1 - 1 + 1
        /\ \A i \in 1..Len(a) : a[i] = s[1 + i - 1]
    BY <1>1, <2>1, Part
  <2> QED BY <1>0, <2>2
<1>4. /\ b \in Seq(F) /\ Len(b) = Len(s) - j + 1
      /\ \A i \in 1..Len(b) : b[i] = s[j + i - 1]
  <2>1. j \in 1..Len(s) + 1 /\ Len(s) \in 0..Len(s) /\ j <= Len(s) + 1
    BY <1>0
  <2> QED BY <1>1, <2>1, Part
<1>5. PICK u : u = a \o <<f>>
  OBVIOUS
<1>6. u \in Seq(F) /\ Len(u) = j
  BY <1>0, <1>3, <1>5
<1>7. (\A i \in 1..j - 1 : u[i] = a[i]) /\ u[j] = f
  BY <1>0, <1>3, <1>5
<1>8. t = u \o b
  BY <1>2, <1>5, Zenon
<1>9. /\ t \in Seq(F) /\ Len(t) = Len(u) + Len(b)
      /\ \A i \in 1..Len(u) + Len(b) : t[i] = IF i <= Len(u) THEN u[i] ELSE b[i - Len(u)]
  <2>1. /\ u \o b \in Seq(F) /\ Len(u \o b) = Len(u) + Len(b)
        /\ \A i \in 1..Len(u) + Len(b) : (u \o b)[i] = IF i <= Len(u) THEN u[i] ELSE b[i - Len(u)]
    BY <1>4, <1>6, ConcatProperties
  <2> QED BY <1>8, <2>1
<1>10. Len(t) = Len(s) + 1
  BY <1>0, <1>4, <1>6, <1>9
<1>11. (\A i \in 1..j - 1 : t[i] = s[i]) /\ t[j] = f
  <2>1. j \in Nat /\ j >= 1 /\ Len(b) \in Nat /\ Len(u) = j
    BY <1>0, <1>4, <1>6
  <2>2. \A i \in 1..j : t[i] = u[i]
    BY <1>9, <2>1
  <2>3. \A i \in 1..j - 1 : i \in 1..j /\ u[i] = s[i]
    BY <1>3, <1>7, <2>1
  <2> QED BY <1>7, <2>1, <2>2, <2>3
<1>12. ASSUME NEW i \in j + 1..Len(t) PROVE t[i] = s[i - 1]
  <2>1. t[i] = b[i - j] /\ i - j \in 1..Len(b) /\ j + (i - j) - 1 = i - 1
    <3>1. j \in Nat /\ Len(b) \in Nat /\ Len(u) = j /\ i \in 1..Len(u) + Len(b) /\ ~(i <= Len(u))
      BY <1>0, <1>4, <1>6, <1>9
    <3>2. t[i] = b[i - j]
      BY <1>9, <3>1
    <3> QED BY <3>1, <3>2, SMTT(30)
  <2> QED BY <2>1, <1>4
<1>13. j - 1 = k /\ j = k + 1 /\ j + 1 = k + 2
  OBVIOUS
<1> QED BY <1>9, <1>10, <1>11, <1>12, <1>13 DEF Extends

\* Put in behind those of its time, a frame keeps the order.
LEMMA InOrder ==
    ASSUME NEW F, Timed(F), NEW s \in Seq(F), Sorted(s), NEW f \in F, NEW k \in 0..Len(s),
           \A i \in 1..Len(s) : i <= k <=> s[i].target <= f.target,
           NEW t \in Seq(F), Extends(t, s, k, f)
    PROVE  Sorted(t)
<1>1. /\ Len(s) \in Nat /\ k \in Nat /\ k <= Len(s) /\ Len(t) = Len(s) + 1
      /\ \A i \in 1..k : t[i] = s[i]
      /\ t[k + 1] = f
      /\ \A i \in k + 2..Len(t) : t[i] = s[i - 1]
  <2>1. k \in Nat /\ Len(s) \in Nat /\ k <= Len(s)
    OBVIOUS
  <2> QED BY <2>1, Zenon DEF Extends
<1>2. /\ \A i \in 1..Len(s) : s[i] \in F /\ s[i].target \in Int
      /\ f.target \in Int
  BY DEF Timed
<1>3. \A i, j \in 1..Len(s) : i < j => s[i].target <= s[j].target
  BY DEF Sorted
<1> SUFFICES ASSUME NEW i \in 1..Len(t), NEW j \in 1..Len(t), i < j
             PROVE  t[i].target <= t[j].target
  BY DEF Sorted
<1>4. CASE j <= k
  <2>1. i \in 1..Len(s) /\ j \in 1..Len(s) /\ t[i] = s[i] /\ t[j] = s[j]
    BY <1>1, <1>4
  <2> QED BY <2>1, <1>3
<1>5. CASE j = k + 1
  <2>1. i \in 1..Len(s) /\ i <= k /\ t[i] = s[i] /\ t[j] = f
    BY <1>1, <1>5
  <2> QED BY <2>1
<1>6. CASE j > k + 1
  <2>1. j - 1 \in 1..Len(s) /\ ~(j - 1 <= k) /\ t[j] = s[j - 1]
    BY <1>1, <1>6
  <2>2. CASE i <= k
    <3>1. i \in 1..Len(s) /\ i < j - 1 /\ t[i] = s[i]
      BY <2>2, <1>1, <1>6
    <3> QED BY <2>1, <3>1, <1>3
  <2>3. CASE i = k + 1
    <3>1. t[i] = f
      BY <1>1, <2>3
    <3> QED BY <2>1, <3>1, <1>2
  <2>4. CASE i > k + 1
    <3>1. i - 1 \in 1..Len(s) /\ i - 1 < j - 1 /\ t[i] = s[i - 1]
      BY <2>4, <1>1
    <3> QED BY <2>1, <3>1, <1>3
  <2> QED BY <2>2, <2>3, <2>4, <1>1
<1> QED BY <1>4, <1>5, <1>6, <1>1

\* push finds the place by counting: the frames that are not later come first.
LEMMA Inserted ==
    ASSUME NEW F, Timed(F), NEW s \in Seq(F), Sorted(s), NEW f \in F,
           NEW S, S = {i \in DOMAIN s : s[i].target <= f.target},
           NEW k, k = Cardinality(S), NEW n, n = k + 1, NEW t, t = Pacing!InsertAt(s, n, f)
    PROVE  k \in 0..Len(s) /\ t \in Seq(F) /\ Extends(t, s, k, f) /\ Sorted(t)
<1>1. Len(s) \in Nat /\ S \subseteq 1..Len(s)
  OBVIOUS
<1>2. \A i \in DOMAIN s : s[i].target \in Int /\ f.target \in Int
  BY DEF Timed
<1>3. \A i \in S : \A j \in 1..Len(s) : j < i => j \in S
  BY <1>2 DEF Sorted
<1>4. k \in 0..Len(s) /\ S = 1..k
  BY <1>1, <1>3, Initial, Zenon
<1>5. \A i \in 1..Len(s) : i <= k <=> s[i].target <= f.target
  BY <1>1, <1>4
<1>6. t \in Seq(F) /\ Extends(t, s, k, f)
  BY <1>4, Inserting, Zenon
<1>7. Sorted(t)
  BY <1>4, <1>5, <1>6, InOrder, Zenon
<1> QED BY <1>4, <1>6, <1>7

\* A push keeps the order and the bound, and adds no frame but the one pushed.
LEMMA PushKeeps ==
    ASSUME NEW F, Timed(F), NEW c \in Nat, NEW q, Queue(q, F, c), NEW f \in F,
           NEW p, p = Pacing!Push(q, f, c)
    PROVE  Queue(p, F, c) /\ p.current = q.current /\ Adds(p.frames, q.frames, f)
<1>0. PICK S, k, n, t, least, kept :
        /\ S = {i \in DOMAIN q.frames : q.frames[i].target <= f.target}
        /\ k = Cardinality(S) /\ n = k + 1
        /\ t = Pacing!InsertAt(q.frames, n, f)
        /\ least = Pacing!Min({c, Len(t)})
        /\ kept = SubSeq(t, Len(t) - least + 1, Len(t))
  BY Zenon
<1> DEFINE away == q.current # None /\ f.target <= q.current.target
<1>1. p = IF away THEN q ELSE [q EXCEPT !.frames = kept]
  <2>1. Pacing!Cardinality(S) = k
    BY <1>0, SameCount, Zenon
  <2> QED BY <1>0, <2>1, Zenon DEF Pacing!Push
<1>2. q.frames \in Seq(F) /\ Sorted(q.frames) /\ Len(q.frames) \in Nat
  BY DEF Queue
<1>3. k \in 0..Len(q.frames) /\ t \in Seq(F) /\ Extends(t, q.frames, k, f) /\ Sorted(t)
  BY <1>0, <1>2, Inserted
<1>4. /\ k \in Nat /\ k <= Len(q.frames) /\ Len(t) = Len(q.frames) + 1
      /\ \A i \in 1..k : t[i] = q.frames[i]
      /\ t[k + 1] = f
      /\ \A i \in k + 2..Len(t) : t[i] = q.frames[i - 1]
  <2>1. k \in Nat /\ k <= Len(q.frames)
    BY <1>2, <1>3
  <2> QED BY <1>3, <2>1, Zenon DEF Extends
<1>5. least \in 0..c /\ least <= Len(t)
  <2>1. Len(t) \in Int /\ c \in Int /\ Len(t) >= 0
    BY <1>2, <1>4
  <2>2. least = IF c <= Len(t) THEN c ELSE Len(t)
    BY <1>0, <2>1, Extremes, Zenon
  <2> QED BY <2>1, <2>2
<1>6. /\ kept \in Seq(F) /\ Len(kept) = least
      /\ \A i \in 1..Len(kept) : Len(t) - least + i \in 1..Len(t) /\ kept[i] = t[Len(t) - least + i]
  <2>1. PICK m : m = Len(t) - least + 1
    OBVIOUS
  <2>2. m \in 1..Len(t) + 1 /\ Len(t) \in 0..Len(t) /\ m <= Len(t) + 1
    BY <2>1, <1>2, <1>4, <1>5
  <2>3. /\ kept \in Seq(F) /\ Len(kept) = Len(t) - m + 1
        /\ \A i \in 1..Len(kept) : m + i - 1 \in 1..Len(t) /\ kept[i] = t[m + i - 1]
    <3>1. kept = SubSeq(t, m, Len(t))
      BY <1>0, <2>1, Zenon
    <3> HIDE <1>0
    <3> QED BY <1>3, <2>2, <3>1, Part
  <2>4. Len(t) - m + 1 = least /\ \A i \in 1..Len(kept) : m + i - 1 = Len(t) - least + i
    BY <2>1, <1>2, <1>4, <1>5
  <2> QED BY <2>3, <2>4
<1>7. CASE away
  BY <1>1, <1>7 DEF Queue, Adds
<1>8. CASE ~away
  <2>1. p.frames = kept /\ p.current = q.current /\ p = [frames |-> kept, current |-> q.current]
    BY <1>1, <1>8 DEF Queue
  <2>2. Sorted(kept)
    <3> SUFFICES ASSUME NEW i \in 1..Len(kept), NEW j \in 1..Len(kept), i < j
                 PROVE  kept[i].target <= kept[j].target
      BY <1>6 DEF Sorted
    <3>1. Len(t) - least + i < Len(t) - least + j
      BY <1>2, <1>4, <1>5, <1>6
    <3>2. /\ Len(t) - least + i \in DOMAIN t /\ kept[i] = t[Len(t) - least + i]
          /\ Len(t) - least + j \in DOMAIN t /\ kept[j] = t[Len(t) - least + j]
      BY <1>3, <1>6
    <3> QED BY <3>1, <3>2, <1>3, Zenon DEF Sorted
  <2>3. Adds(kept, q.frames, f)
    <3>1. Len(kept) <= Len(q.frames) + 1
      BY <1>2, <1>4, <1>5, <1>6
    <3>2. ASSUME NEW i \in DOMAIN kept PROVE kept[i] = f \/ \E j \in DOMAIN q.frames : kept[i] = q.frames[j]
      <4>1. PICK m \in 1..Len(t) : kept[i] = t[m]
        BY <1>6
      <4>2. CASE m <= k
        BY <4>1, <4>2, <1>2, <1>4
      <4>3. CASE m = k + 1
        BY <4>1, <4>3, <1>4
      <4>4. CASE m > k + 1
        <5>1. m - 1 \in DOMAIN q.frames /\ t[m] = q.frames[m - 1]
          BY <4>1, <4>4, <1>2, <1>4
        <5> QED BY <5>1, <4>1
      <4> QED BY <4>2, <4>3, <4>4, <1>2, <1>4
    <3> QED BY <3>1, <3>2 DEF Adds
  <2>4. After(kept, q.current)
    <3> SUFFICES ASSUME q.current # None, NEW i \in DOMAIN kept PROVE q.current.target < kept[i].target
      BY DEF After
    <3>1. f.target \in Int /\ q.current.target \in Int /\ q.current.target < f.target
      BY <1>8 DEF Queue, Timed
    <3> QED BY <3>1, <2>3 DEF Queue, After, Adds
  <2> QED BY <1>5, <1>6, <2>1, <2>2, <2>3, <2>4 DEF Queue
<1> QED BY <1>7, <1>8

\* The frames of s come from t or are in T.
Gains(s, t, T) ==
    /\ Len(s) <= Len(t) + Len(T)
    /\ \A i \in DOMAIN s : (\E j \in DOMAIN T : s[i] = T[j]) \/ \E j \in DOMAIN t : s[i] = t[j]

\* The function that PushAll computes, defined for the first m frames.
Pushes(g, q, fs, c, m) ==
    g = [n \in 0..m |-> IF n = 0 THEN q ELSE Pacing!Push(g[n - 1], fs[n], c)]

\* The recursive function of PushAll exists, for any number of frames.
LEMMA PushesExist == \A q, fs, c : \A m \in Nat : \E g : Pushes(g, q, fs, c, m)
<1> TAKE q, fs, c
<1> DEFINE S == {m \in Nat : \E g : Pushes(g, q, fs, c, m)}
<1>1. 0 \in S
  <2>1. Pushes([n \in 0..0 |-> q], q, fs, c, 0)
    BY DEF Pushes
  <2> QED BY <2>1
<1>2. ASSUME NEW m \in Nat, m \in S PROVE m + 1 \in S
  <2>1. PICK g : Pushes(g, q, fs, c, m)
    BY <1>2
  <2> DEFINE h == [n \in 0..m + 1 |-> IF n = m + 1 THEN Pacing!Push(g[m], fs[m + 1], c) ELSE g[n]]
  <2>2. ASSUME NEW n \in 0..m + 1
        PROVE  h[n] = IF n = 0 THEN q ELSE Pacing!Push(h[n - 1], fs[n], c)
    <3>1. \A k \in 0..m : g[k] = IF k = 0 THEN q ELSE Pacing!Push(g[k - 1], fs[k], c)
      BY <2>1, Zenon DEF Pushes
    <3>2. CASE n = m + 1
      <4>1. n # 0 /\ n - 1 = m /\ m \in 0..m + 1 /\ m # m + 1
        BY <3>2
      <4> QED BY <3>2, <4>1
    <3>3. CASE n # m + 1 /\ n # 0
      <4>1. n \in 0..m /\ n - 1 \in 0..m + 1 /\ n - 1 # m + 1
        BY <3>3
      <4>2. h[n] = g[n] /\ h[n - 1] = g[n - 1]
        BY <3>3, <4>1
      <4> QED BY <3>1, <3>3, <4>1, <4>2, Zenon
    <3>4. CASE n = 0
      <4>1. n \in 0..m /\ n # m + 1
        BY <3>4
      <4> QED BY <3>1, <3>4, <4>1
    <3> QED BY <3>2, <3>3, <3>4
  <2>3. h = [n \in 0..m + 1 |-> h[n]]
    OBVIOUS
  <2> HIDE DEF h
  <2>4. Pushes(h, q, fs, c, m + 1)
    BY <2>2, <2>3, Zenon DEF Pushes
  <2> QED BY <2>4
<1> HIDE DEF S
<1>3. Nat \subseteq S
  BY <1>1, <1>2, Induction
<1> QED BY <1>3 DEF S

\* However many frames have come, the queue keeps the order and the bound.
LEMMA PushAllKeeps ==
    ASSUME NEW F, Timed(F), NEW c \in Nat, NEW q, Queue(q, F, c), NEW fs \in Seq(F),
           NEW p, p = Pacing!PushAll(q, fs, c)
    PROVE  Queue(p, F, c) /\ p.current = q.current /\ Gains(p.frames, q.frames, fs)
<1>1. PICK g : g = CHOOSE h : Pushes(h, q, fs, c, Len(fs))
  OBVIOUS
<1>2. p = g[Len(fs)]
  BY <1>1, Zenon DEF Pacing!PushAll, Pushes
<1>3. Pushes(g, q, fs, c, Len(fs))
  <2>1. Len(fs) \in Nat
    OBVIOUS
  <2> QED BY <1>1, <2>1, PushesExist, Zenon
<1>4. \A n \in 0..Len(fs) : g[n] = IF n = 0 THEN q ELSE Pacing!Push(g[n - 1], fs[n], c)
  BY <1>3, Zenon DEF Pushes
<1> DEFINE Good(n) == /\ Queue(g[n], F, c) /\ g[n].current = q.current
                      /\ Len(g[n].frames) <= Len(q.frames) + n
                      /\ \A i \in DOMAIN g[n].frames :
                            \/ \E j \in DOMAIN fs : g[n].frames[i] = fs[j]
                            \/ \E j \in DOMAIN q.frames : g[n].frames[i] = q.frames[j]
           S == {n \in Nat : n <= Len(fs) => Good(n)}
<1>5. 0 \in S
  <2>1. g[0] = q /\ Len(q.frames) \in Nat
    BY <1>4 DEF Queue
  <2> QED BY <2>1
<1>6. ASSUME NEW n \in Nat, n \in S PROVE n + 1 \in S
  <2> SUFFICES ASSUME n + 1 <= Len(fs) PROVE Good(n + 1)
    OBVIOUS
  <2>1. Good(n)
    BY <1>6
  <2>2. PICK x, y, f : x = g[n] /\ y = g[n + 1] /\ f = fs[n + 1]
    OBVIOUS
  <2>3. n + 1 \in DOMAIN fs /\ f \in F /\ n + 1 \in 0..Len(fs) /\ n + 1 # 0 /\ n + 1 - 1 = n
    BY <2>2
  <2>4. y = Pacing!Push(x, f, c)
    BY <1>4, <2>2, <2>3
  <2>5. Queue(x, F, c)
    BY <2>1, <2>2, Zenon
  <2>6. Queue(y, F, c) /\ y.current = x.current /\ Adds(y.frames, x.frames, f)
    BY <2>3, <2>4, <2>5, PushKeeps
  <2>7. Len(y.frames) <= Len(q.frames) + (n + 1)
    <3>1. x.frames \in Seq(F) /\ y.frames \in Seq(F) /\ q.frames \in Seq(F)
      BY <2>5, <2>6 DEF Queue
    <3>2. Len(x.frames) \in Nat /\ Len(y.frames) \in Nat /\ Len(q.frames) \in Nat
      BY <3>1
    <3>3. Len(x.frames) <= Len(q.frames) + n /\ Len(y.frames) <= Len(x.frames) + 1
      BY <2>1, <2>2, <2>6, Zenon DEF Adds
    <3>4. \A lx, ly, lq \in Nat : lx <= lq + n /\ ly <= lx + 1 => ly <= lq + (n + 1)
      OBVIOUS
    <3> QED BY <3>2, <3>3, <3>4, Zenon
  <2>8. ASSUME NEW i \in DOMAIN y.frames
        PROVE  \/ \E j \in DOMAIN fs : y.frames[i] = fs[j]
               \/ \E j \in DOMAIN q.frames : y.frames[i] = q.frames[j]
    <3>1. CASE y.frames[i] = f
      BY <3>1, <2>2, <2>3
    <3>2. CASE \E k \in DOMAIN x.frames : y.frames[i] = x.frames[k]
      BY <3>2, <2>1, <2>2, Zenon
    <3> QED BY <3>1, <3>2, <2>6, Zenon DEF Adds
  <2>9. y.current = q.current
    BY <2>1, <2>2, <2>6, Zenon
  <2> QED BY <2>2, <2>6, <2>7, <2>8, <2>9, Zenon
<1> HIDE DEF S
<1>7. Nat \subseteq S
  BY <1>5, <1>6, Induction
<1>8. Good(Len(fs))
  <2>1. Len(fs) \in S /\ Len(fs) <= Len(fs)
    BY <1>7
  <2> QED BY <2>1 DEF S
<1> QED BY <1>2, <1>8 DEF Gains

\* select shows the latest frame that is due and keeps those behind it.
LEMMA SelectKeeps ==
    ASSUME NEW F, Timed(F), NEW c \in Nat, NEW q, Queue(q, F, c), NEW t \in Int, NEW d \in Int,
           NEW n, n = Pacing!Due(q, t, d), NEW p, p = Pacing!Select(q, t, d)
    PROVE  /\ Queue(p, F, c) /\ n \in 0..Len(q.frames)
           /\ n = 0 => p = q
           /\ n # 0 => /\ p.current \in F /\ p.current = q.frames[n]
                       /\ Len(p.frames) = Len(q.frames) - n
                       /\ \A i \in DOMAIN p.frames : p.frames[i] = q.frames[n + i]
           /\ \A i \in DOMAIN q.frames : q.frames[i].target <= t + d => n # 0
<1>1. PICK s, S : s = q.frames /\ S = {i \in DOMAIN s : s[i].target <= t + d}
  OBVIOUS
<1>2. s \in Seq(F) /\ Len(s) \in Nat /\ Len(s) <= c /\ Sorted(s)
  BY <1>1 DEF Queue
<1>3. n = Cardinality(S)
  BY <1>1, SameCount, Zenon DEF Pacing!Due
<1>4. \A i \in DOMAIN s : s[i] \in F /\ s[i].target \in Int
  BY <1>2 DEF Timed
<1>5. n \in 0..Len(s) /\ S = 1..n
  <2>1. S \subseteq 1..Len(s)
    BY <1>1, <1>2
  <2>2. \A i \in S : \A j \in 1..Len(s) : j < i => j \in S
    BY <1>1, <1>2, <1>4 DEF Sorted
  <2> QED BY <1>2, <1>3, <2>1, <2>2, Initial, Zenon
<1>6. CASE n = 0
  <2>1. p = q
    BY <1>6, Zenon DEF Pacing!Select
  <2>2. \A i \in DOMAIN q.frames : ~(q.frames[i].target <= t + d)
    BY <1>1, <1>5, <1>6
  <2> QED BY <1>1, <1>5, <1>6, <2>1, <2>2
<1>7. CASE n # 0
  <2>1. PICK r : r = SubSeq(s, n + 1, Len(s))
    OBVIOUS
  <2>2. p = [frames |-> r, current |-> s[n]]
    BY <1>1, <1>7, <2>1, Zenon DEF Pacing!Select
  <2>3. /\ r \in Seq(F) /\ Len(r) = Len(s) - n
        /\ \A i \in 1..Len(r) : n + i \in 1..Len(s) /\ r[i] = s[n + i]
    <3>1. PICK m : m = n + 1
      OBVIOUS
    <3>2. m \in 1..Len(s) + 1 /\ Len(s) \in 0..Len(s) /\ m <= Len(s) + 1
      BY <1>2, <1>5, <3>1
    <3>3. r = SubSeq(s, m, Len(s))
      BY <2>1, <3>1, Zenon
    <3>4. /\ r \in Seq(F) /\ Len(r) = Len(s) - m + 1
          /\ \A i \in 1..Len(r) : m + i - 1 \in 1..Len(s) /\ r[i] = s[m + i - 1]
      BY <1>2, <3>2, <3>3, Part
    <3>5. Len(s) - m + 1 = Len(s) - n /\ \A i \in 1..Len(r) : m + i - 1 = n + i
      <4>1. n \in Nat /\ m = n + 1 /\ Len(r) \in Nat
        BY <1>5, <3>1, <3>4
      <4>2. \A a \in Nat : \A i \in Nat : a - (n + 1) + 1 = a - n /\ (n + 1) + i - 1 = n + i
        BY <4>1
      <4>3. 1..Len(r) \subseteq Nat
        BY <4>1
      <4> QED BY <1>2, <4>1, <4>2, <4>3, Zenon
    <3> QED BY <3>4, <3>5
  <2>4. n \in DOMAIN s /\ s[n] \in F /\ s[n].target \in Int /\ s[n].target <= t + d
    BY <1>1, <1>2, <1>4, <1>5, <1>7
  <2>5. Sorted(r)
    <3> SUFFICES ASSUME NEW i \in 1..Len(r), NEW j \in 1..Len(r), i < j
                 PROVE  r[i].target <= r[j].target
      BY <2>3 DEF Sorted
    <3>1. n + i < n + j /\ n + i \in DOMAIN s /\ n + j \in DOMAIN s
      BY <1>2, <1>5, <2>3, SMTT(30)
    <3> QED BY <1>2, <2>3, <3>1 DEF Sorted
  <2>6. After(r, s[n])
    <3> SUFFICES ASSUME NEW i \in 1..Len(r) PROVE s[n].target < r[i].target
      BY <2>3 DEF After
    <3>1. n + i \in DOMAIN s /\ n + i \notin S /\ r[i] = s[n + i]
      BY <1>2, <1>5, <2>3
    <3>2. ~(s[n + i].target <= t + d) /\ s[n + i].target \in Int
      BY <1>1, <1>4, <3>1
    <3> QED BY <2>4, <3>1, <3>2
  <2>7. Queue(p, F, c)
    BY <1>2, <1>5, <2>2, <2>3, <2>4, <2>5, <2>6 DEF Queue
  <2>8. /\ p.current \in F /\ p.current = s[n] /\ Len(p.frames) = Len(s) - n
        /\ \A i \in DOMAIN p.frames : p.frames[i] = s[n + i]
    BY <2>2, <2>3, <2>4
  <2> QED BY <1>1, <1>5, <1>7, <2>7, <2>8, Zenon
<1> QED BY <1>6, <1>7

-----------------------------------------------------------------------------
(* The latency. *)

\* The function that Latency computes, defined for the first m observations.
Sums(g, observations, m) ==
    g = [n \in 0..m |-> IF n = 0 THEN 0 ELSE g[n - 1] + observations[n]]

\* The recursive function of Latency exists, for any number of observations.
LEMMA SumsExist == \A observations : \A m \in Nat : \E g : Sums(g, observations, m)
<1> TAKE observations
<1> DEFINE S == {m \in Nat : \E g : Sums(g, observations, m)}
<1>1. 0 \in S
  <2>1. Sums([n \in 0..0 |-> 0], observations, 0)
    BY DEF Sums
  <2> QED BY <2>1
<1>2. ASSUME NEW m \in Nat, m \in S PROVE m + 1 \in S
  <2>1. PICK g : Sums(g, observations, m)
    BY <1>2
  <2> DEFINE h == [n \in 0..m + 1 |-> IF n = m + 1 THEN g[m] + observations[m + 1] ELSE g[n]]
  <2>2. ASSUME NEW n \in 0..m + 1
        PROVE  h[n] = IF n = 0 THEN 0 ELSE h[n - 1] + observations[n]
    <3>1. \A k \in 0..m : g[k] = IF k = 0 THEN 0 ELSE g[k - 1] + observations[k]
      BY <2>1, Zenon DEF Sums
    <3>2. CASE n = m + 1
      <4>1. n # 0 /\ n - 1 = m /\ m \in 0..m + 1 /\ m # m + 1
        BY <3>2
      <4> QED BY <3>2, <4>1
    <3>3. CASE n # m + 1 /\ n # 0
      <4>1. n \in 0..m /\ n - 1 \in 0..m + 1 /\ n - 1 # m + 1
        BY <3>3
      <4>2. h[n] = g[n] /\ h[n - 1] = g[n - 1]
        BY <3>3, <4>1
      <4> QED BY <3>1, <3>3, <4>1, <4>2, Zenon
    <3>4. CASE n = 0
      <4>1. n \in 0..m /\ n # m + 1
        BY <3>4
      <4> QED BY <3>1, <3>4, <4>1
    <3> QED BY <3>2, <3>3, <3>4
  <2>3. h = [n \in 0..m + 1 |-> h[n]]
    OBVIOUS
  <2> HIDE DEF h
  <2>4. Sums(h, observations, m + 1)
    BY <2>2, <2>3, Zenon DEF Sums
  <2> QED BY <2>4
<1> HIDE DEF S
<1>3. Nat \subseteq S
  BY <1>1, <1>2, Induction
<1> QED BY <1>3 DEF S

\* A mean of integers cut to an integer is an integer.
LEMMA TargetIsInt ==
    ASSUME NEW observations \in Seq(Int), observations # <<>>, NEW t \in Int
    PROVE  Pacing!ProgramTarget(observations, t) \in Int
<1>1. PICK g, m : g = (CHOOSE h : Sums(h, observations, Len(observations))) /\ m = Len(observations)
  OBVIOUS
<1>2. Pacing!Latency(observations) = Pacing!Quotient(g[m], m)
  BY <1>1, Zenon DEF Pacing!Latency, Sums
<1>3. m \in Nat \ {0} /\ \A n \in 1..m : observations[n] \in Int
  BY <1>1
<1>4. Sums(g, observations, m)
  BY <1>1, <1>3, SumsExist, Zenon
<1>5. \A n \in 0..m : g[n] = IF n = 0 THEN 0 ELSE g[n - 1] + observations[n]
  BY <1>4, Zenon DEF Sums
<1> HIDE <1>1
<1> DEFINE S == {n \in Nat : n <= m => g[n] \in Int}
<1>6. 0 \in S
  BY <1>3, <1>5
<1>7. ASSUME NEW n \in Nat, n \in S PROVE n + 1 \in S
  <2> SUFFICES ASSUME n + 1 <= m PROVE g[n + 1] \in Int
    OBVIOUS
  <2>1. n + 1 \in 0..m /\ n + 1 \in 1..m /\ n + 1 # 0 /\ n + 1 - 1 = n /\ g[n] \in Int
    BY <1>3, <1>7
  <2>2. g[n + 1] = g[n] + observations[n + 1]
    BY <1>5, <2>1
  <2> QED BY <1>3, <2>1, <2>2
<1> HIDE DEF S
<1>8. Nat \subseteq S
  BY <1>6, <1>7, Induction
<1>9. PICK s : s = g[m] /\ s \in Int
  BY <1>3, <1>8 DEF S
<1>10. Pacing!Quotient(s, m) \in Int
  <2>1. /\ s < 0 => Pacing!Quotient(s, m) = -((-s) \div m)
        /\ ~(s < 0) => Pacing!Quotient(s, m) = s \div m
    BY DEF Pacing!Quotient
  <2>2. (-s) \div m \in Int /\ s \div m \in Int
    BY <1>3, <1>9
  <2> QED BY <2>1, <2>2
<1>11. Pacing!ProgramTarget(observations, t) = t - Pacing!Quotient(s, m)
  BY <1>2, <1>9, Zenon DEF Pacing!ProgramTarget
<1> QED BY <1>10, <1>11

\* There is an observation from the first one on.
LEMMA ObserveKeeps ==
    ASSUME TimedAssumption, NEW observations \in Seq(Int), NEW t \in Int
    PROVE  Pacing!Observe(observations, t) \in Seq(Int) \ {<<>>}
<1>1. PICK all, least, o :
        /\ all = Append(observations, t)
        /\ least = Pacing!Min({ObservationCount, Len(all)})
        /\ o = SubSeq(all, Len(all) - least + 1, Len(all))
  BY Zenon
<1>2. o = Pacing!Observe(observations, t)
  BY <1>1, Zenon DEF Pacing!Observe
<1>3. all \in Seq(Int) /\ Len(all) \in Nat /\ Len(all) >= 1
  BY <1>1
<1>4. ObservationCount \in Nat \ {0}
  BY DEF TimedAssumption, Pacing!PacingAssumption
<1>5. least \in 1..Len(all)
  <2>1. least = IF ObservationCount <= Len(all) THEN ObservationCount ELSE Len(all)
    <3>1. ObservationCount \in Int /\ Len(all) \in Int
      BY <1>3, <1>4
    <3> QED BY <1>1, <3>1, Extremes, Zenon
  <2> QED BY <1>3, <1>4, <2>1
<1>6. PICK m : m = Len(all) - least + 1
  OBVIOUS
<1>7. m \in 1..Len(all) + 1 /\ Len(all) \in 0..Len(all) /\ m <= Len(all) + 1 /\ Len(all) - m + 1 = least
  BY <1>3, <1>5, <1>6
<1>8. o = SubSeq(all, m, Len(all))
  BY <1>1, <1>6, Zenon
<1>9. o \in Seq(Int) /\ Len(o) = least
  BY <1>3, <1>7, <1>8, Part
<1>10. o # <<>>
  BY <1>3, <1>5, <1>9
<1> QED BY <1>2, <1>9, <1>10

-----------------------------------------------------------------------------
(* The screen output. *)

Targets == [target : Int]

Playing == thread \in {"looping", "sleeping", "swapping"}

\* What the queue of the presenter holds at most.
Room == IF presenter = None THEN 0 ELSE Screen!QueueCapacity(presenter.buffer)

ScreenTypes ==
    /\ s_now \in Int /\ program \in Int /\ stopping \in BOOLEAN /\ running \in BOOLEAN
    /\ free \in Nat /\ s_submitted \in Seq(Targets) /\ retired \in [fenced : Nat, plain : Nat]
    /\ observed \in Seq(Int) /\ next_swap \in Int /\ s_shown \in Int

\* Without a presenter there is nothing of one.
AbsenceInv ==
    presenter = None =>
        /\ ~stopping /\ ~running /\ thread = "ended" /\ queue = Screen!EmptyQueue
        /\ s_submitted = <<>> /\ node \notin {"prepared", "drawing"}

RoomInv == Queue(queue, Targets, Room)

\* What is shown is not newer than what is in the queue, that not than what is
\* submitted, and all of it not than the frame of the program.
ShownInv ==
    /\ s_shown <= program
    /\ \A j \in DOMAIN s_submitted :
          s_shown <= s_submitted[j].target /\ s_submitted[j].target <= program
    /\ \A i \in DOMAIN queue.frames :
          /\ s_shown <= queue.frames[i].target /\ queue.frames[i].target <= program
          /\ \A j \in DOMAIN s_submitted : queue.frames[i].target <= s_submitted[j].target
    /\ queue.current # None => queue.current.target = s_shown

\* The thread repeats a frame it has, and tells targets by a latency observed.
ThreadInv ==
    /\ Playing => queue.current # None
    /\ thread \in {"looping", "sleeping"} => observed # <<>>
    /\ thread = "swapping" =>
          /\ swap \in [first : BOOLEAN, observes : Int \cup {None}]
          /\ observed = <<>> => swap.observes # None
          /\ ~swap.first => next_swap <= s_now

ScreenInv ==
    /\ Screen!TypeOK /\ ScreenTypes /\ AbsenceInv /\ RoomInv /\ ShownInv /\ ThreadInv
    /\ PresenterFollowsSettings

LEMMA ScreenConstants ==
    /\ None \notin Int /\ None \notin Targets /\ None \notin Screen!Settings
    /\ Buffers \subseteq Nat \ {0} /\ Duration \in Nat \ {0} /\ ObservationCount \in Nat \ {0}
    /\ QueueHeadroom \in Nat /\ PipelineHeadroom \in Nat
    /\ Duration \div 2 \in Nat
<1>1. Duration \in Nat \ {0}
  BY TimedAssumption DEF Screen!ScreenAssumption
<1>2. Duration \div 2 \in Nat
  BY <1>1
<1> QED BY <1>1, <1>2, TimedAssumption DEF Screen!ScreenAssumption, Targets

LEMMA TargetsAreTimed == Timed(Targets)
BY ScreenConstants DEF Timed, Targets

LEMMA EmptyIsQueue == \A c \in Nat : Queue(Screen!EmptyQueue, Targets, c) /\ Screen!Kept(Screen!EmptyQueue) = 0
BY DEF Screen!EmptyQueue, Screen!Kept, Queue, Sorted, After

\* The room a presenter's settings give.
LEMMA RoomIsNumber ==
    ASSUME Screen!TypeOK
    PROVE  /\ Room \in Nat
           /\ presenter # None => /\ presenter.buffer \in Nat \ {0}
                                  /\ Room = presenter.buffer + QueueHeadroom
                                  /\ Screen!SlotCount(presenter.buffer) = Room + 1 + PipelineHeadroom
<1>1. CASE presenter = None
  BY <1>1 DEF Room
<1>2. CASE presenter # None
  <2>1. presenter \in Screen!Settings
    BY <1>2 DEF Screen!TypeOK
  <2>2. presenter.buffer \in Nat \ {0}
    BY <2>1, ScreenConstants DEF Screen!Settings
  <2> QED BY <1>2, <2>2, ScreenConstants DEF Room, Screen!QueueCapacity, Screen!SlotCount
<1> QED BY <1>1, <1>2

\* The frames a queue keeps, counted.
LEMMA KeptIsNumber ==
    ASSUME NEW q, NEW c \in Nat, Queue(q, Targets, c)
    PROVE  /\ Screen!Kept(q) \in Nat /\ Len(q.frames) \in Nat /\ Len(q.frames) <= c
           /\ Screen!Kept(q) = Len(q.frames) + IF q.current = None THEN 0 ELSE 1
<1>1. Len(q.frames) \in Nat /\ Len(q.frames) <= c
  BY DEF Queue
<1>2. Screen!Kept(q) = Len(q.frames) + IF q.current = None THEN 0 ELSE 1
  BY Zenon DEF Screen!Kept
<1>3. Screen!Kept(q) \in Nat
  <2>1. /\ q.current = None => Screen!Kept(q) = Len(q.frames) + 0
        /\ q.current # None => Screen!Kept(q) = Len(q.frames) + 1
    BY Zenon DEF Screen!Kept
  <2> QED BY <1>1, <2>1
<1> QED BY <1>1, <1>2, <1>3, Zenon

-----------------------------------------------------------------------------
(* Its node. *)

\* A presenter is there no more, or not yet.
LEMMA AbsenceKeeps ==
    ASSUME ScreenInv, Screen!NoPresenter, s_now' = s_now, s_shown' = s_shown,
           program' \in Int, program <= program', settings' \in Screen!Settings,
           node' \in {"idle", "removed"}
    PROVE  ScreenInv'
<1>1. /\ presenter' = None /\ stopping' = FALSE /\ running' = FALSE
      /\ free' = 0 /\ s_submitted' = <<>> /\ retired' = [fenced |-> 0, plain |-> 0]
      /\ thread' = "ended" /\ queue' = Screen!EmptyQueue /\ observed' = <<>>
      /\ swap' = None /\ next_swap' = 0
  BY DEF Screen!NoPresenter
<1>2. ScreenTypes' /\ AbsenceInv' /\ ThreadInv' /\ PresenterFollowsSettings'
  <2>1. <<>> \in Seq(Targets) /\ <<>> \in Seq(Int)
    OBVIOUS
  <2>2. ScreenTypes'
    <3>1. s_now' \in Int /\ program' \in Int /\ s_shown' \in Int
      BY DEF ScreenInv, ScreenTypes
    <3>2. stopping' \in BOOLEAN /\ running' \in BOOLEAN /\ free' \in Nat /\ next_swap' \in Int
      <4>1. stopping' = FALSE /\ running' = FALSE /\ free' = 0 /\ next_swap' = 0
        BY <1>1, Zenon
      <4>2. FALSE \in BOOLEAN /\ 0 \in Nat /\ 0 \in Int
        OBVIOUS
      <4> QED BY <4>1, <4>2, Zenon
    <3>4. s_submitted' \in Seq(Targets) /\ observed' \in Seq(Int)
      BY <1>1, <2>1, Zenon
    <3>3. retired' \in [fenced : Nat, plain : Nat]
      BY <1>1
    <3> QED BY <3>1, <3>2, <3>3, <3>4, Zenon DEF ScreenTypes
  <2>3. AbsenceInv' /\ ThreadInv'
    BY <1>1 DEF AbsenceInv, ThreadInv, Playing
  <2> QED BY <1>1, <2>2, <2>3 DEF PresenterFollowsSettings, Screen!PresenterFollowsSettings
<1>3. RoomInv'
  <2>1. Room' = 0
    BY <1>1 DEF Room
  <2> QED BY <1>1, <2>1, EmptyIsQueue DEF RoomInv
<1>4. ShownInv'
  BY <1>1 DEF ScreenInv, ScreenTypes, ShownInv, Screen!EmptyQueue
<1>5. Screen!TypeOK'
  <2>1. Screen!Slots' = 0
    BY <1>1, EmptyIsQueue DEF Screen!Slots
  <2> QED BY <1>1, <2>1 DEF Screen!TypeOK
<1> QED BY <1>2, <1>3, <1>4, <1>5 DEF ScreenInv

\* A presenter starts with all its slots free.
LEMMA PresenceKeeps ==
    ASSUME ScreenInv, NEW s \in Screen!Settings, Screen!NewPresenter(s), s.enabled,
           s_now' = s_now, s_shown' = s_shown, program' \in Int, program <= program',
           settings' = s, node' = "prepared"
    PROVE  ScreenInv'
<1>1. /\ presenter' = s /\ stopping' = FALSE /\ running' = TRUE
      /\ free' = Screen!SlotCount(s.buffer)
      /\ s_submitted' = <<>> /\ retired' = [fenced |-> 0, plain |-> 0]
      /\ thread' = "collecting" /\ queue' = Screen!EmptyQueue /\ observed' = <<>>
      /\ swap' = None /\ next_swap' = 0
  BY DEF Screen!NewPresenter, Screen!Fresh
<1>2. s # None /\ s.buffer \in Nat \ {0}
  BY ScreenConstants DEF Screen!Settings
<1>3. Screen!SlotCount(s.buffer) \in Nat /\ Screen!QueueCapacity(s.buffer) \in Nat
  BY <1>2, ScreenConstants DEF Screen!SlotCount, Screen!QueueCapacity
<1>4. ScreenTypes' /\ AbsenceInv' /\ ThreadInv' /\ PresenterFollowsSettings'
  <2>1. <<>> \in Seq(Targets) /\ <<>> \in Seq(Int)
    OBVIOUS
  <2>2. ScreenTypes'
    <3>1. s_now' \in Int /\ program' \in Int /\ s_shown' \in Int
      BY DEF ScreenInv, ScreenTypes
    <3>2. stopping' \in BOOLEAN /\ running' \in BOOLEAN /\ free' \in Nat /\ next_swap' \in Int
      <4>1. /\ stopping' = FALSE /\ running' = TRUE /\ next_swap' = 0
            /\ free' = Screen!SlotCount(s.buffer)
        BY <1>1, Zenon
      <4>2. FALSE \in BOOLEAN /\ TRUE \in BOOLEAN /\ 0 \in Int
        OBVIOUS
      <4> QED BY <4>1, <4>2, <1>3, Zenon
    <3>4. s_submitted' \in Seq(Targets) /\ observed' \in Seq(Int)
      BY <1>1, <2>1, Zenon
    <3>3. retired' \in [fenced : Nat, plain : Nat]
      BY <1>1
    <3> QED BY <3>1, <3>2, <3>3, <3>4, Zenon DEF ScreenTypes
  <2>3. AbsenceInv' /\ ThreadInv'
    BY <1>1, <1>2 DEF AbsenceInv, ThreadInv, Playing
  <2> QED BY <1>1, <2>2, <2>3 DEF PresenterFollowsSettings, Screen!PresenterFollowsSettings
<1>5. RoomInv'
  <2>1. Room' \in Nat
    BY <1>1, <1>2, <1>3 DEF Room
  <2> QED BY <1>1, <2>1, EmptyIsQueue DEF RoomInv
<1>6. ShownInv'
  BY <1>1 DEF ScreenInv, ScreenTypes, ShownInv, Screen!EmptyQueue
<1>7. Screen!TypeOK'
  <2>1. Screen!Slots' = Screen!SlotCount(s.buffer)
    BY <1>1, <1>3, EmptyIsQueue DEF Screen!Slots
  <2> QED BY <1>1, <1>2, <2>1 DEF Screen!TypeOK
<1> QED BY <1>4, <1>5, <1>6, <1>7 DEF ScreenInv

\* A step that leaves the presenter its frames.
LEMMA FramesStay ==
    ASSUME ScreenInv, UNCHANGED <<s_now, presenter, free, s_submitted, retired, queue, observed,
                                  swap, next_swap, s_shown>>,
           program' \in Int, program <= program', settings' \in Screen!Settings,
           stopping' \in BOOLEAN, running' \in BOOLEAN, running' => running,
           presenter = None => ~stopping',
           thread' = thread \/ (thread = "blocked" /\ thread' = "testing"),
           node' \in {"idle", "prepared", "removing"}, node # "drawing",
           node' = "prepared" => presenter # None,
           PresenterFollowsSettings'
    PROVE  ScreenInv'
<1>1. ScreenTypes'
  BY DEF ScreenInv, ScreenTypes
<1>2. AbsenceInv'
  BY DEF ScreenInv, AbsenceInv
<1>3. RoomInv' /\ ThreadInv'
  BY DEF ScreenInv, RoomInv, Room, ThreadInv, Playing
<1>4. ShownInv'
  <2>1. \A j \in DOMAIN s_submitted : s_submitted[j].target \in Int
    <3>1. s_submitted \in Seq(Targets)
      BY DEF ScreenInv, ScreenTypes
    <3> QED BY <3>1, TargetsAreTimed DEF Timed
  <2>2. \A i \in DOMAIN queue.frames : queue.frames[i].target \in Int
    <3>1. queue.frames \in Seq(Targets)
      BY DEF ScreenInv, RoomInv, Queue
    <3> QED BY <3>1, TargetsAreTimed DEF Timed
  <2>3. program \in Int /\ s_shown \in Int
    BY DEF ScreenInv, ScreenTypes
  <2> QED BY <2>1, <2>2, <2>3 DEF ScreenInv, ShownInv
<1>5. Screen!TypeOK'
  <2>1. Screen!Slots' = Screen!Slots
    BY DEF Screen!Slots
  <2> QED BY <2>1 DEF ScreenInv, Screen!TypeOK
<1> QED BY <1>1, <1>2, <1>3, <1>4, <1>5 DEF ScreenInv

\* The frame begins: presenters stop, go on or follow each other.
LEMMA BeginKeeps ==
    ASSUME ScreenInv, NEW s \in Screen!Settings, Screen!BeginFrame(s)
    PROVE  ScreenInv'
<1>1. /\ node = "idle" /\ s_now' = s_now /\ s_shown' = s_shown /\ settings' = s
      /\ program' \in program + 1..s_now /\ program \in Int /\ s_now \in Int
  BY DEF Screen!BeginFrame, Screen!Prepare, ScreenInv, ScreenTypes
<1>2. program' \in Int /\ program <= program'
  BY <1>1
<1> DEFINE changes == presenter # None /\ s # settings
           leaves  == stopping \/ changes
           over    == leaves /\ thread = "ended"
<1>3. Screen!Prepare(s)
  BY DEF Screen!BeginFrame
<1>4. presenter = None => ~leaves
  BY DEF ScreenInv, AbsenceInv
<1>5. CASE leaves /\ ~over
  <2>1. /\ stopping' = TRUE /\ node' = "idle"
        /\ IF stopping THEN UNCHANGED <<running, thread>> ELSE Screen!RequestStop
        /\ UNCHANGED <<presenter, free, s_submitted, retired, queue, observed, swap, next_swap>>
    BY <1>3, <1>4, <1>5 DEF Screen!Prepare, Screen!slot_vars
  <2>2. running' \in BOOLEAN /\ (running' => running)
        /\ (thread' = thread \/ (thread = "blocked" /\ thread' = "testing"))
    BY <2>1 DEF Screen!RequestStop, ScreenInv, ScreenTypes
  <2>3. PresenterFollowsSettings'
    BY <2>1 DEF PresenterFollowsSettings, Screen!PresenterFollowsSettings
  <2> QED BY <1>1, <1>2, <1>4, <1>5, <2>1, <2>2, <2>3, FramesStay
<1>6. CASE (over \/ presenter = None) /\ s.enabled
  <2>1. \/ node' = "prepared" /\ Screen!NewPresenter(s)
        \/ node' = "idle" /\ Screen!NoPresenter
    BY <1>3, <1>4, <1>6 DEF Screen!Prepare
  <2> QED BY <1>1, <1>2, <1>6, <2>1, AbsenceKeeps, PresenceKeeps
<1>7. CASE (over \/ presenter = None) /\ ~s.enabled
  <2>1. node' = "idle" /\ Screen!NoPresenter
    BY <1>3, <1>4, <1>7 DEF Screen!Prepare
  <2> QED BY <1>1, <1>2, <2>1, AbsenceKeeps
<1>8. CASE ~leaves /\ ~over /\ presenter # None
  <2>1. /\ node' = "prepared"
        /\ UNCHANGED <<presenter, stopping, running, free, s_submitted, retired, thread, queue,
                       observed, swap, next_swap>>
    BY <1>3, <1>8 DEF Screen!Prepare, Screen!slot_vars
  <2>2. PresenterFollowsSettings' /\ running' \in BOOLEAN /\ stopping' \in BOOLEAN
    BY <1>1, <1>8, <2>1 DEF ScreenInv, ScreenTypes, PresenterFollowsSettings,
                            Screen!PresenterFollowsSettings
  <2> QED BY <1>1, <1>2, <1>8, <2>1, <2>2, FramesStay
<1> QED BY <1>4, <1>5, <1>6, <1>7, <1>8

LEMMA SlotsAreNumbers ==
    ASSUME ScreenInv
    PROVE  /\ Len(s_submitted) \in Nat /\ Len(queue.frames) \in Nat /\ Screen!Kept(queue) \in Nat
           /\ free \in Nat /\ retired.fenced \in Nat /\ retired.plain \in Nat
           /\ retired = [fenced |-> retired.fenced, plain |-> retired.plain]
<1>1. Queue(queue, Targets, Room) /\ Room \in Nat
  BY RoomIsNumber DEF ScreenInv, RoomInv
<1>2. Screen!Kept(queue) \in Nat /\ Len(queue.frames) \in Nat
  BY <1>1, KeptIsNumber
<1> QED BY <1>2 DEF ScreenInv, ScreenTypes

LEMMA AcquireKeeps == ASSUME ScreenInv, Screen!Acquire PROVE ScreenInv'
<1>1. PICK signalled \in 0..retired.fenced :
        LET found == free + retired.plain + signalled
        IN  /\ retired' = [fenced |-> retired.fenced - signalled, plain |-> 0]
            /\ free' = Screen!Max({0, found - 1})
            /\ node' = IF found = 0 THEN "idle" ELSE "drawing"
  BY Zenon DEF Screen!Acquire
<1>2. /\ node = "prepared"
      /\ UNCHANGED <<s_now, program, settings, presenter, stopping, running, s_submitted, thread,
                     queue, observed, swap, next_swap, s_shown>>
  BY DEF Screen!Acquire, Screen!thread_vars
<1>3. PICK found, fenced, plain :
        found = free + plain + signalled /\ fenced = retired.fenced /\ plain = retired.plain
  OBVIOUS
<1>4. fenced \in Nat /\ plain \in Nat /\ free \in Nat /\ found \in Nat /\ fenced - signalled \in Nat
  BY <1>3 DEF ScreenInv, ScreenTypes
<1>5. /\ retired' = [fenced |-> fenced - signalled, plain |-> 0]
      /\ node' = IF found = 0 THEN "idle" ELSE "drawing"
      /\ free' = Screen!Max({0, found - 1})
  BY <1>1, <1>3, Zenon
<1>6. free' = IF 0 >= found - 1 THEN 0 ELSE found - 1
  <2>1. 0 \in Int /\ found - 1 \in Int
    BY <1>4
  <2> QED BY <1>5, <2>1, Extremes, Zenon
<1>7. /\ free' \in Nat
      /\ free' + (IF node' = "drawing" THEN 1 ELSE 0) = found
  BY <1>4, <1>5, <1>6
<1>8. ScreenTypes' /\ AbsenceInv'
  <2>1. retired' \in [fenced : Nat, plain : Nat]
    BY <1>4, <1>5
  <2>2. ScreenTypes'
    BY <1>2, <1>7, <2>1 DEF ScreenInv, ScreenTypes
  <2> QED BY <1>2, <2>2 DEF ScreenInv, AbsenceInv
<1>9. RoomInv' /\ ThreadInv' /\ ShownInv' /\ PresenterFollowsSettings'
  BY <1>2 DEF ScreenInv, RoomInv, Room, ThreadInv, Playing, ShownInv, PresenterFollowsSettings,
              Screen!PresenterFollowsSettings
<1>10. Screen!TypeOK'
  <2>1. Screen!Slots' = Screen!Slots
    <3>1. PICK n, k, d : /\ n = Len(s_submitted) /\ k = Screen!Kept(queue)
                         /\ d = IF node' = "drawing" THEN 1 ELSE 0
      BY Zenon
    <3>4. n \in Nat /\ k \in Nat
      BY <3>1, SlotsAreNumbers, Zenon
    <3>5. d \in Nat /\ free' + d = found
      BY <1>7, <3>1
    <3>2. Screen!Slots = free + n + k + fenced + plain + 0
      BY <1>2, <1>3, <3>1, Zenon DEF Screen!Slots
    <3>3. Screen!Slots' = free' + n + k + (fenced - signalled) + 0 + d
      <4>1. retired'.fenced = fenced - signalled /\ retired'.plain = 0
        BY <1>5
      <4>2. Screen!Kept(queue)' = k
        BY <1>2, <3>1 DEF Screen!Kept
      <4> QED BY <1>2, <3>1, <4>1, <4>2, Zenon DEF Screen!Slots
    <3> HIDE <3>1
    <3>6. found = free + plain + signalled /\ signalled \in Nat
      BY <1>3, <1>4
    <3>7. free' \in Nat /\ fenced \in Nat /\ plain \in Nat /\ free \in Nat
      BY <1>4, <1>7, Zenon
    <3>8. PICK e \in Nat : e = free' /\ e + d = free + plain + signalled
      BY <3>5, <3>6, <3>7, Zenon
    <3> HIDE <3>8
    <3>9. e + d = free + plain + signalled
      BY <3>8
    <3>10. signalled \in Nat /\ d \in Nat
      BY <3>5, <3>6
    <3>11. e + n + k + (fenced - signalled) + 0 + d = free + n + k + fenced + plain + 0
      BY <3>4, <3>7, <3>9, <3>10
    <3>12. free' = e
      BY <3>8
    <3> QED BY <3>2, <3>3, <3>11, <3>12, Zenon
  <2>2. node' \in {"idle", "drawing"}
    BY <1>5
  <2> QED BY <1>2, <2>1, <2>2 DEF ScreenInv, Screen!TypeOK
<1> QED BY <1>8, <1>9, <1>10 DEF ScreenInv

LEMMA SubmitKeeps == ASSUME ScreenInv, Screen!Submit PROVE ScreenInv'
<1>1. PICK f : f = [target |-> program] /\ s_submitted' = Append(s_submitted, f)
  BY DEF Screen!Submit
<1>2. /\ node = "drawing" /\ node' = "idle"
      /\ thread' = IF thread = "blocked" THEN "testing" ELSE thread
      /\ UNCHANGED <<s_now, program, settings, presenter, stopping, running, free, retired,
                     queue, observed, swap, next_swap, s_shown>>
  BY DEF Screen!Submit, Screen!thread_vars
<1>3. f \in Targets /\ f.target = program /\ program \in Int /\ s_submitted \in Seq(Targets)
  BY <1>1 DEF ScreenInv, ScreenTypes, Targets
<1>4. /\ s_submitted' \in Seq(Targets) /\ Len(s_submitted') = Len(s_submitted) + 1
      /\ Len(s_submitted) \in Nat
      /\ \A i \in DOMAIN s_submitted' : s_submitted'[i] = f \/ (i \in DOMAIN s_submitted /\ s_submitted'[i] = s_submitted[i])
  BY <1>1, <1>3
<1> HIDE <1>1
<1>5. ScreenTypes' /\ AbsenceInv'
  BY <1>2, <1>4 DEF ScreenInv, ScreenTypes, AbsenceInv
<1>6. RoomInv' /\ ThreadInv' /\ PresenterFollowsSettings'
  BY <1>2 DEF ScreenInv, RoomInv, Room, ThreadInv, Playing, PresenterFollowsSettings,
              Screen!PresenterFollowsSettings
<1>7. ShownInv'
  BY <1>2, <1>3, <1>4 DEF ScreenInv, ShownInv
<1>8. Screen!TypeOK'
  <2>1. Screen!Slots' = Screen!Slots
    <3>1. PICK n, k, fenced, plain : /\ n = Len(s_submitted) /\ k = Screen!Kept(queue)
                                     /\ fenced = retired.fenced /\ plain = retired.plain
      BY Zenon
    <3>4. n \in Nat /\ k \in Nat /\ fenced \in Nat /\ plain \in Nat /\ free \in Nat
      BY <3>1, SlotsAreNumbers, Zenon
    <3>2. Screen!Slots = free + n + k + fenced + plain + 1
      BY <1>2, <3>1, Zenon DEF Screen!Slots
    <3>3. Screen!Slots' = free + (n + 1) + k + fenced + plain + 0
      <4>1. Screen!Kept(queue)' = k /\ Len(s_submitted') = n + 1
        BY <1>2, <1>4, <3>1 DEF Screen!Kept
      <4>2. node' # "drawing"
        BY <1>2
      <4> QED BY <1>2, <3>1, <4>1, <4>2, Zenon DEF Screen!Slots
    <3> HIDE <3>1
    <3> QED BY <3>2, <3>3, <3>4
  <2> QED BY <1>2, <2>1 DEF ScreenInv, Screen!TypeOK
<1> QED BY <1>5, <1>6, <1>7, <1>8 DEF ScreenInv

LEMMA AbandonKeeps == ASSUME ScreenInv, Screen!Abandon PROVE ScreenInv'
<1>1. /\ node = "drawing" /\ node' = "idle" /\ free' = free + 1
      /\ UNCHANGED <<s_now, program, settings, presenter, stopping, running, s_submitted, retired,
                     thread, queue, observed, swap, next_swap, s_shown>>
  BY DEF Screen!Abandon, Screen!thread_vars
<1>2. ScreenTypes' /\ AbsenceInv'
  BY <1>1 DEF ScreenInv, ScreenTypes, AbsenceInv
<1>3. RoomInv' /\ ThreadInv' /\ ShownInv' /\ PresenterFollowsSettings'
  BY <1>1 DEF ScreenInv, RoomInv, Room, ThreadInv, Playing, ShownInv, PresenterFollowsSettings,
              Screen!PresenterFollowsSettings
<1>4. Screen!TypeOK'
  <2>1. Screen!Slots' = Screen!Slots
    <3>1. PICK n, k, fenced, plain : /\ n = Len(s_submitted) /\ k = Screen!Kept(queue)
                                     /\ fenced = retired.fenced /\ plain = retired.plain
      BY Zenon
    <3>4. n \in Nat /\ k \in Nat /\ fenced \in Nat /\ plain \in Nat /\ free \in Nat
      BY <3>1, SlotsAreNumbers, Zenon
    <3>2. Screen!Slots = free + n + k + fenced + plain + 1
      BY <1>1, <3>1, Zenon DEF Screen!Slots
    <3>3. Screen!Slots' = (free + 1) + n + k + fenced + plain + 0
      <4>1. Screen!Kept(queue)' = k
        BY <1>1, <3>1 DEF Screen!Kept
      <4>2. node' # "drawing"
        BY <1>1
      <4> QED BY <1>1, <3>1, <4>1, <4>2, Zenon DEF Screen!Slots
    <3> HIDE <3>1
    <3> QED BY <3>2, <3>3, <3>4
  <2> QED BY <1>1, <2>1 DEF ScreenInv, Screen!TypeOK
<1> QED BY <1>2, <1>3, <1>4 DEF ScreenInv

LEMMA RemoveKeeps == ASSUME ScreenInv, Screen!RemoveNode \/ Screen!Joined PROVE ScreenInv'
<1>1. CASE Screen!RemoveNode
  <2>1. /\ node = "idle" /\ presenter # None /\ node' = "removing" /\ running' = FALSE
        /\ thread' = IF thread = "blocked" THEN "testing" ELSE thread
        /\ UNCHANGED <<s_now, program, settings, presenter, stopping, free, s_submitted, retired,
                       queue, observed, swap, next_swap, s_shown>>
    BY <1>1 DEF Screen!RemoveNode, Screen!RequestStop, Screen!slot_vars, Screen!thread_vars
  <2>2. /\ program \in Int /\ program <= program /\ settings \in Screen!Settings
        /\ stopping \in BOOLEAN /\ PresenterFollowsSettings
    BY DEF ScreenInv, ScreenTypes, Screen!TypeOK
  <2>3. PresenterFollowsSettings'
    BY <2>1, <2>2 DEF PresenterFollowsSettings, Screen!PresenterFollowsSettings
  <2>4. thread' = thread \/ (thread = "blocked" /\ thread' = "testing")
    BY <2>1
  <2> QED BY <2>1, <2>2, <2>3, <2>4, FramesStay
<1>2. CASE Screen!Joined
  <2>1. /\ node' = "removed" /\ Screen!NoPresenter
        /\ UNCHANGED <<s_now, program, settings, s_shown>>
    BY <1>2 DEF Screen!Joined
  <2>2. program \in Int /\ program <= program /\ settings \in Screen!Settings
    BY DEF ScreenInv, ScreenTypes, Screen!TypeOK
  <2> QED BY <2>1, <2>2, AbsenceKeeps
<1> QED BY <1>1, <1>2

-----------------------------------------------------------------------------
(* Its presenter. *)

\* What the thread has collected.
LEMMA CollectedKeeps ==
    ASSUME ScreenInv, presenter # None, NEW q, q = Screen!Collected
    PROVE  /\ Queue(q, Targets, Room) /\ q.current = queue.current
           /\ Screen!Kept(q) \in Nat /\ Screen!Kept(q) <= Screen!Kept(queue) + Len(s_submitted)
           /\ \A i \in DOMAIN q.frames : s_shown <= q.frames[i].target /\ q.frames[i].target <= program
<1>1. /\ Queue(queue, Targets, Room) /\ Room \in Nat /\ s_submitted \in Seq(Targets)
  BY RoomIsNumber DEF ScreenInv, RoomInv, ScreenTypes
<1>2. q = Pacing!PushAll(queue, s_submitted, Room)
  <2>1. Room = Screen!QueueCapacity(presenter.buffer)
    BY DEF Room
  <2> QED BY <2>1, SameQueue, Zenon DEF Screen!Collected
<1>3. Queue(q, Targets, Room) /\ q.current = queue.current /\ Gains(q.frames, queue.frames, s_submitted)
  BY <1>1, <1>2, TargetsAreTimed, PushAllKeeps, Zenon
<1>4. \A i \in DOMAIN q.frames : s_shown <= q.frames[i].target /\ q.frames[i].target <= program
  BY <1>3 DEF ScreenInv, ShownInv, Gains
<1>5. Screen!Kept(q) \in Nat /\ Screen!Kept(q) <= Screen!Kept(queue) + Len(s_submitted)
  <2>1. /\ Screen!Kept(q) \in Nat /\ Len(q.frames) \in Nat
        /\ Screen!Kept(q) = Len(q.frames) + IF q.current = None THEN 0 ELSE 1
        /\ Len(queue.frames) \in Nat
        /\ Screen!Kept(queue) = Len(queue.frames) + IF queue.current = None THEN 0 ELSE 1
    BY <1>1, <1>3, KeptIsNumber, Zenon
  <2>2. PICK a, b, n, d : /\ a = Len(q.frames) /\ b = Len(queue.frames) /\ n = Len(s_submitted)
                          /\ d = IF queue.current = None THEN 0 ELSE 1
    BY Zenon
  <2>3. a <= b + n
    BY <1>3, <2>2, Zenon DEF Gains
  <2>4. d \in Nat
    BY <2>2
  <2>5. Screen!Kept(q) = a + d /\ Screen!Kept(queue) = b + d /\ a \in Nat /\ b \in Nat /\ n \in Nat
    BY <1>3, <2>1, <2>2, SlotsAreNumbers, Zenon
  <2> HIDE <2>2
  <2>6. a + d <= b + d + n
    BY <2>3, <2>4, <2>5
  <2> QED BY <2>1, <2>2, <2>5, <2>6, Zenon
<1> QED BY <1>3, <1>4, <1>5

\* A frame is chosen from what the thread has.
LEMMA ChosenKeeps ==
    ASSUME ScreenInv, presenter # None, NEW q, Queue(q, Targets, Room),
           q.current = queue.current,
           \A i \in DOMAIN q.frames : s_shown <= q.frames[i].target /\ q.frames[i].target <= program,
           NEW t \in Int, NEW chosen, chosen = Screen!Select(q, t, Duration \div 2),
           NEW fenced, fenced = (IF queue.current \notin {None, chosen.current} THEN 1 ELSE 0),
           q.current # None \/ \E i \in DOMAIN q.frames : q.frames[i].target <= t + Duration \div 2
    PROVE  /\ Queue(chosen, Targets, Room) /\ chosen.current \in Targets
           /\ chosen.current = queue.current \/ \E i \in DOMAIN q.frames : chosen.current = q.frames[i]
           /\ s_shown <= chosen.current.target /\ chosen.current.target <= program
           /\ \A i \in DOMAIN chosen.frames :
                 /\ chosen.current.target <= chosen.frames[i].target
                 /\ \E j \in DOMAIN q.frames : chosen.frames[i] = q.frames[j]
           /\ fenced \in 0..1 /\ Screen!Kept(chosen) \in Nat
           /\ Screen!Kept(chosen) + fenced <= Screen!Kept(q)
<1>1. Room \in Nat /\ Duration \div 2 \in Int
  BY RoomIsNumber, ScreenConstants DEF ScreenInv
<1>2. PICK n : n = Pacing!Due(q, t, Duration \div 2)
  OBVIOUS
<1>3. chosen = Pacing!Select(q, t, Duration \div 2)
  BY SameQueue, Zenon
<1>4. /\ Queue(chosen, Targets, Room) /\ n \in 0..Len(q.frames)
      /\ n = 0 => chosen = q
      /\ n # 0 => /\ chosen.current \in Targets /\ chosen.current = q.frames[n]
                  /\ Len(chosen.frames) = Len(q.frames) - n
                  /\ \A i \in DOMAIN chosen.frames : chosen.frames[i] = q.frames[n + i]
      /\ \A i \in DOMAIN q.frames : q.frames[i].target <= t + Duration \div 2 => n # 0
  BY <1>1, <1>2, <1>3, TargetsAreTimed, SelectKeeps, SMTT(30)
<1>5. n \in Nat /\ n <= Len(q.frames) /\ Len(q.frames) \in Nat /\ q.frames \in Seq(Targets)
  BY <1>4 DEF Queue
<1>6. /\ chosen.current \in Targets
      /\ chosen.current = queue.current \/ \E i \in DOMAIN q.frames : chosen.current = q.frames[i]
      /\ s_shown <= chosen.current.target /\ chosen.current.target <= program
  <2>1. CASE n = 0
    <3>1. chosen = q /\ q.current # None
      BY <1>4, <2>1
    <3>2. chosen.current = queue.current /\ chosen.current \in Targets /\ chosen.current.target = s_shown
      BY <3>1 DEF Queue, ScreenInv, ShownInv
    <3>3. s_shown \in Int /\ s_shown <= program
      BY DEF ScreenInv, ScreenTypes, ShownInv
    <3> QED BY <3>2, <3>3
  <2>2. CASE n # 0
    <3>1. n \in DOMAIN q.frames
      BY <1>5, <2>2
    <3> QED BY <1>4, <2>2, <3>1
  <2> QED BY <2>1, <2>2
<1>7. ASSUME NEW i \in DOMAIN chosen.frames
      PROVE  /\ chosen.current.target <= chosen.frames[i].target
             /\ \E j \in DOMAIN q.frames : chosen.frames[i] = q.frames[j]
  <2>0. \E j \in DOMAIN q.frames : chosen.frames[i] = q.frames[j]
    <3>1. CASE n = 0
      BY <1>4, <3>1
    <3>2. CASE n # 0
      <4>1. chosen.frames \in Seq(Targets)
        BY <1>4 DEF Queue
      <4>2. Len(chosen.frames) = Len(q.frames) - n /\ chosen.frames[i] = q.frames[n + i]
        BY <1>4, <3>2
      <4>3. n + i \in DOMAIN q.frames
        BY <1>5, <4>1, <4>2
      <4> QED BY <4>2, <4>3
    <3> QED BY <3>1, <3>2
  <2>1. chosen.current # None
    BY <1>6, ScreenConstants
  <2>2. chosen.current.target < chosen.frames[i].target
    BY <1>4, <2>1, Zenon DEF Queue, After
  <2>3. chosen.frames[i] \in Targets
    BY <1>4 DEF Queue
  <2> QED BY <1>6, <2>0, <2>2, <2>3 DEF Targets
<1>8. fenced \in 0..1 /\ Screen!Kept(chosen) \in Nat /\ Screen!Kept(chosen) + fenced <= Screen!Kept(q)
  <2>1. /\ Screen!Kept(chosen) \in Nat /\ Screen!Kept(q) \in Nat
        /\ Screen!Kept(chosen) = Len(chosen.frames) + IF chosen.current = None THEN 0 ELSE 1
        /\ Screen!Kept(q) = Len(q.frames) + IF q.current = None THEN 0 ELSE 1
    BY <1>1, <1>4, KeptIsNumber, Zenon
  <2>2. PICK k, l, a, b : /\ k = Screen!Kept(chosen) /\ l = Screen!Kept(q)
                          /\ a = Len(chosen.frames) /\ b = Len(q.frames)
    BY Zenon
  <2>3. k \in Nat /\ l \in Nat /\ b \in Nat /\ n \in Nat
    BY <1>5, <2>1, <2>2, Zenon
  <2>4. fenced = 0 \/ (fenced = 1 /\ q.current # None)
    BY Zenon
  <2>5. CASE n = 0
    <3>1. chosen = q
      BY <1>4, <2>5, Zenon
    <3>2. queue.current \in {None, chosen.current}
      BY <3>1, Zenon
    <3>3. fenced = 0
      BY <3>2, Zenon
    <3>4. k = l
      BY <2>2, <3>1, Zenon
    <3>5. k + 0 <= l /\ 0 \in 0..1
      BY <2>3, <3>4
    <3> QED BY <2>1, <2>2, <3>3, <3>5, Zenon
  <2>6. CASE n # 0
    <3>1. chosen.current # None
      BY <1>6, ScreenConstants
    <3>2. k = a + 1
      BY <2>1, <2>2, <3>1, Zenon
    <3>3. a = b - n
      BY <1>4, <2>2, <2>6, Zenon
    <3>4. fenced = 1 => l = b + 1
      BY <2>1, <2>2, <2>4, Zenon
    <3>5. fenced = 0 => l = b + 1 \/ l = b + 0
      BY <2>1, <2>2, Zenon
    <3>6. \A e \in {0, 1} : (e = 1 => l = b + 1) /\ (e = 0 => l = b + 1 \/ l = b + 0) => k + e <= l
      BY <2>3, <2>6, <3>2, <3>3
    <3>7. fenced \in {0, 1} /\ fenced \in 0..1
      BY <2>4
    <3> QED BY <2>1, <2>2, <3>4, <3>5, <3>6, <3>7, Zenon
  <2> QED BY <2>5, <2>6
<1> QED BY <1>4, <1>6, <1>7, <1>8

\* A step of the thread that leaves the frames where they are.
LEMMA ThreadMoves ==
    ASSUME ScreenInv, Screen!ThreadOnly, presenter # None,
           UNCHANGED <<free, s_submitted, retired, queue, s_shown>>,
           thread' \in {"collecting", "testing", "tested", "blocked", "first", "looping",
                        "sleeping", "swapping", "finishing", "ended"},
           observed' \in Seq(Int), next_swap' \in Int, ThreadInv'
    PROVE  ScreenInv'
<1>1. UNCHANGED <<s_now, program, node, settings, presenter, stopping, running>>
  BY DEF Screen!ThreadOnly, Screen!node_vars
<1>2. ScreenTypes' /\ AbsenceInv'
  BY <1>1 DEF ScreenInv, ScreenTypes, AbsenceInv
<1>3. RoomInv' /\ ShownInv' /\ PresenterFollowsSettings'
  BY <1>1 DEF ScreenInv, RoomInv, Room, ShownInv, PresenterFollowsSettings,
              Screen!PresenterFollowsSettings
<1>4. Screen!TypeOK'
  <2>1. Screen!Slots' = Screen!Slots
    BY <1>1 DEF Screen!Slots
  <2> QED BY <1>1, <2>1 DEF ScreenInv, Screen!TypeOK
<1> QED BY <1>2, <1>3, <1>4 DEF ScreenInv

\* A step of the thread that moves slots between its queue and the retired ones.
LEMMA SlotsMove ==
    ASSUME ScreenInv, Screen!ThreadOnly, presenter # None, free' = free,
           NEW plain \in Nat, NEW fenced \in Nat, retired' = [fenced |-> fenced, plain |-> plain],
           s_submitted' = <<>> \/ s_submitted' = s_submitted,
           Queue(queue', Targets, Room), Screen!Kept(queue)' \in Nat,
           Screen!Kept(queue)' + Len(s_submitted') + fenced + plain
              = Screen!Kept(queue) + Len(s_submitted) + retired.fenced + retired.plain,
           thread' \in {"collecting", "testing", "first", "swapping", "finishing", "ended"},
           observed' \in Seq(Int), next_swap' \in Int, s_shown' \in Int, ThreadInv', ShownInv'
    PROVE  ScreenInv'
<1>1. UNCHANGED <<s_now, program, node, settings, presenter, stopping, running>>
  BY DEF Screen!ThreadOnly, Screen!node_vars
<1>2. ScreenTypes' /\ AbsenceInv'
  <2>0. <<>> \in Seq(Targets) /\ s_submitted \in Seq(Targets)
    BY DEF ScreenInv, ScreenTypes
  <2>1. s_submitted' \in Seq(Targets)
    BY <2>0, Zenon
  <2>2. retired' \in [fenced : Nat, plain : Nat]
    OBVIOUS
  <2>3. ScreenTypes'
    BY <1>1, <2>1, <2>2 DEF ScreenInv, ScreenTypes
  <2> QED BY <1>1, <2>3 DEF AbsenceInv
<1>3. RoomInv' /\ PresenterFollowsSettings'
  BY <1>1 DEF ScreenInv, RoomInv, Room, PresenterFollowsSettings, Screen!PresenterFollowsSettings
<1>4. Screen!TypeOK'
  <2>1. Screen!Slots' = Screen!Slots
    <3>1. PICK n, m, k, l, d : /\ n = Len(s_submitted) /\ m = Len(s_submitted') /\ k = Screen!Kept(queue)
                               /\ l = Screen!Kept(queue)' /\ d = IF node = "drawing" THEN 1 ELSE 0
      BY Zenon
    <3>2. n \in Nat /\ m \in Nat /\ k \in Nat /\ l \in Nat /\ d \in Nat
      <4>1. s_submitted' \in Seq(Targets)
        BY <1>2 DEF ScreenTypes
      <4>2. n \in Nat /\ k \in Nat /\ l \in Nat
        BY <3>1, SlotsAreNumbers, Zenon
      <4> QED BY <3>1, <4>1, <4>2
    <3>3. PICK x, y : x = retired.fenced /\ y = retired.plain
      OBVIOUS
    <3>4. x \in Nat /\ y \in Nat /\ free \in Nat
      BY <3>3, SlotsAreNumbers, Zenon
    <3>5. Screen!Slots = free + n + k + x + y + d
      BY <3>1, <3>3, Zenon DEF Screen!Slots
    <3>6. Screen!Slots' = free + m + l + fenced + plain + d
      <4>1. retired'.fenced = fenced /\ retired'.plain = plain
        OBVIOUS
      <4> QED BY <1>1, <3>1, <4>1, Zenon DEF Screen!Slots
    <3>7. l + m + fenced + plain = k + n + x + y
      BY <3>1, <3>3, Zenon
    <3>8. free + m + l + fenced + plain + d = free + n + k + x + y + d
      BY <3>2, <3>4, <3>7
    <3> QED BY <3>5, <3>6, <3>8, Zenon
  <2> QED BY <1>1, <2>1 DEF ScreenInv, Screen!TypeOK
<1> QED BY <1>2, <1>3, <1>4 DEF ScreenInv

LEMMA CollectKeeps == ASSUME ScreenInv, Screen!CollectPreroll PROVE ScreenInv'
<1>1. /\ thread = "collecting" /\ Screen!ThreadOnly /\ UNCHANGED <<free, observed, next_swap, s_shown>>
  BY DEF Screen!CollectPreroll
<1>2. presenter # None /\ observed' \in Seq(Int) /\ next_swap' \in Int /\ s_shown' \in Int
  BY <1>1 DEF ScreenInv, AbsenceInv, ScreenTypes
<1>3. CASE ~running
  <2>1. thread' = "first" /\ UNCHANGED <<queue, s_submitted, retired>>
    BY <1>3 DEF Screen!CollectPreroll
  <2>2. ThreadInv'
    BY <2>1 DEF ThreadInv, Playing
  <2> QED BY <1>1, <1>2, <2>1, <2>2, ThreadMoves
<1>4. CASE running
  <2>1. PICK q, fenced, plain : /\ q = Screen!Collected /\ fenced = retired.fenced
             /\ plain = retired.plain + Screen!Kept(queue) + Len(s_submitted) - Screen!Kept(q)
    BY Zenon
  <2>2. /\ s_submitted' = <<>> /\ queue' = q /\ thread' \in {"first", "testing"}
        /\ retired' = [retired EXCEPT !.plain = retired.plain + Screen!Kept(queue) + Len(s_submitted) - Screen!Kept(q)]
    BY <1>4, <2>1 DEF Screen!CollectPreroll, Screen!CollectsInto
  <2>3. /\ Queue(q, Targets, Room) /\ q.current = queue.current
        /\ Screen!Kept(q) \in Nat /\ Screen!Kept(q) <= Screen!Kept(queue) + Len(s_submitted)
        /\ \A i \in DOMAIN q.frames : s_shown <= q.frames[i].target /\ q.frames[i].target <= program
    BY <1>2, <2>1, CollectedKeeps, Zenon
  <2>4. retired' = [fenced |-> fenced, plain |-> plain]
    <3>1. retired' = [retired EXCEPT !.plain = plain]
      BY <2>1, <2>2, Zenon
    <3>2. retired = [fenced |-> retired.fenced, plain |-> retired.plain]
      BY SlotsAreNumbers, Zenon
    <3>3. fenced = retired.fenced
      BY <2>1
    <3> HIDE <2>1
    <3> QED BY <3>1, <3>2, <3>3
  <2>5. /\ fenced \in Nat /\ plain \in Nat
        /\ Screen!Kept(queue)' \in Nat
        /\ Screen!Kept(queue)' + Len(s_submitted') + fenced + plain
              = Screen!Kept(queue) + Len(s_submitted) + retired.fenced + retired.plain
    <3>1. PICK k, l, n, x : /\ k = Screen!Kept(queue) /\ l = Screen!Kept(q) /\ n = Len(s_submitted)
                            /\ x = retired.plain
      BY Zenon
    <3>2. k \in Nat /\ l \in Nat /\ n \in Nat /\ x \in Nat /\ fenced \in Nat /\ l <= k + n
      BY <2>1, <2>3, <3>1, SlotsAreNumbers, Zenon
    <3>3. plain = x + k + n - l
      BY <2>1, <3>1, Zenon
    <3>4. plain \in Nat /\ l + 0 + fenced + plain = k + n + fenced + x
      BY <3>2, <3>3
    <3>5. Screen!Kept(queue)' = l
      BY <2>2, <3>1 DEF Screen!Kept
    <3>6. Len(s_submitted') = 0
      BY <2>2
    <3> QED BY <2>1, <3>1, <3>2, <3>4, <3>5, <3>6, Zenon
  <2>6. ThreadInv'
    BY <2>2 DEF ThreadInv, Playing
  <2>7. ShownInv'
    <3>1. program' = program
      BY <1>1 DEF Screen!ThreadOnly, Screen!node_vars
    <3> QED BY <1>1, <2>2, <2>3, <3>1 DEF ScreenInv, ShownInv
  <2>8. Queue(queue', Targets, Room)
    BY <2>2, <2>3, Zenon
  <2>9. thread' \in {"collecting", "testing", "first", "swapping", "finishing", "ended"}
    BY <2>2
  <2> QED BY <1>1, <1>2, <2>2, <2>4, <2>5, <2>6, <2>7, <2>8, <2>9, SlotsMove
<1> QED BY <1>3, <1>4

LEMMA WaitKeeps ==
    ASSUME ScreenInv, Screen!TestPreroll \/ Screen!Block \/ Screen!Loop
    PROVE  ScreenInv'
<1>1. /\ thread \in {"testing", "tested", "looping"} /\ Screen!ThreadOnly
      /\ UNCHANGED <<free, s_submitted, retired, queue, observed, swap, next_swap, s_shown>>
      /\ thread' \in {"collecting", "tested", "blocked", "sleeping", "finishing"}
      /\ thread' = "sleeping" => thread = "looping"
  BY DEF Screen!TestPreroll, Screen!Block, Screen!Loop, Screen!slot_vars, Screen!thread_vars
<1>2. presenter # None /\ observed' \in Seq(Int) /\ next_swap' \in Int
  BY <1>1 DEF ScreenInv, AbsenceInv, ScreenTypes
<1>3. ThreadInv'
  BY <1>1 DEF ScreenInv, ThreadInv, Playing
<1> QED BY <1>1, <1>2, <1>3, ThreadMoves

\* The frame chosen is shown.
LEMMA ShowsKeeps ==
    ASSUME ScreenInv, Screen!ThreadOnly, presenter # None, UNCHANGED <<free, next_swap>>,
           NEW q, Queue(q, Targets, Room), q.current = queue.current,
           \A i \in DOMAIN q.frames : s_shown <= q.frames[i].target /\ q.frames[i].target <= program,
           NEW arrived \in Nat, Screen!Kept(q) \in Nat, Screen!Kept(q) <= Screen!Kept(queue) + arrived,
           NEW t \in Int, NEW chosen, chosen = Screen!Select(q, t, Duration \div 2),
           q.current # None \/ \E i \in DOMAIN q.frames : q.frames[i].target <= t + Duration \div 2,
           NEW first \in BOOLEAN, NEW observes \in Int \cup {None},
           Screen!Shows(chosen, arrived, first, observes),
           \/ s_submitted' = <<>> /\ arrived = Len(s_submitted)
           \/ s_submitted' = s_submitted /\ arrived = 0 /\ q = queue,
           observed' \in Seq(Int), observed' = <<>> => observes # None,
           ~first => next_swap <= s_now
    PROVE  ScreenInv' /\ s_shown' >= s_shown
<1>1. PICK fenced : fenced = (IF queue.current \notin {None, chosen.current} THEN 1 ELSE 0)
  OBVIOUS
<1>2. PICK x, y : /\ x = retired.fenced + fenced
                  /\ y = retired.plain + Screen!Kept(queue) + arrived - Screen!Kept(chosen) - fenced
  BY Zenon
<1>3. /\ queue' = chosen /\ s_shown' = chosen.current.target
      /\ swap' = [first |-> first, observes |-> observes]
      /\ retired' = [fenced |-> x, plain |-> y]
      /\ thread' = "swapping"
  BY <1>1, <1>2, Zenon DEF Screen!Shows
<1>4. /\ Queue(chosen, Targets, Room) /\ chosen.current \in Targets
      /\ chosen.current = queue.current \/ \E i \in DOMAIN q.frames : chosen.current = q.frames[i]
      /\ s_shown <= chosen.current.target /\ chosen.current.target <= program
      /\ \A i \in DOMAIN chosen.frames :
            /\ chosen.current.target <= chosen.frames[i].target
            /\ \E j \in DOMAIN q.frames : chosen.frames[i] = q.frames[j]
      /\ fenced \in 0..1 /\ Screen!Kept(chosen) \in Nat
      /\ Screen!Kept(chosen) + fenced <= Screen!Kept(q)
  BY <1>1, ChosenKeeps, SMTT(30)
<1>5. /\ x \in Nat /\ y \in Nat /\ Screen!Kept(queue)' \in Nat
      /\ Screen!Kept(queue)' + Len(s_submitted') + x + y
            = Screen!Kept(queue) + Len(s_submitted) + retired.fenced + retired.plain
  <2>1. PICK k, l, m, n, o, f, p : /\ k = Screen!Kept(queue) /\ l = Screen!Kept(chosen)
            /\ m = Screen!Kept(q) /\ n = Len(s_submitted) /\ o = Len(s_submitted')
            /\ f = retired.fenced /\ p = retired.plain
    BY Zenon
  <2>2. /\ k \in Nat /\ l \in Nat /\ m \in Nat /\ n \in Nat /\ f \in Nat /\ p \in Nat
        /\ m <= k + arrived /\ l + fenced <= m
    BY <1>4, <2>1, SlotsAreNumbers, Zenon
  <2>3. o + arrived = n
    <3>1. CASE s_submitted' = <<>> /\ arrived = Len(s_submitted)
      <4>1. o = 0
        BY <2>1, <3>1
      <4>2. 0 + n = n
        BY <2>2
      <4>3. arrived = n
        BY <2>1, <3>1, Zenon
      <4> QED BY <4>1, <4>2, <4>3, Zenon
    <3>2. CASE s_submitted' = s_submitted /\ arrived = 0
      <4>1. o = n
        BY <2>1, <3>2, Zenon
      <4>2. n + 0 = n
        BY <2>2
      <4> QED BY <3>2, <4>1, <4>2, Zenon
    <3> QED BY <3>1, <3>2
  <2>4. o \in Nat
    <3>1. o = 0 \/ o = n
      BY <2>1
    <3> QED BY <2>2, <3>1
  <2>5. x = f + fenced /\ y = p + k + arrived - l - fenced /\ fenced \in 0..1
    BY <1>2, <1>4, <2>1, Zenon
  <2>6. x \in Nat /\ y \in Nat /\ l + o + x + y = k + n + f + p
    BY <2>2, <2>3, <2>4, <2>5
  <2>7. Screen!Kept(queue)' = l
    BY <1>3, <2>1 DEF Screen!Kept
  <2> QED BY <2>1, <2>2, <2>6, <2>7, Zenon
<1>6. ThreadInv'
  <2>1. queue'.current # None
    BY <1>3, <1>4, ScreenConstants
  <2>2. UNCHANGED <<s_now, next_swap>>
    BY DEF Screen!ThreadOnly
  <2>3. swap' \in [first : BOOLEAN, observes : Int \cup {None}]
    BY <1>3
  <2>4. swap'.first = first /\ swap'.observes = observes
    BY <1>3
  <2> QED BY <1>3, <2>1, <2>2, <2>3, <2>4, Zenon DEF ThreadInv, Playing
<1>7. ShownInv'
  <2>1. program' = program
    BY DEF Screen!ThreadOnly, Screen!node_vars
  <2>2. \A j \in DOMAIN s_submitted' : s_submitted'[j].target <= program
    BY DEF ScreenInv, ShownInv
  <2>3. ASSUME NEW j \in DOMAIN s_submitted'
        PROVE  /\ chosen.current.target <= s_submitted'[j].target
               /\ \A i \in DOMAIN chosen.frames : chosen.frames[i].target <= s_submitted'[j].target
    <3>1. s_submitted' = s_submitted /\ q = queue
      BY <2>3
    <3>2. \A i \in DOMAIN queue.frames : queue.frames[i].target <= s_submitted[j].target
      BY <2>3, <3>1 DEF ScreenInv, ShownInv
    <3>3. s_shown <= s_submitted[j].target /\ (queue.current # None => queue.current.target = s_shown)
      BY <2>3, <3>1 DEF ScreenInv, ShownInv
    <3>4. chosen.current # None
      BY <1>4, ScreenConstants
    <3>5. chosen.current.target <= s_submitted[j].target
      <4>1. CASE chosen.current = queue.current
        BY <3>3, <3>4, <4>1
      <4>2. CASE \E i \in DOMAIN q.frames : chosen.current = q.frames[i]
        BY <3>1, <3>2, <4>2
      <4> QED BY <1>4, <4>1, <4>2, Zenon
    <3>6. ASSUME NEW i \in DOMAIN chosen.frames PROVE chosen.frames[i].target <= s_submitted[j].target
      <4>1. PICK k \in DOMAIN q.frames : chosen.frames[i] = q.frames[k]
        BY <1>4, Zenon
      <4> QED BY <3>1, <3>2, <4>1
    <3> QED BY <3>1, <3>5, <3>6
  <2>4. \A i \in DOMAIN chosen.frames :
           chosen.current.target <= chosen.frames[i].target /\ chosen.frames[i].target <= program
    BY <1>4, Zenon
  <2> QED BY <1>3, <1>4, <2>1, <2>2, <2>3, <2>4, Zenon DEF ShownInv
<1>8. s_shown' >= s_shown /\ s_shown' \in Int
  <2>1. chosen.current.target \in Int /\ s_shown \in Int
    BY <1>4 DEF Targets, ScreenInv, ScreenTypes
  <2> QED BY <1>3, <1>4, <2>1
<1>9. next_swap' \in Int
  BY DEF ScreenInv, ScreenTypes
<1>10. Queue(queue', Targets, Room)
  BY <1>3, <1>4, Zenon
<1>11. thread' \in {"collecting", "testing", "first", "swapping", "finishing", "ended"}
  BY <1>3
<1>12. s_submitted' = <<>> \/ s_submitted' = s_submitted
  OBVIOUS
<1> QED BY <1>3, <1>5, <1>6, <1>7, <1>8, <1>9, <1>10, <1>11, <1>12, SlotsMove

LEMMA PresentKeeps ==
    ASSUME ScreenInv, Screen!PresentPreroll
    PROVE  ScreenInv' /\ s_shown' >= s_shown
<1>1. /\ thread = "first" /\ Screen!ThreadOnly
      /\ UNCHANGED <<free, s_submitted, observed, next_swap>>
  BY DEF Screen!PresentPreroll
<1>2. presenter # None /\ observed' \in Seq(Int) /\ next_swap' \in Int /\ s_shown \in Int
  BY <1>1 DEF ScreenInv, AbsenceInv, ScreenTypes
<1>3. CASE ~running \/ queue.frames = <<>>
  <2>1. thread' = "finishing" /\ UNCHANGED <<retired, queue, swap, s_shown>>
    BY <1>3 DEF Screen!PresentPreroll
  <2>2. ThreadInv'
    BY <2>1 DEF ThreadInv, Playing
  <2>3. ScreenInv'
    BY <1>1, <1>2, <2>1, <2>2, ThreadMoves
  <2> QED BY <1>2, <2>1, <2>3
<1>4. CASE ~(~running \/ queue.frames = <<>>)
  <2>1. PICK oldest, chosen : /\ oldest = queue.frames[1].target
                              /\ chosen = Screen!Select(queue, oldest, Duration \div 2)
    BY Zenon
  <2>2. Screen!Shows(chosen, 0, TRUE, oldest)
    BY <1>4, <2>1, Zenon DEF Screen!PresentPreroll
  <2>3. /\ Queue(queue, Targets, Room)
        /\ \A i \in DOMAIN queue.frames : s_shown <= queue.frames[i].target /\ queue.frames[i].target <= program
    BY DEF ScreenInv, RoomInv, ShownInv
  <2>4. 1 \in DOMAIN queue.frames /\ oldest \in Int
    <3>1. queue.frames \in Seq(Targets)
      BY <2>3 DEF Queue
    <3>2. 1 \in DOMAIN queue.frames
      BY <1>4, <3>1
    <3>3. queue.frames[1] \in Targets
      BY <3>1, <3>2
    <3> QED BY <2>1, <3>2, <3>3, TargetsAreTimed DEF Timed
  <2>5. \E i \in DOMAIN queue.frames : queue.frames[i].target <= oldest + Duration \div 2
    <3>1. oldest <= oldest + Duration \div 2
      BY <2>4, ScreenConstants
    <3> QED BY <2>1, <2>4, <3>1, Zenon
  <2>6. Screen!Kept(queue) \in Nat /\ Screen!Kept(queue) <= Screen!Kept(queue) + 0 /\ 0 \in Nat
    BY SlotsAreNumbers
  <2>7. oldest \in Int \cup {None} /\ oldest # None /\ TRUE \in BOOLEAN
    BY <2>4, ScreenConstants
  <2> QED BY <1>1, <1>2, <2>1, <2>2, <2>3, <2>4, <2>5, <2>6, <2>7, ShowsKeeps
<1> QED BY <1>3, <1>4

LEMMA SelectFrameKeeps ==
    ASSUME ScreenInv, Screen!SelectFrame
    PROVE  ScreenInv' /\ s_shown' >= s_shown
<1> DEFINE q      == Screen!Collected
           stalls == /\ Len(q.frames) = Screen!QueueCapacity(presenter.buffer)
                     /\ q.frames[1].target > Screen!ProgramTarget(observed, next_swap) + Duration \div 2
           target == Screen!ProgramTarget(observed', next_swap)
           chosen == Screen!Select(q, target, Duration \div 2)
           observes == IF chosen.current = queue.current THEN None ELSE chosen.current.target
<1>1. /\ thread = "sleeping" /\ Screen!ThreadOnly /\ UNCHANGED <<free, next_swap>> /\ s_submitted' = <<>>
      /\ observed' = IF stalls THEN Screen!Observe(observed, next_swap - q.frames[1].target)
                               ELSE observed
      /\ Screen!Shows(chosen, Len(s_submitted), FALSE, observes)
  BY Zenon DEF Screen!SelectFrame
<1>2. presenter # None /\ observed \in Seq(Int) \ {<<>>} /\ next_swap \in Int /\ queue.current # None
  BY <1>1 DEF ScreenInv, AbsenceInv, ScreenTypes, ThreadInv, Playing
<1>3. /\ Queue(q, Targets, Room) /\ q.current = queue.current
      /\ Screen!Kept(q) \in Nat /\ Screen!Kept(q) <= Screen!Kept(queue) + Len(s_submitted)
      /\ \A i \in DOMAIN q.frames : s_shown <= q.frames[i].target /\ q.frames[i].target <= program
  BY <1>2, CollectedKeeps, Zenon
<1> HIDE DEF q
<1>4. observed' \in Seq(Int) \ {<<>>}
  <2>1. CASE stalls
    <3>1. Len(q.frames) = Room /\ Room \in Nat \ {0}
      BY <1>2, <2>1, RoomIsNumber, ScreenConstants DEF ScreenInv, Screen!QueueCapacity
    <3>2. q.frames \in Seq(Targets)
      BY <1>3 DEF Queue
    <3>3. q.frames[1] \in Targets
      BY <3>1, <3>2
    <3>4. next_swap - q.frames[1].target \in Int
      BY <1>2, <3>3, TargetsAreTimed DEF Timed
    <3>5. observed' = Pacing!Observe(observed, next_swap - q.frames[1].target)
      BY <1>1, <2>1, SameQueue, Zenon
    <3> QED BY <1>2, <3>4, <3>5, ObserveKeeps, TimedAssumption
  <2>2. CASE ~stalls
    BY <1>1, <1>2, <2>2
  <2> QED BY <2>1, <2>2
<1>5. target \in Int
  <2>1. target = Pacing!ProgramTarget(observed', next_swap)
    BY SameQueue, Zenon
  <2>2. observed' \in Seq(Int) /\ observed' # <<>>
    BY <1>4
  <2> HIDE DEF target
  <2> QED BY <1>2, <2>1, <2>2, TargetIsInt, Zenon
<1>6. Len(s_submitted) \in Nat
  BY SlotsAreNumbers
<1>7. q.current # None
  BY <1>2, <1>3
<1>8. observes \in Int \cup {None}
  <2>1. PICK d : d = Duration \div 2
    OBVIOUS
  <2>2. Room \in Nat /\ d \in Int
    BY <2>1, RoomIsNumber, ScreenConstants DEF ScreenInv
  <2>3. PICK p : p = chosen
    OBVIOUS
  <2>4. p = Pacing!Select(q, target, d)
    BY <2>1, <2>3, SameQueue, Zenon
  <2> HIDE DEF target
  <2>5. PICK n : n = Pacing!Due(q, target, d)
    OBVIOUS
  <2>6. (n = 0 => p = q) /\ (n # 0 => p.current \in Targets)
    BY <1>3, <1>5, <2>2, <2>4, <2>5, TargetsAreTimed, SelectKeeps
  <2>8. p.current = queue.current \/ p.current \in Targets
    BY <1>3, <2>6, Zenon
  <2>9. p.current \in Targets => p.current.target \in Int
    BY TargetsAreTimed DEF Timed
  <2> QED BY <2>3, <2>8, <2>9
<1>9. FALSE \in BOOLEAN /\ observed' \in Seq(Int) /\ observed' # <<>>
  BY <1>4
<1> HIDE DEF target, observes
<1>10. PICK n : n = Len(s_submitted)
  OBVIOUS
<1>11. PICK p, o : p = Screen!Select(q, target, Duration \div 2) /\ o = observes
  OBVIOUS
<1>12. Screen!Shows(p, n, FALSE, o) /\ n \in Nat /\ Screen!Kept(q) <= Screen!Kept(queue) + n
       /\ o \in Int \cup {None}
  BY <1>1, <1>3, <1>6, <1>8, <1>10, <1>11, Zenon
<1>13. next_swap <= s_now
  <2>1. s_now >= next_swap /\ s_now \in Int
    BY DEF Screen!SelectFrame, ScreenInv, ScreenTypes
  <2> QED BY <1>2, <2>1
<1> QED BY <1>1, <1>2, <1>3, <1>5, <1>7, <1>9, <1>10, <1>11, <1>12, <1>13, ShowsKeeps

LEMMA SwappedKeeps == ASSUME ScreenInv, Screen!Swapped PROVE ScreenInv'
<1>1. /\ thread = "swapping" /\ Screen!ThreadOnly /\ thread' = "looping" /\ swap' = None
      /\ observed' = IF swap.observes = None THEN observed
                                             ELSE Screen!Observe(observed, s_now - swap.observes)
      /\ next_swap' = IF swap.first THEN s_now + Duration
                      ELSE next_swap + Duration * Screen!IntervalCount(s_now)
      /\ UNCHANGED <<free, s_submitted, retired, queue, s_shown>>
  BY Zenon DEF Screen!Swapped, Screen!slot_vars
<1>2. presenter # None /\ observed \in Seq(Int) /\ next_swap \in Int /\ s_now \in Int
  BY <1>1 DEF ScreenInv, AbsenceInv, ScreenTypes
<1>3. /\ swap \in [first : BOOLEAN, observes : Int \cup {None}] /\ queue.current # None
      /\ observed = <<>> => swap.observes # None
  BY <1>1 DEF ScreenInv, ThreadInv, Playing
<1>4. observed' \in Seq(Int) \ {<<>>}
  <2>1. CASE swap.observes = None
    BY <1>1, <1>2, <1>3, <2>1
  <2>2. CASE swap.observes # None
    <3>1. PICK o : o = s_now - swap.observes
      OBVIOUS
    <3>2. o \in Int
      BY <1>2, <1>3, <2>2, <3>1
    <3>3. observed' = Pacing!Observe(observed, o)
      BY <1>1, <2>2, <3>1, SameQueue, Zenon
    <3> QED BY <1>2, <3>2, <3>3, ObserveKeeps, TimedAssumption, Zenon
  <2> QED BY <2>1, <2>2
<1>5. Screen!IntervalCount(s_now) \in Int
  <2>1. PICK k : k = 1 + ((s_now - next_swap + Duration \div 2) \div Duration)
    OBVIOUS
  <2>2. k \in Int
    BY <1>2, <2>1, ScreenConstants
  <2>3. Screen!IntervalCount(s_now) = Screen!Max({1, k})
    BY <2>1, Zenon DEF Screen!IntervalCount
  <2>4. Screen!Max({1, k}) = IF 1 >= k THEN 1 ELSE k
    BY <2>2, Extremes
  <2> QED BY <2>2, <2>3, <2>4
<1>6. next_swap' \in Int
  <2>1. PICK k \in Int : k = Screen!IntervalCount(s_now)
    BY <1>5
  <2>2. s_now + Duration \in Int /\ next_swap + Duration * k \in Int
    BY <1>2, ScreenConstants
  <2> QED BY <1>1, <2>1, <2>2, Zenon
<1>7. ThreadInv'
  BY <1>1, <1>3, <1>4 DEF ThreadInv, Playing
<1>8. observed' \in Seq(Int)
  BY <1>4
<1>9. thread' \in {"collecting", "testing", "tested", "blocked", "first", "looping",
                   "sleeping", "swapping", "finishing", "ended"}
  BY <1>1
<1> QED BY <1>1, <1>2, <1>6, <1>7, <1>8, <1>9, ThreadMoves

LEMMA FinishKeeps == ASSUME ScreenInv, Screen!Finish PROVE ScreenInv'
<1>1. PICK lost, x, y : /\ lost = (IF queue.current = None THEN 0 ELSE 1)
             /\ x = retired.fenced + lost /\ y = retired.plain + Len(s_submitted) + Len(queue.frames)
  BY Zenon
<1>2. /\ thread = "finishing" /\ Screen!ThreadOnly
      /\ thread' = "ended" /\ queue' = Screen!EmptyQueue /\ s_submitted' = <<>>
      /\ retired' = [fenced |-> x, plain |-> y]
      /\ UNCHANGED <<free, observed, next_swap, s_shown>>
  BY <1>1, Zenon DEF Screen!Finish
<1>3. /\ presenter # None /\ observed' \in Seq(Int) /\ next_swap' \in Int
      /\ s_shown' \in Int /\ program \in Int /\ s_shown <= program
  BY <1>2 DEF ScreenInv, AbsenceInv, ScreenTypes, ShownInv
<1>4. Queue(queue', Targets, Room) /\ Screen!Kept(queue)' = 0
  <2>1. Room \in Nat
    BY RoomIsNumber DEF ScreenInv
  <2>2. Queue(Screen!EmptyQueue, Targets, Room) /\ Screen!Kept(Screen!EmptyQueue) = 0
    BY <2>1, EmptyIsQueue, Zenon
  <2>3. Screen!Kept(queue)' = Screen!Kept(Screen!EmptyQueue)
    BY <1>2, Zenon DEF Screen!Kept
  <2> QED BY <1>2, <2>2, <2>3, Zenon
<1>5. /\ x \in Nat /\ y \in Nat /\ Screen!Kept(queue)' \in Nat
      /\ Screen!Kept(queue)' + Len(s_submitted') + x + y
            = Screen!Kept(queue) + Len(s_submitted) + retired.fenced + retired.plain
  <2>1. PICK n, m, f, p : /\ n = Len(s_submitted) /\ m = Len(queue.frames)
                          /\ f = retired.fenced /\ p = retired.plain
    BY Zenon
  <2>2. n \in Nat /\ m \in Nat /\ f \in Nat /\ p \in Nat
    BY <2>1, SlotsAreNumbers, Zenon
  <2>3. x = f + lost /\ y = p + n + m
    BY <1>1, <2>1, Zenon
  <2>4. lost \in Nat
    BY <1>1
  <2>5. Screen!Kept(queue) = m + lost
    BY <1>1, <2>1, Zenon DEF Screen!Kept
  <2>6. Len(s_submitted') = 0
    BY <1>2
  <2>7. x \in Nat /\ y \in Nat /\ 0 \in Nat /\ 0 + 0 + x + y = m + lost + n + f + p
    BY <2>2, <2>3, <2>4
  <2> QED BY <1>4, <2>1, <2>5, <2>6, <2>7, Zenon
<1>6. ThreadInv' /\ ShownInv'
  <2>1. program' = program
    BY <1>2 DEF Screen!ThreadOnly, Screen!node_vars
  <2> QED BY <1>2, <1>3, <2>1 DEF ThreadInv, Playing, ShownInv, Screen!EmptyQueue
<1>7. thread' \in {"collecting", "testing", "first", "swapping", "finishing", "ended"}
  BY <1>2
<1> QED BY <1>2, <1>3, <1>4, <1>5, <1>6, <1>7, SlotsMove

-----------------------------------------------------------------------------
LEMMA ScreenInitHolds == AllInit => ScreenInv
<1> SUFFICES ASSUME AllInit PROVE ScreenInv
  OBVIOUS
<1>1. /\ s_now = 0 /\ program = -1 /\ node = "idle"
      /\ settings \in Screen!Settings
      /\ presenter = None /\ stopping = FALSE /\ running = FALSE
      /\ free = 0 /\ s_submitted = <<>> /\ retired = [fenced |-> 0, plain |-> 0]
      /\ thread = "ended" /\ queue = Screen!EmptyQueue /\ observed = <<>>
      /\ swap = None /\ next_swap = 0 /\ s_shown = -1
  BY DEF AllInit, Screen!Init
<1>2. ScreenTypes
  <2>1. <<>> \in Seq(Targets) /\ <<>> \in Seq(Int) /\ s_submitted = <<>> /\ observed = <<>>
    BY <1>1
  <2>2. s_submitted \in Seq(Targets) /\ observed \in Seq(Int)
    BY <2>1, Zenon
  <2>3. s_now \in Int /\ program \in Int /\ stopping \in BOOLEAN /\ running \in BOOLEAN
        /\ free \in Nat /\ next_swap \in Int /\ s_shown \in Int
    <3>1. /\ s_now = 0 /\ program = -1 /\ stopping = FALSE /\ running = FALSE
          /\ free = 0 /\ next_swap = 0 /\ s_shown = -1
      BY <1>1, Zenon
    <3>2. stopping \in BOOLEAN /\ running \in BOOLEAN
      BY <3>1
    <3>3. s_now \in Int /\ free \in Nat /\ next_swap \in Int
      BY <3>1
    <3>4. program \in Int /\ s_shown \in Int
      <4>1. PICK m \in Int : m = -1
        OBVIOUS
      <4> QED BY <3>1, <4>1, Zenon
    <3> QED BY <3>2, <3>3, <3>4
  <2>4. retired \in [fenced : Nat, plain : Nat]
    BY <1>1
  <2> QED BY <2>2, <2>3, <2>4, Zenon DEF ScreenTypes
<1>3. AbsenceInv /\ ThreadInv /\ PresenterFollowsSettings
  BY <1>1 DEF AbsenceInv, ThreadInv, Playing, PresenterFollowsSettings, Screen!PresenterFollowsSettings
<1>4. RoomInv
  <2>1. Room = 0
    BY <1>1 DEF Room
  <2> QED BY <1>1, <2>1, EmptyIsQueue DEF RoomInv
<1>5. ShownInv
  BY <1>1 DEF ShownInv, Screen!EmptyQueue
<1>6. Screen!TypeOK
  <2>1. Screen!Slots = 0
    BY <1>1, EmptyIsQueue DEF Screen!Slots
  <2> QED BY <1>1, <2>1 DEF Screen!TypeOK
<1> QED BY <1>2, <1>3, <1>4, <1>5, <1>6 DEF ScreenInv

\* A step of the other two parts.
LEMMA ScreenStays ==
    ASSUME ScreenInv, s_now' \in Int, s_now <= s_now',
           UNCHANGED <<program, node, settings, presenter, stopping, running, free, s_submitted,
                       retired, thread, queue, observed, swap, next_swap, s_shown>>
    PROVE  ScreenInv'
<1>1. ScreenTypes' /\ AbsenceInv'
  BY DEF ScreenInv, ScreenTypes, AbsenceInv
<1>4. ThreadInv'
  BY DEF ScreenInv, ScreenTypes, ThreadInv, Playing
<1>2. RoomInv' /\ ShownInv' /\ PresenterFollowsSettings'
  BY DEF ScreenInv, RoomInv, Room, ShownInv, PresenterFollowsSettings,
         Screen!PresenterFollowsSettings
<1>3. Screen!TypeOK'
  <2>1. Screen!Slots' = Screen!Slots
    BY DEF Screen!Slots
  <2> QED BY <2>1 DEF ScreenInv, Screen!TypeOK
<1> QED BY <1>1, <1>2, <1>3, <1>4 DEF ScreenInv

LEMMA ScreenNextKeeps == ASSUME ScreenInv, AllNext \/ UNCHANGED sVars PROVE ScreenInv'
<1>1. s_now \in Int
  BY DEF ScreenInv, ScreenTypes
<1>2. CASE UNCHANGED sVars
  BY <1>1, <1>2, ScreenStays DEF sVars
<1>3. CASE AllNext /\ ~UNCHANGED sVars
  <2>1. Screen!Next
    BY <1>3, Zenon DEF AllNext
  <2>2. CASE Screen!Tick
    BY <1>1, <2>2, ScreenStays DEF Screen!Tick, Screen!node_vars, Screen!slot_vars, Screen!thread_vars
  <2>3. CASE Screen!Node
    BY <2>3, BeginKeeps, AcquireKeeps, SubmitKeeps, AbandonKeeps, RemoveKeeps, Zenon DEF Screen!Node
  <2>4. CASE Screen!Presenter
    BY <2>4, CollectKeeps, WaitKeeps, PresentKeeps, SelectFrameKeeps, SwappedKeeps, FinishKeeps, Zenon
       DEF Screen!Presenter
  <2>5. CASE UNCHANGED Screen!vars
    BY <1>1, <2>5, ScreenStays DEF Screen!vars, Screen!node_vars, Screen!slot_vars, Screen!thread_vars
  <2> QED BY <2>1, <2>2, <2>3, <2>4, <2>5, Zenon DEF Screen!Next
<1> QED BY <1>2, <1>3

\* What a screen output shows, and where it keeps its slots.
LEMMA ScreenSlots == ScreenInv => Screen!RenderHasSlots
<1> SUFFICES ASSUME ScreenInv, presenter # None
             PROVE  Screen!SlotCount(presenter.buffer) - Screen!Kept(queue) >= PipelineHeadroom
  BY DEF Screen!RenderHasSlots
<1>1. Queue(queue, Targets, Room) /\ Room \in Nat
  BY RoomIsNumber DEF ScreenInv, RoomInv
<1>2. /\ Len(queue.frames) \in Nat /\ Len(queue.frames) <= Room
      /\ Screen!Kept(queue) = Len(queue.frames) + IF queue.current = None THEN 0 ELSE 1
  BY <1>1, KeptIsNumber, Zenon
<1>3. Screen!SlotCount(presenter.buffer) = Room + 1 + PipelineHeadroom
  BY RoomIsNumber DEF ScreenInv
<1>4. PICK k, l, m : /\ k = Screen!SlotCount(presenter.buffer) /\ l = Screen!Kept(queue)
                     /\ m = Len(queue.frames)
  BY Zenon
<1>5. PICK d \in 0..1 : l = m + d
  <2>1. PICK d : d = IF queue.current = None THEN 0 ELSE 1
    OBVIOUS
  <2>2. l = m + d
    BY <1>2, <1>4, <2>1, Zenon
  <2>3. d \in 0..1
    BY <2>1
  <2> QED BY <2>2, <2>3
<1>6. k = Room + 1 + PipelineHeadroom /\ m \in Nat /\ m <= Room
  BY <1>2, <1>3, <1>4, Zenon
<1>7. k - l >= PipelineHeadroom
  BY <1>1, <1>5, <1>6, ScreenConstants
<1> QED BY <1>4, <1>7, Zenon

\* The frame that is shown next comes from the queue, which has none older.
LEMMA ScreenShowsInOrder ==
    ASSUME ScreenInv, AllNext \/ UNCHANGED sVars
    PROVE  s_shown' >= s_shown
<1>1. s_shown \in Int
  BY DEF ScreenInv, ScreenTypes
<1>2. CASE s_shown' = s_shown
  BY <1>1, <1>2
<1>3. CASE s_shown' # s_shown
  <2>1. AllNext /\ ~UNCHANGED sVars
    BY <1>3 DEF sVars
  <2>2. Screen!Next
    BY <2>1, Zenon DEF AllNext
  <2>3. ~Screen!Tick /\ ~Screen!Node /\ ~UNCHANGED Screen!vars
    BY <1>3 DEF Screen!Tick, Screen!Node, Screen!BeginFrame, Screen!Acquire, Screen!Submit,
                Screen!Abandon, Screen!RemoveNode, Screen!Joined, Screen!vars, Screen!thread_vars
  <2>4. ~Screen!CollectPreroll /\ ~Screen!TestPreroll /\ ~Screen!Block /\ ~Screen!Loop
        /\ ~Screen!Swapped /\ ~Screen!Finish
    BY <1>3 DEF Screen!CollectPreroll, Screen!TestPreroll, Screen!Block, Screen!Loop,
                Screen!Swapped, Screen!Finish, Screen!thread_vars
  <2>5. Screen!PresentPreroll \/ Screen!SelectFrame
    BY <2>2, <2>3, <2>4, Zenon DEF Screen!Next, Screen!Presenter
  <2> QED BY <2>5, PresentKeeps, SelectFrameKeeps
<1> QED BY <1>2, <1>3

\* What division by a duration leaves is less than it.
LEMMA Division ==
    ASSUME NEW a \in Int, NEW d \in Nat \ {0}
    PROVE  /\ a \div d \in Int
           /\ d * (a \div d) <= a /\ a < d * (a \div d) + d
OBVIOUS

\* The grid of a clock.
LEMMA Multiples == ASSUME NEW k \in Int, NEW d \in Nat \ {0} PROVE (d * k) % d = 0
OBVIOUS

\* The swap after one that took until s_now.
LEMMA ScreenCatchesUp ==
    ASSUME ScreenInv, Screen!Swapped, ~swap.first
    PROVE  /\ (next_swap' - next_swap) % Duration = 0
           /\ next_swap' > s_now + (Duration - 1) \div 2
           /\ next_swap' <= s_now + Duration + Duration \div 2
<1>1. s_now \in Int /\ next_swap \in Int /\ next_swap <= s_now
  BY DEF Screen!Swapped, ScreenInv, ScreenTypes, ThreadInv
<1>2. Duration \in Nat \ {0}
  BY ScreenConstants
<1>3. PICK h, a, m : h = Duration \div 2 /\ a = s_now - next_swap + h /\ m = a \div Duration
  OBVIOUS
<1>4. h \in Nat /\ (Duration - 1) \div 2 <= h /\ (Duration - 1) \div 2 \in Int
  BY <1>2, <1>3
<1>5. a \in Int /\ a >= 0 /\ a >= h
  BY <1>1, <1>3, <1>4
<1>6. PICK p : p = Duration * m
  OBVIOUS
<1>7. m \in Int /\ p \in Int /\ p <= a /\ a < p + Duration
  <2>1. /\ a \div Duration \in Int
        /\ Duration * (a \div Duration) <= a /\ a < Duration * (a \div Duration) + Duration
    BY <1>2, <1>5, Division, Zenon
  <2>2. m \in Int /\ p <= a /\ a < p + Duration
    BY <1>3, <1>6, <2>1, Zenon
  <2> HIDE <1>3
  <2> QED BY <1>2, <1>6, <2>2
<1>8. m >= 0
  <2>1. a \div Duration >= 0
    BY <1>2, <1>5
  <2> QED BY <1>3, <2>1
<1>9. PICK k : k = 1 + m
  OBVIOUS
<1>10. Screen!IntervalCount(s_now) = k
  <2>1. Screen!IntervalCount(s_now) = Screen!Max({1, k})
    BY <1>3, <1>9, Zenon DEF Screen!IntervalCount
  <2>2. Screen!Max({1, k}) = k
    <3>1. 1 \in Int /\ k \in Int /\ (1 >= k => k = 1)
      BY <1>7, <1>8, <1>9
    <3>2. Screen!Max({1, k}) = IF 1 >= k THEN 1 ELSE k
      BY <3>1, Extremes, Zenon
    <3> QED BY <3>1, <3>2
  <2> QED BY <2>1, <2>2
<1>11. next_swap' = next_swap + Duration * k
  BY <1>10, Zenon DEF Screen!Swapped
<1>12. k \in Int /\ Duration * k = p + Duration
  BY <1>2, <1>6, <1>7, <1>9
<1>13. next_swap' - next_swap = Duration * k
  BY <1>1, <1>2, <1>11, <1>12, <1>7
<1>14. (next_swap' - next_swap) % Duration = 0
  BY <1>2, <1>12, <1>13, Multiples, Zenon
<1>15. PICK x, c : x = next_swap' /\ c = (Duration - 1) \div 2
  OBVIOUS
<1>16. x = next_swap + (p + Duration)
  BY <1>11, <1>12, <1>15, Zenon
<1>17. x > s_now + c /\ x <= s_now + Duration + h
  <2>1. a = s_now - next_swap + h /\ c <= h /\ c \in Int
    BY <1>3, <1>4, <1>15, Zenon
  <2> HIDE <1>3, <1>6, <1>9, <1>15
  <2> QED BY <1>1, <1>2, <1>4, <1>5, <1>7, <1>16, <2>1
<1> QED BY <1>3, <1>14, <1>15, <1>17, Zenon

-----------------------------------------------------------------------------
\* Whatever is drawn, dropped, repeated or abandoned, and however presenters
\* come and go, a screen output keeps its frames in order and its slots in one
\* place each.
LEMMA ScreenInvariance == AllSpec => []ScreenInv
<1>1. AllInit => ScreenInv
  BY ScreenInitHolds
<1>2. ScreenInv /\ [AllNext]_<<part, vars, pVars, sVars>> => ScreenInv'
  BY ScreenNextKeeps
<1> QED BY <1>1, <1>2, PTL DEF AllSpec

\* A presenter that is not being stopped shows with the settings the node saw
\* last, also when they changed while the one before it was stopping.
THEOREM PresenterIsCurrent == AllSpec => []PresenterFollowsSettings
<1>1. ScreenInv => PresenterFollowsSettings
  BY DEF ScreenInv
<1> QED BY <1>1, ScreenInvariance, PTL

\* The screen never goes back in program time.
THEOREM ScreenPlaysInOrder == AllSpec => Screen!ShownInOrder
<1>1. ScreenInv /\ [AllNext]_<<part, vars, pVars, sVars>> => [s_shown' >= s_shown]_Screen!vars
  BY ScreenShowsInOrder
<1> QED BY <1>1, ScreenInvariance, PTL DEF AllSpec, Screen!ShownInOrder

\* A swap that ends late is followed by one on the monitor's grid, due between
\* half an interval and one and a half after it.
THEOREM ScreenCadence == AllSpec => Screen!CadenceCatchesUp
<1>1. ASSUME ScreenInv, [AllNext]_<<part, vars, pVars, sVars>>,
             thread = "swapping", thread' # thread, ~swap.first
      PROVE  /\ (next_swap' - next_swap) % Duration = 0
             /\ next_swap' > s_now + (Duration - 1) \div 2
             /\ next_swap' <= s_now + Duration + Duration \div 2
  <2>1. presenter # None
    BY <1>1 DEF ScreenInv, AbsenceInv
  <2>2. Screen!Next
    BY <1>1, Zenon DEF AllNext, sVars
  <2>3. ~Screen!Tick /\ ~UNCHANGED Screen!vars
    BY <1>1 DEF Screen!Tick, Screen!vars
  <2>4. CASE Screen!Presenter
    <3>1. Screen!Swapped
      BY <1>1, <2>4 DEF Screen!Presenter, Screen!CollectPreroll, Screen!TestPreroll, Screen!Block,
                        Screen!PresentPreroll, Screen!Loop, Screen!SelectFrame, Screen!Finish
    <3> QED BY <1>1, <3>1, ScreenCatchesUp, Zenon
  <2>5. ~Screen!Node
    <3>1. ASSUME NEW s \in Screen!Settings PROVE ~Screen!BeginFrame(s)
      <4>1. ASSUME Screen!Prepare(s) PROVE FALSE
        <5> DEFINE leaves == stopping \/ (presenter # None /\ s # settings)
                   over   == leaves /\ thread = "ended"
        <5>1. ~over
          BY <1>1
        <5>2. presenter # None
          BY <2>1
        <5>3. CASE leaves
          <6>1. IF stopping THEN UNCHANGED <<running, thread>> ELSE Screen!RequestStop
            BY <4>1, <5>1, <5>2, <5>3 DEF Screen!Prepare
          <6> QED BY <1>1, <6>1 DEF Screen!RequestStop
        <5>4. CASE ~leaves
          <6>1. UNCHANGED thread
            BY <4>1, <5>1, <5>2, <5>4 DEF Screen!Prepare
          <6> QED BY <1>1, <6>1
        <5> QED BY <5>3, <5>4
      <4> QED BY <4>1 DEF Screen!BeginFrame
    <3>2. /\ ~Screen!Acquire /\ ~Screen!Submit /\ ~Screen!Abandon
          /\ ~Screen!RemoveNode /\ ~Screen!Joined
      BY <1>1 DEF Screen!Acquire, Screen!Submit, Screen!Abandon, Screen!RemoveNode,
                  Screen!Joined, Screen!RequestStop
    <3> QED BY <3>1, <3>2, Zenon DEF Screen!Node
  <2> QED BY <2>2, <2>3, <2>4, <2>5, Zenon DEF Screen!Next
<1> QED BY <1>1, ScreenInvariance, PTL DEF AllSpec, Screen!CadenceCatchesUp

-----------------------------------------------------------------------------
(* The program's clock. *)

Contexts == [number : Int, epoch : Int, pts : Int, target : Int]

\* The target of a frame is that of its place on the grid, from which the
\* numbers have come as far as the timeline.
ClockInv ==
    /\ Pacing!SchedulerTypeOK /\ context \in Contexts
    /\ active => duration # 0 /\ context # Pacing!NoContext
    /\ context # Pacing!NoContext =>
          /\ duration # 0
          /\ context.target = anchor + duration * (timeline_frame - (next_number - context.number))
          /\ next_number - context.number <= timeline_frame
          /\ IF active THEN next_number = context.number ELSE next_number > context.number

LEMMA ClockConstants ==
    /\ Durations \subseteq Nat \ {0} /\ AllowedLateness \in Nat /\ PacingHorizon \in Nat
BY TimedAssumption DEF Pacing!SchedulerAssumption

\* The numbers of the clock.
LEMMA ClockTypes ==
    ASSUME ClockInv
    PROVE  /\ now \in Nat /\ now <= PacingHorizon /\ duration \in Nat /\ anchor \in Nat /\ anchor <= now
           /\ timeline_frame \in Nat /\ next_number \in Nat /\ active \in BOOLEAN
           /\ context.number \in Int /\ context.epoch \in Int /\ context.target \in Int
<1>1. now \in Nat /\ now <= PacingHorizon /\ duration \in Nat
  BY ClockConstants DEF ClockInv, Pacing!SchedulerTypeOK
<1>2. /\ anchor \in Nat /\ anchor <= now
      /\ timeline_frame \in Nat /\ next_number \in Nat /\ active \in BOOLEAN
  BY <1>1 DEF ClockInv, Pacing!SchedulerTypeOK
<1>3. context.number \in Int /\ context.epoch \in Int /\ context.target \in Int
  BY DEF ClockInv, Contexts
<1> QED BY <1>1, <1>2, <1>3

\* The frame that begins is later than the one before, by what the numbers tell.
LEMMA BeginFrameKeeps ==
    ASSUME ClockInv, NEW d \in Durations, Pacing!BeginFrame(d)
    PROVE  /\ ClockInv'
           /\ context'.number = next_number /\ context'.target >= context.target
           /\ context'.epoch = context.epoch => duration' = duration
           /\ context # Pacing!NoContext =>
                 /\ context'.target > context.target
                 /\ context'.number > context.number
                 /\ context'.epoch = context.epoch =>
                       context'.target - context.target
                          = duration * (context'.number - context.number)
<1> DEFINE fresh == d # duration
<1>1. PICK frame, start, epoch :
        /\ frame = (IF fresh THEN 0 ELSE timeline_frame)
        /\ start = (IF fresh THEN now ELSE anchor)
        /\ epoch = (IF fresh THEN context.epoch + 1 ELSE context.epoch)
  BY Zenon
<1>2. /\ ~active /\ Pacing!TargetHasCome
      /\ duration' = d /\ anchor' = start /\ timeline_frame' = frame
      /\ context' = [number |-> next_number, epoch |-> epoch, pts |-> d * frame,
                     target |-> start + d * frame]
      /\ active' = TRUE /\ now' = now /\ next_number' = next_number
  BY <1>1, Zenon DEF Pacing!BeginFrame
<1>3. /\ now \in Nat /\ now <= PacingHorizon /\ duration \in Nat /\ anchor \in Nat /\ anchor <= now
      /\ timeline_frame \in Nat /\ next_number \in Nat
      /\ context.number \in Int /\ context.epoch \in Int /\ context.target \in Int
  BY ClockTypes
<1>4. d \in Nat \ {0}
  BY ClockConstants
<1>5. frame \in Nat /\ start \in Nat /\ start <= now /\ epoch \in Int
  BY <1>1, <1>3
<1>6. PICK p : p = d * frame
  OBVIOUS
<1>7. p \in Int /\ start + p \in Int
  BY <1>4, <1>5, <1>6
<1>8. context' = [number |-> next_number, epoch |-> epoch, pts |-> p, target |-> start + p]
  BY <1>2, <1>6, Zenon
<1>9. /\ context'.number = next_number /\ context'.target = start + p /\ context'.epoch = epoch
      /\ DOMAIN context' = {"number", "epoch", "pts", "target"}
  BY <1>8
<1>10. context' \in Contexts
  BY <1>3, <1>5, <1>7, <1>8 DEF Contexts
<1>11. context' # Pacing!NoContext
  <2>1. Pacing!NoContext.number = -1
    BY DEF Pacing!NoContext
  <2>2. next_number # -1
    BY <1>3
  <2> QED BY <1>9, <2>1, <2>2
<1>12. Pacing!SchedulerTypeOK'
  <2>1. DOMAIN context' = DOMAIN Pacing!NoContext
    BY <1>9 DEF Pacing!NoContext
  <2>2. /\ now' \in 0..PacingHorizon /\ duration' \in Durations \cup {0} /\ anchor' \in 0..now'
        /\ timeline_frame' \in Nat /\ next_number' \in Nat /\ active' \in BOOLEAN
    BY <1>2, <1>3, <1>5
  <2> QED BY <2>1, <2>2 DEF Pacing!SchedulerTypeOK
<1>13. ClockInv'
  <2>1. next_number' - context'.number = 0 /\ frame - 0 = frame
    BY <1>2, <1>3, <1>5, <1>9
  <2>2. context'.target = anchor' + duration' * (timeline_frame' - (next_number' - context'.number))
    BY <1>2, <1>6, <1>9, <2>1, Zenon
  <2>3. next_number' = context'.number /\ next_number' - context'.number <= timeline_frame' /\ duration' # 0
    BY <1>2, <1>4, <1>5, <1>9, <2>1
  <2> QED BY <1>2, <1>10, <1>11, <1>12, <2>2, <2>3, Zenon DEF ClockInv
<1>14. ASSUME context # Pacing!NoContext
       PROVE  /\ context'.target > context.target
              /\ context'.number > context.number
              /\ context'.epoch = context.epoch =>
                       context'.target - context.target
                          = duration * (context'.number - context.number)
  <2>1. PICK n \in Int : n = next_number - context.number
    BY <1>3
  <2>2. /\ duration # 0 /\ context.target = anchor + duration * (timeline_frame - n)
        /\ n <= timeline_frame /\ n > 0
    <3>1. /\ duration # 0 /\ next_number - context.number <= timeline_frame /\ next_number > context.number
          /\ context.target = anchor + duration * (timeline_frame - (next_number - context.number))
      BY <1>2, <1>14, Zenon DEF ClockInv
    <3>2. context.target = anchor + duration * (timeline_frame - n) /\ n <= timeline_frame
      BY <2>1, <3>1, Zenon
    <3>3. n > 0
      BY <1>3, <2>1, <3>1
    <3> QED BY <3>1, <3>2, <3>3
  <2>3. PICK x, y : x = duration * timeline_frame /\ y = duration * n
    OBVIOUS
  <2>4. /\ x \in Int /\ y \in Int /\ y > 0
        /\ context.target = anchor + x - y
    <3>1. duration * (timeline_frame - n) = duration * timeline_frame - duration * n
      BY <1>3, <2>1
    <3>2. x \in Int /\ y \in Int /\ y > 0
      BY <1>3, <2>1, <2>2, <2>3
    <3>3. context.target = anchor + (x - y)
      BY <2>2, <2>3, <3>1, Zenon
    <3> QED BY <1>3, <3>2, <3>3
  <2>5. now >= anchor + x
    BY <1>2, <2>3 DEF Pacing!TargetHasCome
  <2>6. CASE fresh
    <3>1. start = now /\ frame = 0 /\ epoch = context.epoch + 1
      BY <1>1, <2>6, Zenon
    <3>2. p = 0
      BY <1>4, <1>6, <3>1
    <3>3. context'.target = now
      BY <1>3, <1>9, <3>1, <3>2
    <3>4. context'.epoch # context.epoch
      BY <1>3, <1>9, <3>1
    <3>5. now > context.target
      BY <1>3, <2>4, <2>5
    <3>6. context'.number > context.number
      BY <1>3, <1>9, <2>1, <2>2
    <3> QED BY <3>3, <3>4, <3>5, <3>6
  <2>7. CASE ~fresh
    <3>1. start = anchor /\ frame = timeline_frame /\ d = duration
      BY <1>1, <2>7, Zenon
    <3>2. context'.target = anchor + x
      BY <1>6, <1>9, <2>3, <3>1, Zenon
    <3>3. PICK g, h : g = context'.target /\ h = context.target
      OBVIOUS
    <3>4. g = anchor + x /\ h = anchor + x - y
      BY <2>4, <3>2, <3>3, Zenon
    <3>5. g > h /\ g - h = y
      BY <1>3, <2>4, <3>4
    <3>6. context'.target > context.target /\ context'.target - context.target = y
      BY <3>3, <3>5, Zenon
    <3>7. context'.number > context.number
      BY <1>3, <1>9, <2>1, <2>2
    <3>8. duration * (context'.number - context.number) = y
      BY <1>9, <2>1, <2>3, Zenon
    <3> QED BY <3>6, <3>7, <3>8
  <2> QED BY <2>6, <2>7
<1>15. context'.target >= context.target
  <2>1. CASE context = Pacing!NoContext
    <3>1. context.target = -1
      BY <2>1 DEF Pacing!NoContext
    <3>2. p >= 0
      BY <1>4, <1>5, <1>6
    <3>3. start + p >= -1
      BY <1>5, <1>7, <3>2
    <3> QED BY <1>9, <3>1, <3>3
  <2>2. CASE context # Pacing!NoContext
    BY <1>3, <1>7, <1>9, <1>14, <2>2
  <2> QED BY <2>1, <2>2
<1>16. context'.epoch = context.epoch => duration' = duration
  <2>1. CASE fresh
    <3>1. epoch = context.epoch + 1
      BY <1>1, <2>1, Zenon
    <3> QED BY <1>3, <1>9, <3>1
  <2>2. CASE ~fresh
    BY <1>2, <2>2
  <2> QED BY <2>1, <2>2
<1> QED BY <1>9, <1>13, <1>14, <1>15, <1>16

\* The frame that follows is the first one whose lateness is permitted.
LEMMA FinishFrameKeeps ==
    ASSUME ClockInv, Pacing!FinishFrame
    PROVE  /\ ClockInv' /\ context' = context
           /\ now - (anchor + duration * timeline_frame') <= duration * AllowedLateness
           /\ timeline_frame' > timeline_frame + 1 =>
                 now - (anchor + duration * timeline_frame') + duration > duration * AllowedLateness
<1>1. PICK skip : skip = Pacing!FramesToSkip(now, anchor + duration * (timeline_frame + 1))
  OBVIOUS
<1>2. /\ active /\ active' = FALSE
      /\ timeline_frame' = timeline_frame + 1 + skip /\ next_number' = next_number + 1 + skip
      /\ UNCHANGED <<now, duration, anchor, context>>
  BY <1>1, Zenon DEF Pacing!FinishFrame
<1>3. /\ now \in Nat /\ now <= PacingHorizon /\ duration \in Nat /\ anchor \in Nat /\ anchor <= now
      /\ timeline_frame \in Nat /\ next_number \in Nat
      /\ context.number \in Int /\ context.epoch \in Int /\ context.target \in Int
  BY ClockTypes
<1>4. duration \in Nat \ {0} /\ context # Pacing!NoContext /\ AllowedLateness \in Nat
  BY <1>2, <1>3, ClockConstants DEF ClockInv
<1>5. PICK x, permitted, excess :
        /\ x = duration * (timeline_frame + 1) /\ permitted = duration * AllowedLateness
        /\ excess = now - (anchor + x) - permitted
  OBVIOUS
<1>6. x \in Int /\ permitted \in Int /\ excess \in Int
  <2>1. x \in Int /\ permitted \in Int
    BY <1>3, <1>4, <1>5
  <2> QED BY <1>3, <1>5, <2>1
<1>7. skip = IF excess <= 0 THEN 0 ELSE (excess - 1) \div duration + 1
  BY <1>1, <1>5, Zenon DEF Pacing!FramesToSkip
<1>8. PICK y : y = duration * skip
  OBVIOUS
<1>9. /\ skip \in Nat /\ y \in Int /\ excess <= y
      /\ skip > 0 => excess + duration > y
  <2>1. CASE excess <= 0
    <3>1. skip = 0
      BY <1>7, <2>1, Zenon
    <3>2. y = 0
      BY <1>4, <1>8, <3>1
    <3> QED BY <1>6, <2>1, <3>1, <3>2
  <2>2. CASE ~(excess <= 0)
    <3>1. PICK m : m = (excess - 1) \div duration
      OBVIOUS
    <3>2. excess - 1 \in Int /\ excess - 1 >= 0
      BY <1>6, <2>2
    <3>3. PICK z : z = duration * m
      OBVIOUS
    <3>4. m \in Int /\ z <= excess - 1 /\ excess - 1 < z + duration
      <4>1. /\ (excess - 1) \div duration \in Int
            /\ duration * ((excess - 1) \div duration) <= excess - 1
            /\ excess - 1 < duration * ((excess - 1) \div duration) + duration
        BY <1>4, <3>2, Division, Zenon
      <4> QED BY <3>1, <3>3, <4>1, Zenon
    <3>5. m >= 0
      <4>1. (excess - 1) \div duration >= 0
        BY <1>4, <3>2
      <4> QED BY <3>1, <4>1
    <3>6. skip = m + 1
      BY <1>7, <2>2, <3>1, Zenon
    <3>7. y = z + duration /\ z \in Int
      BY <1>4, <1>8, <3>3, <3>4, <3>6
    <3> HIDE <3>1
    <3> QED BY <1>3, <1>6, <3>4, <3>5, <3>6, <3>7
  <2> QED BY <2>1, <2>2
<1>10. timeline_frame' \in Nat /\ next_number' \in Nat
  BY <1>2, <1>3, <1>9
<1>11. duration * timeline_frame' = x + y
  <2>1. duration * (timeline_frame + 1 + skip) = duration * (timeline_frame + 1) + duration * skip
    BY <1>3, <1>9
  <2> QED BY <1>2, <1>5, <1>8, <2>1, Zenon
<1>12. /\ now - (anchor + (x + y)) <= permitted
       /\ skip > 0 => now - (anchor + (x + y)) + duration > permitted
  <2>1. excess = now - (anchor + x) - permitted
    BY <1>5
  <2> HIDE <1>5
  <2> QED BY <1>3, <1>6, <1>9, <2>1
<1>13. timeline_frame' > timeline_frame + 1 => skip > 0
  BY <1>2, <1>3, <1>9
<1>14. ClockInv'
  <2>1. Pacing!SchedulerTypeOK'
    BY <1>2, <1>10 DEF ClockInv, Pacing!SchedulerTypeOK
  <2>2. /\ next_number = context.number /\ duration # 0
        /\ context.target = anchor + duration * (timeline_frame - (next_number - context.number))
    BY <1>2, <1>4, Zenon DEF ClockInv
  <2>3. /\ next_number' > context.number
        /\ next_number' - context.number <= timeline_frame'
        /\ timeline_frame' - (next_number' - context.number) = timeline_frame - (next_number - context.number)
    BY <1>2, <1>3, <1>9, <2>2
  <2>4. context.target = anchor + duration * (timeline_frame' - (next_number' - context.number))
    BY <2>2, <2>3, Zenon
  <2>5. context \in Contexts
    BY DEF ClockInv
  <2> QED BY <1>2, <2>1, <2>2, <2>3, <2>4, <2>5, Zenon DEF ClockInv
<1> QED BY <1>2, <1>5, <1>11, <1>12, <1>13, <1>14, Zenon

LEMMA ClockInitHolds == AllInit => ClockInv
<1> SUFFICES ASSUME AllInit PROVE ClockInv
  OBVIOUS
<1>1. /\ now = 0 /\ duration = 0 /\ anchor = 0 /\ timeline_frame = 0 /\ next_number = 0
      /\ active = FALSE /\ context = Pacing!NoContext
  BY DEF AllInit, Pacing!Init, Pacing!SchedulerInit
<1>2. context \in Contexts
  BY <1>1 DEF Pacing!NoContext, Contexts
<1>3. Pacing!SchedulerTypeOK
  <2>1. /\ 0 \in 0..PacingHorizon /\ 0 \in Durations \cup {0} /\ 0 \in 0..0 /\ 0 \in Nat
        /\ FALSE \in BOOLEAN
    BY ClockConstants
  <2> QED BY <1>1, <2>1, Zenon DEF Pacing!SchedulerTypeOK
<1> QED BY <1>1, <1>2, <1>3 DEF ClockInv

\* The steps of the pacing part, by what they do to the clock.
LEMMA ClockSteps ==
    ASSUME AllNext \/ UNCHANGED pVars
    PROVE  \/ UNCHANGED Pacing!scheduler
           \/ Pacing!Tick
           \/ \E d \in Durations : Pacing!BeginFrame(d)
           \/ Pacing!FinishFrame
<1>1. CASE UNCHANGED pVars
  BY <1>1 DEF pVars, Pacing!scheduler
<1>2. CASE Pacing!Next
  <2>1. CASE \E d \in Durations, buffer \in Buffers : Pacing!BeginNodeFrame(d, buffer)
    BY <2>1, Zenon DEF Pacing!BeginNodeFrame
  <2>2. CASE Pacing!FinishNodeFrame
    BY <2>2, Zenon DEF Pacing!FinishNodeFrame
  <2>3. CASE Pacing!CloseSender \/ Pacing!OpenSender
    BY <2>3, Zenon DEF Pacing!CloseSender, Pacing!OpenSender
  <2>4. CASE Pacing!Worker
    <3>1. UNCHANGED Pacing!scheduler
      BY <2>4, Zenon DEF Pacing!Worker, Pacing!WorkerLeaves, Pacing!TakeStream, Pacing!CheckStream,
            Pacing!Collect, Pacing!Iterate, Pacing!Send, Pacing!Flush, Pacing!WorkerGoes
    <3> QED BY <3>1
  <2>5. CASE \E st \in Handles : Pacing!LoseFrame(st)
    BY <2>5, Zenon DEF Pacing!LoseFrame
  <2>6. CASE UNCHANGED Pacing!vars
    BY <2>6, Zenon DEF Pacing!vars
  <2> QED BY <1>2, <2>1, <2>2, <2>3, <2>4, <2>5, <2>6, Zenon DEF Pacing!Next
<1> QED BY <1>1, <1>2, Zenon DEF AllNext

\* Time alone moves nothing on the grid.
LEMMA ClockTicks == ASSUME ClockInv, Pacing!Tick \/ UNCHANGED Pacing!scheduler PROVE ClockInv'
<1>1. UNCHANGED <<duration, anchor, timeline_frame, next_number, active, context>>
  BY DEF Pacing!Tick, Pacing!scheduler
<1>2. now' \in 0..PacingHorizon /\ anchor' \in 0..now'
  <2>1. /\ now \in Nat /\ now <= PacingHorizon /\ anchor \in Nat /\ anchor <= now
    BY ClockTypes
  <2>2. CASE Pacing!Tick
    BY <1>1, <2>1, <2>2, ClockConstants DEF Pacing!Tick
  <2>3. CASE UNCHANGED Pacing!scheduler
    BY <1>1, <2>1, <2>3, ClockConstants DEF Pacing!scheduler
  <2> QED BY <2>2, <2>3
<1>3. Pacing!SchedulerTypeOK'
  BY <1>1, <1>2 DEF ClockInv, Pacing!SchedulerTypeOK
<1>4. context \in Contexts
  BY DEF ClockInv
<1> QED BY <1>1, <1>3, <1>4, Zenon DEF ClockInv

LEMMA ClockNextKeeps == ASSUME ClockInv, AllNext \/ UNCHANGED pVars PROVE ClockInv'
BY ClockSteps, ClockTicks, BeginFrameKeeps, FinishFrameKeeps, Zenon

LEMMA ClockInvariance == AllSpec => []ClockInv
<1>1. AllInit => ClockInv
  BY ClockInitHolds
<1>2. ClockInv /\ [AllNext]_<<part, vars, pVars, sVars>> => ClockInv'
  BY ClockNextKeeps
<1> QED BY <1>1, <1>2, PTL DEF AllSpec

\* A frame that ends late is followed by the first one whose lateness is
\* permitted; program time only grows, and within an epoch exactly with the
\* frame numbers; and a swap that ends late is followed by one on the grid.
THEOREM CadencesAreCaughtUp == AllSpec => CadencesCatchUp
<1>1. ASSUME ClockInv, [AllNext]_<<part, vars, pVars, sVars>>,
             context' # context, context # Pacing!NoContext
      PROVE  /\ context'.target > context.target
             /\ context'.number > context.number
             /\ context'.epoch = context.epoch =>
                   context'.target - context.target
                      = duration * (context'.number - context.number)
  <2>1. PICK d \in Durations : Pacing!BeginFrame(d)
    BY <1>1, ClockSteps DEF Pacing!scheduler, Pacing!Tick, Pacing!FinishFrame
  <2> QED BY <1>1, <2>1, BeginFrameKeeps, Zenon
<1>2. ASSUME ClockInv, [AllNext]_<<part, vars, pVars, sVars>>, active, ~active'
      PROVE  LET lateness  == now - (anchor + duration * timeline_frame')
                 permitted == duration * AllowedLateness
             IN  /\ lateness <= permitted
                 /\ timeline_frame' > timeline_frame + 1 => lateness + duration > permitted
  <2>1. Pacing!FinishFrame
    BY <1>2, ClockSteps DEF Pacing!scheduler, Pacing!Tick, Pacing!BeginFrame
  <2> QED BY <1>2, <2>1, FinishFrameKeeps, Zenon
<1>3. AllSpec => Pacing!ProgramTimeIsExact
  BY <1>1, ClockInvariance, PTL DEF AllSpec, Pacing!ProgramTimeIsExact
<1>4. AllSpec => Pacing!SkipsRestoreTheCadence
  BY <1>2, ClockInvariance, PTL DEF AllSpec, Pacing!SkipsRestoreTheCadence
<1> QED BY <1>3, <1>4, ScreenCadence DEF CadencesCatchUp

-----------------------------------------------------------------------------
(* The NDI output. *)

\* The frames of a stream.
Of(st) == [target : Int, stream : {st}]

States == [stream : Handles, duration : Durations, buffer : Buffers]

LEMMA PacingConstants ==
    /\ None \notin Handles /\ Unset \notin Dimensions /\ None \notin States
    /\ \A st \in Handles : Timed(Of(st))
    /\ Durations \subseteq Nat \ {0} /\ Buffers \subseteq Nat \ {0}
    /\ QueueHeadroom \in Nat /\ PipelineHeadroom \in Nat
<1>1. /\ None \notin Handles /\ Unset \notin Dimensions /\ None \notin States
      /\ None \notin [target : Int, stream : Handles]
      /\ Buffers \subseteq Nat \ {0} /\ QueueHeadroom \in Nat /\ PipelineHeadroom \in Nat
  BY TimedAssumption DEF Pacing!PacingAssumption, States
<1>2. ASSUME NEW st \in Handles PROVE Timed(Of(st))
  <2>1. Of(st) \subseteq [target : Int, stream : Handles]
    BY DEF Of
  <2>2. \A f \in Of(st) : f.target \in Int
    BY DEF Of
  <2> QED BY <1>1, <2>1, <2>2, Zenon DEF Timed
<1> QED BY <1>1, <1>2, ClockConstants

\* The frames a queue and the library hold.
HeldBy(q, inflight) ==
    ({q.frames[i] : i \in DOMAIN q.frames} \cup {q.current, inflight}) \ {None}

\* A sequence has no more members than it is long.
LEMMA MembersAreCounted ==
    ASSUME NEW F, NEW s \in Seq(F), NEW S, S = {s[i] : i \in DOMAIN s}
    PROVE  IsFiniteSet(S) /\ Cardinality(S) \in Nat /\ Cardinality(S) <= Len(s)
<1>1. PICK n \in Nat : n = Len(s)
  OBVIOUS
<1>2. DOMAIN s = 1..n
  BY <1>1
<1>3. PICK f : f = [i \in 1..n |-> s[i]]
  OBVIOUS
<1>4. f \in Surjection(1..n, S)
  BY <1>2, <1>3 DEF Surjection
<1>5. IsFiniteSet(1..n) /\ Cardinality(1..n) = n
  BY FS_Interval
<1>6. IsFiniteSet(S) /\ Cardinality(S) <= n
  BY <1>4, <1>5, FS_Surjection
<1> QED BY <1>1, <1>6, FS_CardinalityType

\* A union has no more members than its parts.
LEMMA UnionIsCounted ==
    ASSUME NEW S, IsFiniteSet(S), NEW T, IsFiniteSet(T), NEW U, U \subseteq S \cup T
    PROVE  IsFiniteSet(U) /\ Cardinality(U) \in Nat /\ Cardinality(U) <= Cardinality(S) + Cardinality(T)
<1>1. /\ IsFiniteSet(S \cup T)
      /\ Cardinality(S \cup T) = Cardinality(S) + Cardinality(T) - Cardinality(S \cap T)
  BY FS_Union
<1>2. IsFiniteSet(U) /\ Cardinality(U) <= Cardinality(S \cup T)
  BY <1>1, FS_Subset
<1>3. IsFiniteSet(S \cap T)
  BY FS_Subset
<1>4. /\ Cardinality(S) \in Nat /\ Cardinality(T) \in Nat /\ Cardinality(S \cap T) \in Nat
      /\ Cardinality(S \cup T) \in Nat /\ Cardinality(U) \in Nat
  BY <1>1, <1>2, <1>3, FS_CardinalityType
<1> QED BY <1>1, <1>2, <1>4

\* A thread holds what its queue has, the frame shown and the one the library reads.
LEMMA HeldIsCounted ==
    ASSUME NEW F, NEW c \in Nat, NEW q, Queue(q, F, c), NEW inflight,
           NEW H, H = HeldBy(q, inflight)
    PROVE  /\ IsFiniteSet(H) /\ Cardinality(H) \in Nat
           /\ inflight \in {None, q.current} => Cardinality(H) <= Len(q.frames) + 1
           /\ Cardinality(H) <= Len(q.frames) + 2
<1>1. PICK S : S = {q.frames[i] : i \in DOMAIN q.frames}
  OBVIOUS
<1>2. q.frames \in Seq(F) /\ Len(q.frames) \in Nat
  BY DEF Queue
<1>3. IsFiniteSet(S) /\ Cardinality(S) \in Nat /\ Cardinality(S) <= Len(q.frames)
  BY <1>1, <1>2, MembersAreCounted
<1>4. IsFiniteSet({q.current}) /\ Cardinality({q.current}) = 1
  BY FS_Singleton, Zenon
<1>5. IsFiniteSet({inflight}) /\ Cardinality({inflight}) = 1
  BY FS_Singleton, Zenon
<1>6. PICK T : T = S \cup {q.current}
  OBVIOUS
<1>7. IsFiniteSet(T) /\ Cardinality(T) \in Nat /\ Cardinality(T) <= Len(q.frames) + 1
  <2>1. T \subseteq S \cup {q.current}
    BY <1>6
  <2>2. IsFiniteSet(T) /\ Cardinality(T) \in Nat /\ Cardinality(T) <= Cardinality(S) + Cardinality({q.current})
    BY <1>3, <1>4, <2>1, UnionIsCounted, Zenon
  <2> QED BY <1>2, <1>3, <1>4, <2>2
<1>8. H \subseteq T \cup {inflight}
  BY <1>1, <1>6, Zenon DEF HeldBy
<1>9. IsFiniteSet(H) /\ Cardinality(H) \in Nat /\ Cardinality(H) <= Len(q.frames) + 2
  <2>1. IsFiniteSet(H) /\ Cardinality(H) \in Nat /\ Cardinality(H) <= Cardinality(T) + Cardinality({inflight})
    BY <1>5, <1>7, <1>8, UnionIsCounted, Zenon
  <2> QED BY <1>2, <1>5, <1>7, <2>1
<1>10. ASSUME inflight \in {None, q.current} PROVE Cardinality(H) <= Len(q.frames) + 1
  <2>1. H \subseteq T
    BY <1>1, <1>6, <1>10, Zenon DEF HeldBy
  <2>2. Cardinality(H) <= Cardinality(T)
    BY <1>7, <2>1, FS_Subset
  <2> QED BY <1>2, <1>7, <1>9, <2>2
<1> QED BY <1>9, <1>10

\* What RemoveAt leaves.
LEMMA Removing ==
    ASSUME NEW F, NEW s \in Seq(F), NEW i \in DOMAIN s, NEW t, t = Pacing!RemoveAt(s, i)
    PROVE  /\ t \in Seq(F) /\ Len(t) = Len(s) - 1
           /\ \A j \in 1..Len(t) : j \in DOMAIN s /\ j + 1 \in DOMAIN s
           /\ \A j \in 1..Len(t) : t[j] = IF j < i THEN s[j] ELSE s[j + 1]
<1>1. PICK a, b : a = SubSeq(s, 1, i - 1) /\ b = SubSeq(s, i + 1, Len(s))
  OBVIOUS
<1>2. t = a \o b
  BY <1>1, Zenon DEF Pacing!RemoveAt
<1>3. i \in 1..Len(s) /\ Len(s) \in Nat
  OBVIOUS
<1>4. /\ a \in Seq(F) /\ Len(a) = i - 1
      /\ \A j \in 1..Len(a) : a[j] = s[j]
  <2>1. 1 \in 1..Len(s) + 1 /\ i - 1 \in 0..Len(s) /\ 1 <= i - 1 + 1
    BY <1>3
  <2>2. /\ a \in Seq(F) /\ Len(a) = i - 1 - 1 + 1
        /\ \A j \in 1..Len(a) : a[j] = s[1 + j - 1]
    BY <1>1, <2>1, Part
  <2> QED BY <1>3, <2>2
<1>5. /\ b \in Seq(F) /\ Len(b) = Len(s) - i
      /\ \A j \in 1..Len(b) : b[j] = s[i + j]
  <2>1. PICK m : m = i + 1
    OBVIOUS
  <2>2. m \in 1..Len(s) + 1 /\ Len(s) \in 0..Len(s) /\ m <= Len(s) + 1
    BY <1>3, <2>1
  <2>3. b = SubSeq(s, m, Len(s))
    BY <1>1, <2>1, Zenon
  <2>4. /\ b \in Seq(F) /\ Len(b) = Len(s) - m + 1
        /\ \A j \in 1..Len(b) : b[j] = s[m + j - 1]
    BY <2>2, <2>3, Part
  <2> HIDE <1>1
  <2>5. Len(b) = Len(s) - m + 1
    BY <2>4, Zenon
  <2>6. Len(b) = Len(s) - i
    BY <1>3, <2>1, <2>5
  <2>7. \A j \in Int : m + j - 1 = i + j
    BY <1>3, <2>1
  <2>8. ASSUME NEW j \in 1..Len(b) PROVE b[j] = s[i + j]
    <3>1. m + j - 1 = i + j
      BY <2>7
    <3>2. b[j] = s[m + j - 1]
      BY <2>4
    <3> QED BY <3>1, <3>2
  <2> QED BY <2>4, <2>6, <2>8
<1>6. /\ a \o b \in Seq(F) /\ Len(a \o b) = Len(a) + Len(b)
      /\ \A j \in 1..Len(a) + Len(b) : (a \o b)[j] = IF j <= Len(a) THEN a[j] ELSE b[j - Len(a)]
  BY <1>4, <1>5, ConcatProperties
<1>7. /\ t \in Seq(F) /\ Len(t) = Len(a) + Len(b)
      /\ \A j \in 1..Len(t) : t[j] = IF j <= Len(a) THEN a[j] ELSE b[j - Len(a)]
  BY <1>2, <1>6, Zenon
<1> HIDE <1>1, <1>2
<1>8. Len(t) = Len(s) - 1
  BY <1>3, <1>4, <1>5, <1>7
<1>9. \A j \in 1..Len(t) : j \in DOMAIN s /\ j + 1 \in DOMAIN s
  BY <1>3, <1>8
<1>10. ASSUME NEW j \in 1..Len(t) PROVE t[j] = IF j < i THEN s[j] ELSE s[j + 1]
  <2>1. CASE j < i
    <3>1. j <= Len(a) /\ j \in 1..Len(a)
      BY <1>3, <1>4, <1>8, <2>1
    <3> QED BY <1>4, <1>7, <2>1, <3>1
  <2>2. CASE ~(j < i)
    <3>1. ~(j <= Len(a)) /\ j - Len(a) \in 1..Len(b) /\ i + (j - Len(a)) = j + 1
      BY <1>3, <1>4, <1>5, <1>8, <2>2
    <3>2. t[j] = b[j - Len(a)]
      BY <1>7, <3>1
    <3>3. b[j - Len(a)] = s[i + (j - Len(a))]
      BY <1>5, <3>1
    <3> QED BY <2>2, <3>1, <3>2, <3>3
  <2> QED BY <2>1, <2>2
<1> QED BY <1>7, <1>8, <1>9, <1>10

\* What stays of frames in order is in order.
LEMMA RemovingKeeps ==
    ASSUME NEW F, Timed(F), NEW s \in Seq(F), Sorted(s), NEW i \in DOMAIN s,
           NEW t, t = Pacing!RemoveAt(s, i)
    PROVE  /\ t \in Seq(F) /\ Sorted(t) /\ Len(t) <= Len(s)
           /\ \A j \in DOMAIN t : \E k \in DOMAIN s : t[j] = s[k]
<1>1. /\ t \in Seq(F) /\ Len(t) = Len(s) - 1
      /\ \A j \in 1..Len(t) : j \in DOMAIN s /\ j + 1 \in DOMAIN s
      /\ \A j \in 1..Len(t) : t[j] = IF j < i THEN s[j] ELSE s[j + 1]
  BY Removing, ZenonT(60)
<1>2. \A j \in DOMAIN t : \E k \in DOMAIN s : t[j] = s[k]
  <2>1. DOMAIN t = 1..Len(t)
    BY <1>1
  <2>2. ASSUME NEW j \in 1..Len(t) PROVE \E k \in DOMAIN s : t[j] = s[k]
    <3>1. /\ j \in DOMAIN s /\ j + 1 \in DOMAIN s
          /\ t[j] = IF j < i THEN s[j] ELSE s[j + 1]
      BY <1>1, Zenon
    <3>2. t[j] = s[j] \/ t[j] = s[j + 1]
      BY <3>1, Zenon
    <3> QED BY <3>1, <3>2, Zenon
  <2> QED BY <2>1, <2>2, Zenon
<1>3. Sorted(t)
  <2>0. DOMAIN t = 1..Len(t)
    BY <1>1
  <2> SUFFICES ASSUME NEW j \in 1..Len(t), NEW k \in 1..Len(t), j < k
               PROVE  t[j].target <= t[k].target
    BY <2>0, Zenon DEF Sorted
  <2>1. PICK x, y : /\ x = (IF j < i THEN j ELSE j + 1) /\ y = (IF k < i THEN k ELSE k + 1)
    OBVIOUS
  <2>2. x \in DOMAIN s /\ y \in DOMAIN s /\ x < y
    BY <1>1, <2>1
  <2>3. t[j] = s[x] /\ t[k] = s[y]
    BY <1>1, <2>1
  <2> QED BY <2>2, <2>3 DEF Sorted
<1>4. Len(t) <= Len(s)
  BY <1>1
<1> QED BY <1>1, <1>2, <1>3, <1>4

\* The first n frames, and those behind them.
Split(s, n, a, b) == a = SubSeq(s, 1, n) /\ b = SubSeq(s, n + 1, Len(s))

LEMMA Splitting ==
    ASSUME NEW F, NEW s \in Seq(F), Sorted(s), NEW n \in 0..Len(s), NEW a, NEW b, Split(s, n, a, b)
    PROVE  /\ a \in Seq(F) /\ Len(a) = n /\ \A i \in DOMAIN a : i \in DOMAIN s /\ a[i] = s[i]
           /\ b \in Seq(F) /\ Len(b) = Len(s) - n /\ Sorted(b)
           /\ \A j \in DOMAIN b : \E k \in DOMAIN s : b[j] = s[k]
           /\ \A i \in DOMAIN a : \A j \in DOMAIN b : a[i].target <= b[j].target
<1>1. Len(s) \in Nat /\ n \in Nat /\ n <= Len(s)
  OBVIOUS
<1>2. /\ a \in Seq(F) /\ Len(a) = n
      /\ \A i \in 1..Len(a) : i \in DOMAIN s /\ a[i] = s[i]
  <2>1. 1 \in 1..Len(s) + 1 /\ n \in 0..Len(s) /\ 1 <= n + 1
    BY <1>1
  <2>2. /\ a \in Seq(F) /\ Len(a) = n - 1 + 1
        /\ \A i \in 1..Len(a) : a[i] = s[1 + i - 1]
    BY <2>1, Part DEF Split
  <2> QED BY <1>1, <2>2
<1>3. /\ b \in Seq(F) /\ Len(b) = Len(s) - n
      /\ \A i \in 1..Len(b) : n + i \in DOMAIN s /\ b[i] = s[n + i]
  <2>0. PICK m : m = n + 1
    OBVIOUS
  <2>1. m \in 1..Len(s) + 1 /\ Len(s) \in 0..Len(s) /\ m <= Len(s) + 1
    BY <1>1, <2>0
  <2>2. /\ b \in Seq(F) /\ Len(b) = Len(s) - m + 1
        /\ \A i \in 1..Len(b) : b[i] = s[m + i - 1]
    <3>1. b = SubSeq(s, m, Len(s))
      BY <2>0, Zenon DEF Split
    <3> QED BY <2>1, <3>1, Part
  <2>3. Len(b) = Len(s) - n /\ \A i \in 1..Len(b) : m + i - 1 = n + i /\ n + i \in DOMAIN s
    BY <1>1, <2>0, <2>2
  <2> QED BY <2>2, <2>3
<1>4. Sorted(b)
  <2> SUFFICES ASSUME NEW i \in 1..Len(b), NEW j \in 1..Len(b), i < j
               PROVE  b[i].target <= b[j].target
    BY <1>3 DEF Sorted
  <2>1. n + i < n + j /\ n + i \in DOMAIN s /\ n + j \in DOMAIN s
    BY <1>1, <1>3
  <2> QED BY <1>3, <2>1 DEF Sorted
<1>5. ASSUME NEW i \in DOMAIN a, NEW j \in DOMAIN b PROVE a[i].target <= b[j].target
  <2>1. i \in 1..Len(a) /\ j \in 1..Len(b)
    BY <1>2, <1>3
  <2>2. i \in DOMAIN s /\ n + j \in DOMAIN s /\ a[i] = s[i] /\ b[j] = s[n + j]
    BY <1>2, <1>3, <2>1
  <2>3. i < n + j
    BY <1>1, <1>2, <2>1
  <2> QED BY <2>2, <2>3, Zenon DEF Sorted
<1>6. /\ \A i \in DOMAIN a : i \in DOMAIN s /\ a[i] = s[i]
      /\ \A j \in DOMAIN b : \E k \in DOMAIN s : b[j] = s[k]
  <2>1. DOMAIN a = 1..Len(a) /\ DOMAIN b = 1..Len(b)
    BY <1>2, <1>3
  <2> QED BY <1>2, <1>3, <2>1, Zenon
<1> QED BY <1>2, <1>3, <1>4, <1>5, <1>6

-----------------------------------------------------------------------------
Thread == {"checking", "collecting", "sending", "flushing"}

\* What run_stream keeps, where its thread is: the library reads the frame shown
\* last, but while the next one is about to be sent, and then there is room.
WorkerOK(l, where) ==
    /\ l = [state |-> l.state, queue |-> l.queue, started |-> l.started, deadline |-> l.deadline,
            observations |-> l.observations, inflight |-> l.inflight]
    /\ where \in Thread \cup {"waiting", "ended"}
    /\ where \notin Thread => l = Pacing!Idle
    /\ where \in Thread =>
          /\ l.state \in States
          /\ Queue(l.queue, Of(l.state.stream), Pacing!QueueCapacity(l.state.buffer))
          /\ l.started \in BOOLEAN /\ l.deadline \in Int /\ l.observations \in Seq(Int)
          /\ l.started => l.observations # <<>>
          /\ l.inflight \in Of(l.state.stream) \cup {None}
          /\ where # "sending" => l.inflight \in {None, l.queue.current}
          /\ where = "sending" =>
                /\ l.queue.current # None
                /\ \/ l.inflight \in {None, l.queue.current}
                   \/ Len(l.queue.frames) + 1 <= Pacing!QueueCapacity(l.state.buffer)

WorkerInv == WorkerOK(local, worker) /\ reading = local.inflight /\ sent \in Int

\* The node's stream is of the timing and the rate of the frame.
NodeInv ==
    /\ stream \in Handles \cup {None} /\ dimensions \in Dimensions \cup {Unset} /\ worker_running \in BOOLEAN
    /\ active \/ stream # None => /\ duration \in Durations
                                  /\ \E b \in Buffers : timing = <<context.epoch, b>>
    /\ stream_state = IF stream = None THEN None
                      ELSE [stream |-> stream, duration |-> duration, buffer |-> timing[2]]

SubmittedInv ==
    /\ submitted = [st \in Handles |-> submitted[st]]
    /\ \A st \in Handles : /\ submitted[st] \in Seq(Of(st)) /\ Sorted(submitted[st])
                           /\ \A i \in DOMAIN submitted[st] : submitted[st][i].target <= context.target

\* Whether none of the frames is older.
Newer(t, frames) == \A i \in DOMAIN frames : t <= frames[i].target

\* The frames of a queue.
In(f, q) == (f = q.current /\ f # None) \/ \E i \in DOMAIN q.frames : f = q.frames[i]

\* What was sent, until t, is not newer than what the queue of a stream has, that
\* not than what is submitted to it, and that not than what the next stream has.
Behind(t, latest, q, st, following, frames) ==
    /\ Newer(t, frames[st])
    /\ \A f : In(f, q) =>
          /\ t <= f.target /\ f.target <= latest /\ Newer(f.target, frames[st])
          /\ following \notin {None, st} => Newer(f.target, frames[following])
    /\ following \notin {None, st} =>
          \A i \in DOMAIN frames[st] : Newer(frames[st][i].target, frames[following])

PlayInv ==
    /\ sent <= context.target
    /\ stream # None => Newer(sent, submitted[stream])
    /\ local.state # None =>
          Behind(sent, context.target, local.queue, local.state.stream, stream, submitted)

\* The node's stream has no more than its slots.
SlotsInv == stream # None => Pacing!SlotsUsed(stream) <= Pacing!SlotCount(timing[2])

PacingInv == ClockInv /\ WorkerInv /\ NodeInv /\ SubmittedInv /\ PlayInv /\ SlotsInv

\* The queue of a new stream.
LEMMA EmptyIsPacingQueue ==
    \A F : \A c \in Nat : Queue(Pacing!EmptyQueue, F, c) /\ \A f : ~In(f, Pacing!EmptyQueue)
BY DEF Pacing!EmptyQueue, Queue, Sorted, After, In

\* The thread has a stream or nothing.
LEMMA ThreadHasStream ==
    ASSUME NEW l, NEW where, WorkerOK(l, where)
    PROVE  /\ l.state # None => where \in Thread
           /\ where \in Thread => /\ l.state \in States /\ l.state # None
                                  /\ l.state.stream \in Handles
                                  /\ l.state.buffer \in Nat \ {0} /\ l.state.duration \in Nat \ {0}
                                  /\ Pacing!QueueCapacity(l.state.buffer) \in Nat \ {0}
           /\ where \notin Thread => l.state = None /\ l.inflight = None /\ l.queue = Pacing!EmptyQueue
<1>1. where \notin Thread => l.state = None /\ l.inflight = None /\ l.queue = Pacing!EmptyQueue
  BY DEF WorkerOK, Pacing!Idle
<1>2. ASSUME where \in Thread
      PROVE  /\ l.state \in States /\ l.state # None
             /\ l.state.stream \in Handles
             /\ l.state.buffer \in Nat \ {0} /\ l.state.duration \in Nat \ {0}
             /\ Pacing!QueueCapacity(l.state.buffer) \in Nat \ {0}
  <2>1. l.state \in States
    BY <1>2 DEF WorkerOK
  <2>2. l.state # None /\ l.state.stream \in Handles /\ l.state.buffer \in Buffers /\ l.state.duration \in Durations
    BY <2>1, PacingConstants DEF States
  <2>3. l.state.buffer \in Nat \ {0} /\ l.state.duration \in Nat \ {0}
    BY <2>2, PacingConstants
  <2> QED BY <2>1, <2>2, <2>3, PacingConstants DEF Pacing!QueueCapacity
<1> QED BY <1>1, <1>2

\* The slots of a stream that frames s of it and what the thread keeps use.
Using(s, l, st) == Len(s) + Cardinality({f \in HeldBy(l.queue, l.inflight) : f.stream = st})

\* SlotsUsed, with the state as arguments.
LEMMA SlotsAreUsing ==
    \A st : /\ Pacing!SlotsUsed(st) = Using(submitted[st], local, st)
            /\ Pacing!SlotsUsed(st)' = Using(submitted'[st], local', st)
<1> TAKE st
<1>1. Pacing!SlotsUsed(st) = Using(submitted[st], local, st)
  BY SameCount, Zenon DEF Pacing!SlotsUsed, Pacing!Held, Using, HeldBy
<1>2. Pacing!SlotsUsed(st)' = Using(submitted'[st], local', st)
  BY SameCount, Zenon DEF Pacing!SlotsUsed, Pacing!Held, Using, HeldBy
<1> QED BY <1>1, <1>2

\* Slots are used by what is submitted, and by what the thread has of the stream.
LEMMA SlotsAreUsed ==
    ASSUME NEW l, NEW where, WorkerOK(l, where), NEW st \in Handles, NEW F, NEW s \in Seq(F),
           NEW H, H = HeldBy(l.queue, l.inflight)
    PROVE  /\ IsFiniteSet(H) /\ Cardinality(H) \in Nat
           /\ Using(s, l, st) \in Nat
           /\ l.state # None /\ l.state.stream = st => Using(s, l, st) = Len(s) + Cardinality(H)
           /\ ~(l.state # None /\ l.state.stream = st) => Using(s, l, st) = Len(s)
<1>1. Len(s) \in Nat
  OBVIOUS
<1>3. PICK S : S = {f \in H : f.stream = st}
  OBVIOUS
<1>4. Using(s, l, st) = Len(s) + Cardinality(S)
  BY <1>3, Zenon DEF Using
<1>5. CASE where \in Thread
  <2>1. /\ l.state # None
        /\ Queue(l.queue, Of(l.state.stream), Pacing!QueueCapacity(l.state.buffer))
        /\ Pacing!QueueCapacity(l.state.buffer) \in Nat
        /\ l.inflight \in Of(l.state.stream) \cup {None}
    BY <1>5, ThreadHasStream DEF WorkerOK
  <2>2. IsFiniteSet(H) /\ Cardinality(H) \in Nat
    BY <2>1, HeldIsCounted
  <2>3. \A f \in H : f.stream = l.state.stream
    <3>1. l.queue.frames \in Seq(Of(l.state.stream)) /\ l.queue.current \in Of(l.state.stream) \cup {None}
      BY <2>1 DEF Queue
    <3>2. \A i \in DOMAIN l.queue.frames : l.queue.frames[i] \in Of(l.state.stream)
      BY <3>1
    <3>3. \A f \in H : f \in Of(l.state.stream)
      BY <2>1, <3>1, <3>2, Zenon DEF HeldBy
    <3> QED BY <3>3 DEF Of
  <2>4. CASE l.state.stream = st
    <3>1. S = H
      BY <1>3, <2>3, <2>4
    <3>2. Using(s, l, st) = Len(s) + Cardinality(H)
      BY <1>4, <3>1, Zenon
    <3>3. Len(s) + Cardinality(H) \in Nat
      BY <1>1, <2>2
    <3> QED BY <2>1, <2>2, <2>4, <3>2, <3>3, Zenon
  <2>5. CASE l.state.stream # st
    <3>1. S = {}
      BY <1>3, <2>3, <2>5
    <3>2. Cardinality(S) = 0
      BY <3>1, FS_EmptySet
    <3>3. Using(s, l, st) = Len(s)
      BY <1>1, <1>4, <3>2
    <3> QED BY <1>1, <2>2, <2>5, <3>3, Zenon
  <2> QED BY <2>4, <2>5
<1>6. CASE where \notin Thread
  <2>1. l.state = None /\ l.inflight = None /\ l.queue = Pacing!EmptyQueue
    BY <1>6, ThreadHasStream
  <2>2. H = {}
    BY <2>1 DEF HeldBy, Pacing!EmptyQueue
  <2>3. S = {}
    BY <1>3, <2>2
  <2>4. Cardinality(S) = 0 /\ IsFiniteSet(H) /\ Cardinality(H) = 0
    BY <2>2, <2>3, FS_EmptySet
  <2>5. Using(s, l, st) = Len(s) /\ Cardinality(H) \in Nat
    BY <1>1, <1>4, <2>4
  <2> QED BY <1>1, <2>1, <2>4, <2>5, Zenon
<1> QED BY <1>5, <1>6

\* The times of the frames that are somewhere.
LEMMA TargetsAreNumbers ==
    ASSUME ClockInv, WorkerInv, SubmittedInv
    PROVE  /\ sent \in Int /\ context.target \in Int
           /\ \A st \in Handles : \A i \in DOMAIN submitted[st] : submitted[st][i].target \in Int
           /\ \A f : In(f, local.queue) => f.target \in Int /\ local.state # None
<1>1. sent \in Int /\ context.target \in Int
  BY ClockTypes DEF WorkerInv
<1>2. ASSUME NEW st \in Handles, NEW i \in DOMAIN submitted[st] PROVE submitted[st][i].target \in Int
  <2>1. submitted[st] \in Seq(Of(st)) /\ Timed(Of(st))
    BY PacingConstants DEF SubmittedInv
  <2>2. submitted[st][i] \in Of(st)
    BY <2>1
  <2> QED BY <2>1, <2>2, Zenon DEF Timed
<1>3. ASSUME NEW f, In(f, local.queue) PROVE f.target \in Int /\ local.state # None
  <2>1. CASE worker \in Thread
    <3>1. /\ Queue(local.queue, Of(local.state.stream), Pacing!QueueCapacity(local.state.buffer))
          /\ local.state.stream \in Handles /\ local.state # None
      BY <2>1, ThreadHasStream DEF WorkerInv, WorkerOK
    <3>2. /\ local.queue.frames \in Seq(Of(local.state.stream))
          /\ local.queue.current \in Of(local.state.stream) \cup {None}
      BY <3>1 DEF Queue
    <3>3. f \in Of(local.state.stream)
      BY <1>3, <3>2 DEF In
    <3>4. Timed(Of(local.state.stream))
      BY <3>1, PacingConstants, Zenon
    <3> QED BY <3>1, <3>3, <3>4, Zenon DEF Timed
  <2>2. CASE worker \notin Thread
    <3>1. local.queue = Pacing!EmptyQueue
      BY <2>2, ThreadHasStream DEF WorkerInv
    <3> QED BY <1>3, <3>1 DEF Pacing!EmptyQueue, In
  <2> QED BY <2>1, <2>2
<1> QED BY <1>1, <1>2, <1>3

\* Frames go, and time goes on.
LEMMA OrderStays ==
    ASSUME PacingInv, sent' = sent, context'.target \in Int, context.target <= context'.target,
           stream' \in {None, stream},
           local'.state # None => local'.state = local.state,
           \A f : In(f, local'.queue) => In(f, local.queue),
           \A st \in Handles : \A i \in DOMAIN submitted'[st] :
              \E j \in DOMAIN submitted[st] : submitted'[st][i] = submitted[st][j]
    PROVE  PlayInv'
<1> USE DEF PacingInv
<1>1. /\ sent \in Int /\ context.target \in Int
      /\ \A f : In(f, local.queue) => f.target \in Int
  BY TargetsAreNumbers
<1>2. sent' <= context'.target
  <2>1. sent <= context.target
    BY DEF PlayInv
  <2> QED BY <1>1, <2>1
<1>3. stream # None => stream \in Handles
  BY DEF NodeInv
<1>4. stream' # None => Newer(sent', submitted'[stream'])
  <2>1. stream # None => Newer(sent, submitted[stream])
    BY DEF PlayInv
  <2> QED BY <1>3, <2>1 DEF Newer
<1>5. ASSUME local'.state # None
      PROVE  Behind(sent', context'.target, local'.queue, local'.state.stream, stream', submitted')
  <2>1. local.state # None /\ local'.state.stream = local.state.stream /\ local.state.stream \in Handles
    BY <1>5, ThreadHasStream DEF WorkerInv
  <2>2. Behind(sent, context.target, local.queue, local.state.stream, stream, submitted)
    BY <2>1 DEF PlayInv
  <2>3. Behind(sent, context'.target, local'.queue, local.state.stream, stream', submitted')
    <3>1. PICK t, c, q, st, str, sub, c2, q2, str2, sub2 :
            /\ t = sent /\ c = context.target /\ q = local.queue /\ st = local.state.stream
            /\ str = stream /\ sub = submitted
            /\ c2 = context'.target /\ q2 = local'.queue /\ str2 = stream' /\ sub2 = submitted'
      BY Zenon
    <3>2. /\ t \in Int /\ c \in Int /\ c2 \in Int /\ c <= c2
          /\ Behind(t, c, q, st, str, sub) /\ st \in Handles
          /\ \A f : In(f, q2) => In(f, q) /\ f.target \in Int
          /\ str2 \in {None, str} /\ (str # None => str \in Handles)
          /\ \A s \in Handles : \A i \in DOMAIN sub2[s] : \E j \in DOMAIN sub[s] : sub2[s][i] = sub[s][j]
      BY <1>1, <1>3, <2>1, <2>2, <3>1, Zenon
    <3> HIDE <3>1
    <3>3. Behind(t, c2, q2, st, str2, sub2)
      <4>1. \A x : \A s \in Handles : Newer(x, sub[s]) => Newer(x, sub2[s])
        BY <3>2 DEF Newer
      <4>2. Newer(t, sub2[st])
        BY <3>2, <4>1, Zenon DEF Behind
      <4>3. ASSUME NEW f, In(f, q2)
            PROVE  /\ t <= f.target /\ f.target <= c2 /\ Newer(f.target, sub2[st])
                   /\ str2 \notin {None, st} => Newer(f.target, sub2[str2])
        <5>1. /\ In(f, q) /\ f.target \in Int /\ t <= f.target /\ f.target <= c /\ Newer(f.target, sub[st])
              /\ str \notin {None, st} => Newer(f.target, sub[str])
          BY <4>3, <3>2, Zenon DEF Behind
        <5>2. t <= f.target /\ f.target <= c2
          BY <3>2, <5>1
        <5>3. Newer(f.target, sub2[st])
          BY <3>2, <4>1, <5>1, Zenon
        <5>4. str2 \notin {None, st} => Newer(f.target, sub2[str2])
          BY <3>2, <4>1, <5>1
        <5> QED BY <5>2, <5>3, <5>4
      <4>4. ASSUME str2 \notin {None, st}, NEW i \in DOMAIN sub2[st]
            PROVE  Newer(sub2[st][i].target, sub2[str2])
        <5>1. PICK j \in DOMAIN sub[st] : sub2[st][i] = sub[st][j]
          BY <3>2, <4>4
        <5>2. str2 = str /\ str \in Handles
          BY <3>2, <4>4
        <5>3. Newer(sub[st][j].target, sub[str])
          BY <4>4, <5>2, <3>2, Zenon DEF Behind
        <5> QED BY <4>1, <5>1, <5>2, <5>3, Zenon
      <4> QED BY <4>2, <4>3, <4>4, <3>2, Zenon DEF Behind
    <3> QED BY <3>1, <3>3, Zenon
  <2> QED BY <2>1, <2>3
<1> QED BY <1>2, <1>4, <1>5 DEF PlayInv

\* Program time goes on, past what was submitted.
LEMMA SubmittedStays ==
    ASSUME PacingInv, context'.target \in Int, context.target <= context'.target,
           submitted' = submitted
    PROVE  SubmittedInv'
<1>1. \A st \in Handles : \A i \in DOMAIN submitted[st] : submitted[st][i].target \in Int
  BY TargetsAreNumbers DEF PacingInv
<1>2. context.target \in Int
  BY ClockTypes DEF PacingInv
<1>3. ASSUME NEW st \in Handles, NEW i \in DOMAIN submitted[st] PROVE submitted[st][i].target <= context'.target
  <2>1. submitted[st][i].target <= context.target
    BY DEF PacingInv, SubmittedInv
  <2> QED BY <1>1, <1>2, <2>1
<1>4. /\ submitted = [st \in Handles |-> submitted[st]]
      /\ \A st \in Handles : submitted[st] \in Seq(Of(st)) /\ Sorted(submitted[st])
  BY Zenon DEF PacingInv, SubmittedInv
<1> QED BY <1>3, <1>4, Zenon DEF SubmittedInv

\* The clock goes on, or the node's stream goes; the thread has what it had.
LEMMA NodeMoves ==
    ASSUME PacingInv, ClockInv', context'.target >= context.target, NodeInv',
           UNCHANGED <<submitted, local, reading, sent>>,
           worker' = worker \/ (worker' = "waiting" /\ worker = "ended"),
           stream' = None \/ (stream' = stream /\ timing' = timing)
    PROVE  PacingInv'
<1>1. context.target <= context'.target /\ context'.target \in Int
  <2>1. context.target \in Int
    BY ClockTypes DEF PacingInv
  <2>2. context'.target \in Int
    BY DEF ClockInv, Contexts
  <2> QED BY <2>1, <2>2
<1>2. WorkerInv'
  <2>1. WorkerOK(local, worker)'
    BY DEF PacingInv, WorkerInv, WorkerOK, Thread
  <2> QED BY <2>1 DEF PacingInv, WorkerInv
<1>3. SubmittedInv'
  BY <1>1, SubmittedStays
<1>4. PlayInv'
  <2>1. \A st \in Handles : \A i \in DOMAIN submitted'[st] :
           \E j \in DOMAIN submitted[st] : submitted'[st][i] = submitted[st][j]
    OBVIOUS
  <2>2. stream' \in {None, stream} /\ local' = local /\ sent' = sent
    OBVIOUS
  <2> QED BY <1>1, <2>1, <2>2, OrderStays
<1>5. SlotsInv'
  <2>1. \A st : Pacing!SlotsUsed(st)' = Pacing!SlotsUsed(st)
    BY DEF Pacing!SlotsUsed, Pacing!Held
  <2>2. \A b : Pacing!SlotCount(b)' = Pacing!SlotCount(b)
    BY DEF Pacing!SlotCount, Pacing!QueueCapacity
  <2> QED BY <2>1, <2>2 DEF PacingInv, SlotsInv
<1> QED BY <1>2, <1>3, <1>4, <1>5 DEF PacingInv

\* A new timing takes the node's stream away.
LEMMA BeginNodeKeeps ==
    ASSUME PacingInv, NEW d \in Durations, NEW b \in Buffers, Pacing!BeginNodeFrame(d, b)
    PROVE  PacingInv'
<1>1. /\ Pacing!BeginFrame(d) /\ Pacing!Prepare(b)
      /\ UNCHANGED <<worker_running, worker, local, reading, sent, submitted>>
  BY DEF Pacing!BeginNodeFrame, Pacing!worker_vars
<1>2. /\ ClockInv' /\ context'.target >= context.target
      /\ context'.epoch = context.epoch => duration' = duration
  BY <1>1, BeginFrameKeeps DEF PacingInv
<1>3. timing' = <<context'.epoch, b>>
  BY <1>1 DEF Pacing!Prepare
<1>4. CASE timing' = timing
  <2>1. UNCHANGED <<stream, dimensions, stream_state>>
    BY <1>1, <1>4 DEF Pacing!Prepare
  <2>2. NodeInv'
    <3>1. duration' \in Durations /\ \E x \in Buffers : timing' = <<context'.epoch, x>>
      BY <1>1, <1>3 DEF Pacing!BeginFrame
    <3>2. stream # None => context'.epoch = context.epoch
      <4>1. SUFFICES ASSUME stream # None PROVE context'.epoch = context.epoch
        OBVIOUS
      <4>2. PICK x \in Buffers : timing = <<context.epoch, x>>
        BY <4>1 DEF PacingInv, NodeInv
      <4> QED BY <1>3, <1>4, <4>2
    <3>3. stream # None => duration' = duration
      BY <1>2, <3>2
    <3>4. stream' \in Handles \cup {None} /\ dimensions' \in Dimensions \cup {Unset} /\ worker_running' \in BOOLEAN
      BY <1>1, <2>1 DEF PacingInv, NodeInv
    <3>5. stream_state' = IF stream' = None THEN None
                          ELSE [stream |-> stream', duration |-> duration', buffer |-> timing'[2]]
      BY <1>4, <2>1, <3>3 DEF PacingInv, NodeInv
    <3> QED BY <3>1, <3>4, <3>5, Zenon DEF NodeInv
  <2>3. stream' = stream /\ worker' = worker
    BY <1>1, <2>1
  <2> QED BY <1>1, <1>2, <1>4, <2>2, <2>3, NodeMoves
<1>5. CASE timing' # timing
  <2>1. stream' = None /\ dimensions' = Unset /\ stream_state' = None
    BY <1>1, <1>5 DEF Pacing!Prepare
  <2>2. duration' \in Durations /\ \E x \in Buffers : timing' = <<context'.epoch, x>>
    BY <1>1, <1>3 DEF Pacing!BeginFrame
  <2>3. worker_running' \in BOOLEAN
    BY <1>1 DEF PacingInv, NodeInv
  <2>4. NodeInv'
    BY <2>1, <2>2, <2>3, Zenon DEF NodeInv
  <2>5. worker' = worker
    BY <1>1
  <2> QED BY <1>1, <1>2, <2>1, <2>4, <2>5, NodeMoves
<1> QED BY <1>4, <1>5

\* Nothing but the clock's time, or nothing.
LEMMA TimePasses ==
    ASSUME PacingInv,
           Pacing!Tick \/ UNCHANGED Pacing!scheduler,
           UNCHANGED <<timing, stream, dimensions, submitted, worker_running, stream_state,
                       worker, local, reading, sent>>
    PROVE  PacingInv'
<1>1. ClockInv' /\ UNCHANGED <<duration, active, context>>
  BY ClockTicks DEF PacingInv, Pacing!Tick, Pacing!scheduler
<1>2. context'.target >= context.target
  BY <1>1, ClockTypes DEF PacingInv
<1>3. NodeInv'
  BY <1>1 DEF PacingInv, NodeInv
<1>4. worker' = worker /\ stream' = stream /\ timing' = timing
  OBVIOUS
<1> QED BY <1>1, <1>2, <1>3, <1>4, NodeMoves

\* The sender is closed, or followed by another.
LEMMA SenderKeeps ==
    ASSUME PacingInv, Pacing!CloseSender \/ Pacing!OpenSender
    PROVE  PacingInv'
<1>1. UNCHANGED Pacing!scheduler /\ UNCHANGED <<timing, submitted, local, reading, sent>>
  BY DEF Pacing!CloseSender, Pacing!OpenSender, Pacing!worker_vars, Pacing!node_vars
<1>2. ClockInv' /\ UNCHANGED <<duration, active, context>>
  BY <1>1, ClockTicks DEF PacingInv, Pacing!scheduler
<1>3. context'.target >= context.target
  BY <1>2, ClockTypes DEF PacingInv
<1>4. CASE Pacing!CloseSender
  <2>1. /\ ~active /\ worker_running' = FALSE /\ stream' = None /\ dimensions' = Unset
        /\ stream_state' = None /\ worker' = worker
    BY <1>4 DEF Pacing!CloseSender, Pacing!worker_vars
  <2>2. NodeInv'
    BY <1>2, <2>1 DEF NodeInv
  <2> QED BY <1>1, <1>2, <1>3, <2>1, <2>2, NodeMoves
<1>5. CASE Pacing!OpenSender
  <2>1. /\ worker = "ended" /\ worker_running' = TRUE /\ worker' = "waiting"
        /\ UNCHANGED <<stream, dimensions, stream_state>>
    BY <1>5 DEF Pacing!OpenSender, Pacing!node_vars
  <2>2. NodeInv'
    BY <1>1, <1>2, <2>1 DEF PacingInv, NodeInv
  <2> QED BY <1>1, <1>2, <1>3, <2>1, <2>2, NodeMoves
<1> QED BY <1>4, <1>5

\* A step of the thread takes no slots the node could have.
LEMMA WorkerMoves ==
    ASSUME PacingInv, UNCHANGED Pacing!scheduler,
           UNCHANGED <<timing, stream, dimensions, worker_running, stream_state>>,
           WorkerInv', SubmittedInv', PlayInv',
           \A st \in Handles : Using(submitted'[st], local', st) <= Using(submitted[st], local, st)
    PROVE  PacingInv'
<1>1. ClockInv' /\ UNCHANGED <<duration, active, context>>
  BY ClockTicks DEF PacingInv, Pacing!scheduler
<1>2. NodeInv'
  BY <1>1 DEF PacingInv, NodeInv
<1>3. SlotsInv'
  <2>1. ASSUME stream # None
        PROVE  Using(submitted'[stream], local', stream) <= Pacing!SlotCount(timing[2])
    <3>1. stream \in Handles
      BY <2>1 DEF PacingInv, NodeInv
    <3>2. PICK n, m, k : /\ n = Using(submitted[stream], local, stream)
                         /\ m = Using(submitted'[stream], local', stream)
                         /\ k = Pacing!SlotCount(timing[2])
      BY Zenon
    <3>3. n \in Nat
      <4>1. submitted[stream] \in Seq(Of(stream)) /\ WorkerOK(local, worker)
        BY <3>1 DEF PacingInv, SubmittedInv, WorkerInv
      <4> QED BY <3>1, <3>2, <4>1, SlotsAreUsed
    <3>4. m \in Nat
      <4>1. submitted'[stream] \in Seq(Of(stream)) /\ WorkerOK(local', worker')
        BY <3>1 DEF SubmittedInv, WorkerInv
      <4> QED BY <3>1, <3>2, <4>1, SlotsAreUsed
    <3>5. m <= n
      BY <3>1, <3>2, Zenon
    <3>6. k \in Int
      <4>1. PICK b \in Buffers : timing = <<context.epoch, b>>
        BY <2>1 DEF PacingInv, NodeInv
      <4>2. timing[2] \in Nat
        BY <4>1, PacingConstants
      <4> QED BY <3>2, <4>2, PacingConstants DEF Pacing!SlotCount, Pacing!QueueCapacity
    <3>7. n <= k
      BY <2>1, <3>2, SlotsAreUsing, Zenon DEF PacingInv, SlotsInv
    <3>8. m <= k
      BY <3>3, <3>4, <3>5, <3>6, <3>7
    <3> QED BY <3>2, <3>8, Zenon
  <2>2. stream' = stream /\ timing' = timing
    OBVIOUS
  <2>3. Pacing!SlotCount(timing[2])' = Pacing!SlotCount(timing[2])
    BY <2>2, Zenon DEF Pacing!SlotCount, Pacing!QueueCapacity
  <2>4. stream' # None => Pacing!SlotsUsed(stream)' <= Pacing!SlotCount(timing[2])'
    <3>1. Pacing!SlotsUsed(stream)' = Using(submitted'[stream'], local', stream')
      BY SameCount, Zenon DEF Pacing!SlotsUsed, Pacing!Held, Using, HeldBy
    <3> QED BY <2>1, <2>2, <2>3, <3>1, Zenon
  <2> QED BY <2>4 DEF SlotsInv
<1> QED BY <1>1, <1>2, <1>3 DEF PacingInv

\* The frame is one of these.
From(f, frames) == \E j \in DOMAIN frames : f = frames[j]

\* The frame joins those submitted before.
LEMMA Joining ==
    ASSUME NEW F, Timed(F), NEW s \in Seq(F), Sorted(s), NEW f \in F,
           \A i \in DOMAIN s : s[i].target <= f.target,
           NEW t, t = Append(s, f)
    PROVE  /\ t \in Seq(F) /\ Sorted(t) /\ Len(t) = Len(s) + 1
           /\ \A i \in DOMAIN t : t[i] = f \/ From(t[i], s)
<1>1. /\ t \in Seq(F) /\ Len(t) = Len(s) + 1 /\ Len(s) \in Nat
      /\ \A i \in 1..Len(s) : t[i] = s[i]
      /\ t[Len(s) + 1] = f
  OBVIOUS
<1>2. DOMAIN s = 1..Len(s) /\ DOMAIN t = 1..Len(t)
  BY <1>1
<1>3. PICK n \in Nat : n = Len(s)
  BY <1>1
<1>4. ASSUME NEW i \in DOMAIN t PROVE t[i] = f \/ From(t[i], s)
  <2>1. i \in 1..n \/ i = n + 1
    BY <1>1, <1>2, <1>3
  <2> QED BY <1>1, <1>2, <1>3, <2>1 DEF From
<1>5. Sorted(t)
  <2> SUFFICES ASSUME NEW i \in DOMAIN t, NEW j \in DOMAIN t, i < j
               PROVE  t[i].target <= t[j].target
    BY DEF Sorted
  <2>1. i \in 1..n /\ (j \in 1..n \/ j = n + 1) /\ i \in DOMAIN s
    BY <1>1, <1>2, <1>3
  <2>2. CASE j \in 1..n
    <3>1. t[i] = s[i] /\ t[j] = s[j] /\ j \in DOMAIN s
      BY <1>1, <1>2, <1>3, <2>1, <2>2
    <3> QED BY <2>1, <3>1 DEF Sorted
  <2>3. CASE j = n + 1
    <3>1. t[i] = s[i] /\ t[j] = f
      BY <1>1, <1>3, <2>1, <2>3
    <3> QED BY <2>1, <3>1
  <2> QED BY <2>1, <2>2, <2>3
<1> QED BY <1>1, <1>4, <1>5, Zenon

\* What the node gives its stream, or a new one: what was there, or nothing, and
\* maybe the frame that ends.
Joins(new) ==
    /\ submitted' = [submitted EXCEPT ![stream'] = new]
    /\ Sorted(new)
    /\ \A i \in DOMAIN new :
          new[i].target = context.target \/ (stream' = stream /\ From(new[i], submitted[stream]))
    /\ IF stream' # stream THEN Len(new) <= 1
       ELSE \/ Len(new) = Len(submitted[stream])
            \/ /\ Pacing!SlotsUsed(stream) < Pacing!SlotCount(timing[2])
               /\ Len(new) = Len(submitted[stream]) + 1

LEMMA OutputJoins ==
    ASSUME PacingInv, active, NEW size \in Dimensions, Pacing!Output(size), UNCHANGED <<timing, duration>>
    PROVE  /\ stream' \in Handles /\ dimensions' = size /\ worker_running
           /\ stream_state' = [stream |-> stream', duration |-> duration, buffer |-> timing[2]]
           /\ stream' # stream => ~Pacing!Referred(stream')
           /\ \E new \in Seq(Of(stream')) : Joins(new)
<1>1. worker_running /\ Pacing!EnsureStream(size)
  BY DEF Pacing!Output
<1>2. /\ stream' \in Handles /\ dimensions' = size
      /\ stream_state' = [stream |-> stream', duration |-> duration, buffer |-> timing[2]]
      /\ stream' # stream => ~Pacing!Referred(stream')
  <2>1. CASE stream # None /\ dimensions = size
    <3>1. UNCHANGED <<stream, dimensions, stream_state>>
      BY <1>1, <2>1, Zenon DEF Pacing!EnsureStream
    <3>2. /\ stream \in Handles
          /\ stream_state = [stream |-> stream, duration |-> duration, buffer |-> timing[2]]
      BY <2>1 DEF PacingInv, NodeInv
    <3> QED BY <2>1, <3>1, <3>2
  <2>2. CASE ~(stream # None /\ dimensions = size)
    <3>1. \E st \in Handles :
             /\ ~Pacing!Referred(st)
             /\ stream' = st /\ dimensions' = size
             /\ stream_state' = [stream |-> st, duration |-> duration, buffer |-> timing[2]]
      BY <1>1, <2>2, Zenon DEF Pacing!EnsureStream
    <3> QED BY <3>1
  <2> QED BY <2>1, <2>2
<1>3. PICK fresh, frame :
        /\ fresh = (IF stream' # stream THEN <<>> ELSE submitted[stream'])
        /\ frame = [target |-> context.target, stream |-> stream']
  BY Zenon
<1>4. \/ submitted' = [submitted EXCEPT ![stream'] = fresh]
      \/ /\ stream' = stream => Pacing!SlotsUsed(stream) < Pacing!SlotCount(timing[2])
         /\ submitted' = [submitted EXCEPT ![stream'] = Append(fresh, frame)]
  BY <1>3, Zenon DEF Pacing!Output
<1>5. /\ context.target \in Int
      /\ frame \in Of(stream') /\ frame.target = context.target
  BY <1>3, ClockTypes DEF PacingInv, Of
<1>6. Timed(Of(stream'))
  BY <1>2, PacingConstants, Zenon
<1>7. /\ fresh \in Seq(Of(stream')) /\ Sorted(fresh)
      /\ \A i \in DOMAIN fresh : fresh[i].target <= frame.target
      /\ stream' # stream => Len(fresh) = 0 /\ DOMAIN fresh = {}
      /\ stream' = stream => fresh = submitted[stream]
  <2>1. CASE stream' # stream
    <3>1. fresh = <<>>
      BY <1>3, <2>1
    <3>2. <<>> \in Seq(Of(stream')) /\ Len(<<>>) = 0 /\ DOMAIN <<>> = {}
      OBVIOUS
    <3> QED BY <2>1, <3>1, <3>2, Zenon DEF Sorted
  <2>2. CASE stream' = stream
    <3>1. fresh = submitted[stream]
      BY <1>3, <2>2, Zenon
    <3>2. /\ submitted[stream] \in Seq(Of(stream)) /\ Sorted(submitted[stream])
          /\ \A i \in DOMAIN submitted[stream] : submitted[stream][i].target <= context.target
      BY <1>2, <2>2, Zenon DEF PacingInv, SubmittedInv
    <3> QED BY <1>5, <2>2, <3>1, <3>2, Zenon
  <2> QED BY <2>1, <2>2
<1>8. CASE submitted' = [submitted EXCEPT ![stream'] = fresh]
  <2>1. \A i \in DOMAIN fresh : fresh[i].target = context.target \/ (stream' = stream /\ From(fresh[i], submitted[stream]))
    BY <1>7, Zenon DEF From
  <2>2. IF stream' # stream THEN Len(fresh) <= 1 ELSE Len(fresh) = Len(submitted[stream])
    BY <1>7
  <2>3. Joins(fresh)
    BY <1>7, <1>8, <2>1, <2>2, Zenon DEF Joins
  <2> QED BY <1>1, <1>2, <1>7, <2>3, Zenon
<1>9. CASE /\ stream' = stream => Pacing!SlotsUsed(stream) < Pacing!SlotCount(timing[2])
           /\ submitted' = [submitted EXCEPT ![stream'] = Append(fresh, frame)]
  <2>1. PICK t : t = Append(fresh, frame)
    OBVIOUS
  <2>2. /\ t \in Seq(Of(stream')) /\ Sorted(t) /\ Len(t) = Len(fresh) + 1
        /\ \A i \in DOMAIN t : t[i] = frame \/ From(t[i], fresh)
    <3>1. PICK F : F = Of(stream')
      OBVIOUS
    <3>2. /\ Timed(F) /\ fresh \in Seq(F) /\ Sorted(fresh) /\ frame \in F
          /\ \A i \in DOMAIN fresh : fresh[i].target <= frame.target
      BY <1>5, <1>6, <1>7, <3>1, Zenon
    <3>3. /\ t \in Seq(F) /\ Sorted(t) /\ Len(t) = Len(fresh) + 1
          /\ \A i \in DOMAIN t : t[i] = frame \/ From(t[i], fresh)
      BY <2>1, <3>2, Joining
    <3> QED BY <3>1, <3>3, Zenon
  <2>3. \A i \in DOMAIN t : t[i].target = context.target \/ (stream' = stream /\ From(t[i], submitted[stream]))
    <3> SUFFICES ASSUME NEW i \in DOMAIN t, t[i] # frame
                 PROVE  stream' = stream /\ From(t[i], submitted[stream])
      BY <1>5
    <3>1. PICK j \in DOMAIN fresh : t[i] = fresh[j]
      BY <2>2, Zenon DEF From
    <3> QED BY <1>7, <3>1, Zenon DEF From
  <2>4. IF stream' # stream THEN Len(t) <= 1
        ELSE /\ Pacing!SlotsUsed(stream) < Pacing!SlotCount(timing[2])
             /\ Len(t) = Len(submitted[stream]) + 1
    BY <1>7, <1>9, <2>2
  <2>5. submitted' = [submitted EXCEPT ![stream'] = t]
    BY <1>9, <2>1, Zenon
  <2> HIDE <2>1
  <2>6. Joins(t)
    BY <2>2, <2>3, <2>4, <2>5, Zenon DEF Joins
  <2> QED BY <1>1, <1>2, <2>2, <2>6, Zenon
<1> QED BY <1>4, <1>8, <1>9

\* What is not newer than the program's frame and than what the stream had is not
\* newer than what it has.
LEMMA NewerThanJoined ==
    ASSUME PacingInv, NEW new, Joins(new), NEW t \in Int, t <= context.target,
           stream' = stream => Newer(t, submitted[stream])
    PROVE  Newer(t, new)
<1> SUFFICES ASSUME NEW i \in DOMAIN new PROVE t <= new[i].target
  BY DEF Newer
<1>1. new[i].target = context.target \/ (stream' = stream /\ From(new[i], submitted[stream]))
  BY DEF Joins
<1>2. CASE stream' = stream /\ From(new[i], submitted[stream])
  <2>1. PICK j \in DOMAIN submitted[stream] : new[i] = submitted[stream][j]
    BY <1>2 DEF From
  <2>2. Newer(t, submitted[stream])
    BY <1>2
  <2> QED BY <2>1, <2>2, Zenon DEF Newer
<1> QED BY <1>1, <1>2

\* A frame that joins is the newest of its stream.
LEMMA OutputSubmits ==
    ASSUME PacingInv, NEW new \in Seq(Of(stream')), Joins(new), stream' \in Handles,
           context' = context
    PROVE  SubmittedInv'
<1>1. /\ submitted = [st \in Handles |-> submitted[st]]
      /\ \A st \in Handles : /\ submitted[st] \in Seq(Of(st)) /\ Sorted(submitted[st])
                             /\ \A i \in DOMAIN submitted[st] : submitted[st][i].target <= context.target
  BY Zenon DEF PacingInv, SubmittedInv
<1>2. submitted' = [submitted EXCEPT ![stream'] = new]
  BY DEF Joins
<1>3. ASSUME NEW i \in DOMAIN new PROVE new[i].target <= context.target
  <2>1. new[i].target = context.target \/ (stream' = stream /\ From(new[i], submitted[stream]))
    BY DEF Joins
  <2>2. context.target \in Int
    BY ClockTypes DEF PacingInv
  <2>3. CASE stream' = stream /\ From(new[i], submitted[stream])
    BY <1>1, <2>3, Zenon DEF From
  <2> QED BY <2>1, <2>2, <2>3
<1>4. \A st \in Handles : submitted'[st] = IF st = stream' THEN new ELSE submitted[st]
  BY <1>1, <1>2
<1>5. submitted' = [st \in Handles |-> submitted'[st]]
  BY <1>1, <1>2
<1>6. ASSUME NEW st \in Handles
      PROVE  /\ submitted'[st] \in Seq(Of(st)) /\ Sorted(submitted'[st])
             /\ \A i \in DOMAIN submitted'[st] : submitted'[st][i].target <= context'.target
  <2>1. CASE st = stream'
    <3>1. submitted'[st] = new /\ Sorted(new)
      BY <1>4, <2>1 DEF Joins
    <3> QED BY <1>3, <2>1, <3>1, Zenon
  <2>2. CASE st # stream'
    <3>1. submitted'[st] = submitted[st]
      BY <1>4, <2>2
    <3> QED BY <1>1, <3>1, Zenon
  <2> QED BY <2>1, <2>2
<1> QED BY <1>5, <1>6 DEF SubmittedInv

\* The program's frame is not older than anything on its way out.
LEMMA OutputOrders ==
    ASSUME PacingInv, NEW new \in Seq(Of(stream')), Joins(new), stream' \in Handles,
           stream' # stream => ~Pacing!Referred(stream'),
           UNCHANGED <<context, local, sent>>
    PROVE  PlayInv'
<1> USE DEF PacingInv
<1>1. /\ sent \in Int /\ context.target \in Int
      /\ \A st \in Handles : \A i \in DOMAIN submitted[st] : submitted[st][i].target \in Int
      /\ \A f : In(f, local.queue) => f.target \in Int
  BY TargetsAreNumbers
<1>2. /\ stream' # None /\ None \notin Handles
      /\ \A st \in Handles : submitted'[st] = IF st = stream' THEN new ELSE submitted[st]
  <2>1. submitted = [st \in Handles |-> submitted[st]] /\ submitted' = [submitted EXCEPT ![stream'] = new]
    BY DEF SubmittedInv, Joins
  <2> QED BY <2>1, PacingConstants
<1>3. sent <= context.target
  BY DEF PlayInv
<1>4. Newer(sent, new)
  <2>1. stream' = stream => Newer(sent, submitted[stream])
    BY <1>2 DEF PlayInv
  <2> QED BY <1>1, <1>3, <2>1, NewerThanJoined
<1>5. ASSUME local.state # None
      PROVE  Behind(sent, context.target, local.queue, local.state.stream, stream', submitted')
  <2>1. PICK st : st = local.state.stream
    OBVIOUS
  <2>2. st \in Handles
    BY <1>5, <2>1, ThreadHasStream DEF WorkerInv
  <2>3. Behind(sent, context.target, local.queue, st, stream, submitted)
    BY <1>5, <2>1 DEF PlayInv
  <2>4. stream' = st => stream' = stream
    BY <1>5, <2>1 DEF Pacing!Referred
  <2>5. \A t \in Int : t <= context.target /\ Newer(t, submitted[st]) => Newer(t, submitted'[st])
    <3> SUFFICES ASSUME NEW t \in Int, t <= context.target, Newer(t, submitted[st])
                 PROVE  Newer(t, submitted'[st])
      OBVIOUS
    <3>1. CASE stream' = st
      <4>1. stream = st /\ submitted'[st] = new
        BY <1>2, <2>2, <2>4, <3>1
      <4>2. Newer(t, new)
        BY <4>1, NewerThanJoined
      <4> QED BY <4>1, <4>2
    <3>2. CASE stream' # st
      BY <1>2, <2>2, <3>2
    <3> QED BY <3>1, <3>2
  <2>6. Newer(sent, submitted'[st])
    BY <1>1, <1>3, <2>3, <2>5 DEF Behind
  <2>7. \A t \in Int : /\ t <= context.target /\ stream' # st
                       /\ stream \notin {None, st} => Newer(t, submitted[stream])
                       => Newer(t, submitted'[stream'])
    <3> SUFFICES ASSUME NEW t \in Int, t <= context.target, stream' # st,
                        stream \notin {None, st} => Newer(t, submitted[stream])
                 PROVE  Newer(t, submitted'[stream'])
      OBVIOUS
    <3>1. stream' = stream => Newer(t, submitted[stream])
      BY <1>2
    <3>2. Newer(t, new)
      BY <3>1, NewerThanJoined
    <3>3. submitted'[stream'] = new
      BY <1>2
    <3> QED BY <3>2, <3>3
  <2>8. ASSUME NEW f, In(f, local.queue)
        PROVE  /\ sent <= f.target /\ f.target <= context.target /\ Newer(f.target, submitted'[st])
               /\ stream' # st => Newer(f.target, submitted'[stream'])
    <3>1. /\ sent <= f.target /\ f.target <= context.target /\ Newer(f.target, submitted[st])
          /\ stream \notin {None, st} => Newer(f.target, submitted[stream])
      BY <2>3, <2>8, Zenon DEF Behind
    <3>2. f.target \in Int
      BY <1>1, <2>8
    <3>3. Newer(f.target, submitted'[st])
      BY <2>5, <3>1, <3>2, Zenon
    <3>4. stream' # st => Newer(f.target, submitted'[stream'])
      BY <2>7, <3>1, <3>2, Zenon
    <3> QED BY <3>1, <3>3, <3>4
  <2>9. ASSUME stream' # st, NEW i \in DOMAIN submitted'[st]
        PROVE  Newer(submitted'[st][i].target, submitted'[stream'])
    <3>1. submitted'[st] = submitted[st]
      BY <1>2, <2>2, <2>9
    <3>2. PICK t : t = submitted[st][i].target
      OBVIOUS
    <3>3. i \in DOMAIN submitted[st] /\ t \in Int
      BY <1>1, <2>2, <2>9, <3>1, <3>2, Zenon
    <3>4. t <= context.target
      BY <2>2, <3>2, <3>3, Zenon DEF SubmittedInv
    <3>5. stream \notin {None, st} => Newer(t, submitted[stream])
      BY <2>3, <3>2, <3>3, Zenon DEF Behind
    <3>6. Newer(t, submitted'[stream'])
      BY <2>7, <2>9, <3>3, <3>4, <3>5, Zenon
    <3> QED BY <3>1, <3>2, <3>6, Zenon
  <2>10. Behind(sent, context.target, local.queue, st, stream', submitted')
    BY <2>6, <2>8, <2>9, Zenon DEF Behind
  <2> QED BY <2>1, <2>10, Zenon
<1>6. local' = local /\ context' = context /\ sent' = sent
  OBVIOUS
<1>7. Newer(sent, submitted'[stream'])
  BY <1>2, <1>4
<1> QED BY <1>3, <1>5, <1>6, <1>7 DEF PlayInv

\* A frame is drawn only into a slot that is free; a new stream has all of them.
LEMMA OutputUsesSlots ==
    ASSUME PacingInv, active, NEW new \in Seq(Of(stream')), Joins(new), stream' \in Handles,
           stream' # stream => ~Pacing!Referred(stream'),
           UNCHANGED <<timing, local, worker>>
    PROVE  SlotsInv'
<1>1. /\ submitted'[stream'] = new
  <2>1. submitted = [st \in Handles |-> submitted[st]] /\ submitted' = [submitted EXCEPT ![stream'] = new]
    BY DEF PacingInv, SubmittedInv, Joins
  <2> QED BY <2>1
<1>2. WorkerOK(local, worker)
  BY DEF PacingInv, WorkerInv
<1>3. PICK n, H, k : /\ n = Using(new, local, stream') /\ H = HeldBy(local.queue, local.inflight)
                     /\ k = Pacing!SlotCount(timing[2])
  BY Zenon
<1>4. /\ Cardinality(H) \in Nat /\ Len(new) \in Nat
      /\ local.state # None /\ local.state.stream = stream' => n = Len(new) + Cardinality(H)
      /\ ~(local.state # None /\ local.state.stream = stream') => n = Len(new)
  BY <1>2, <1>3, SlotsAreUsed
<1>5. k \in Nat \ {0}
  <2>1. PICK b \in Buffers : timing = <<context.epoch, b>>
    BY DEF PacingInv, NodeInv
  <2>2. timing[2] \in Nat
    BY <2>1, PacingConstants
  <2> QED BY <1>3, <2>2, PacingConstants DEF Pacing!SlotCount, Pacing!QueueCapacity
<1>6. n <= k
  <2>1. CASE stream' # stream
    <3>1. ~(local.state # None /\ local.state.stream = stream')
      BY <2>1 DEF Pacing!Referred
    <3>2. Len(new) <= 1
      BY <2>1 DEF Joins
    <3> QED BY <1>4, <1>5, <3>1, <3>2
  <2>2. CASE stream' = stream
    <3>1. PICK m, len : m = Using(submitted[stream], local, stream) /\ len = Len(submitted[stream])
      OBVIOUS
    <3>2. stream \in Handles /\ submitted[stream] \in Seq(Of(stream)) /\ len \in Nat
      BY <2>2, <3>1 DEF PacingInv, SubmittedInv
    <3>3. /\ local.state # None /\ local.state.stream = stream => m = len + Cardinality(H)
          /\ ~(local.state # None /\ local.state.stream = stream) => m = len
      BY <1>2, <1>3, <3>1, <3>2, SlotsAreUsed
    <3>4. m = Pacing!SlotsUsed(stream)
      BY <3>1, SlotsAreUsing, Zenon
    <3>5. m <= k
      <4>1. stream # None
        BY <2>2, PacingConstants
      <4> QED BY <1>3, <3>4, <4>1, Zenon DEF PacingInv, SlotsInv
    <3>6. Len(new) = len \/ (m < k /\ Len(new) = len + 1)
      BY <1>3, <2>2, <3>1, <3>4, Zenon DEF Joins
    <3>7. n - Len(new) = m - len
      BY <1>4, <2>2, <3>2, <3>3
    <3>8. m \in Nat /\ n \in Nat
      BY <1>4, <3>2, <3>3
    <3> HIDE <1>3, <3>1
    <3> QED BY <1>4, <1>5, <3>2, <3>5, <3>6, <3>7, <3>8
  <2> QED BY <2>1, <2>2
<1>7. Pacing!SlotsUsed(stream)' = n
  <2>1. Pacing!SlotsUsed(stream)' = Using(submitted'[stream'], local', stream')
    BY SameCount, Zenon DEF Pacing!SlotsUsed, Pacing!Held, Using, HeldBy
  <2>2. local' = local
    OBVIOUS
  <2> QED BY <1>1, <1>3, <2>1, <2>2, Zenon
<1>8. Pacing!SlotCount(timing[2])' = k
  <2>1. timing' = timing
    OBVIOUS
  <2> QED BY <1>3, <2>1, Zenon DEF Pacing!SlotCount, Pacing!QueueCapacity
<1> QED BY <1>6, <1>7, <1>8, Zenon DEF SlotsInv

\* The frame ends: the node submits one, or none.
LEMMA OutputKeeps == ASSUME PacingInv, Pacing!FinishNodeFrame PROVE PacingInv'
<1>1. /\ Pacing!FinishFrame
      /\ UNCHANGED <<timing, worker_running, worker, local, reading, sent>>
  BY DEF Pacing!FinishNodeFrame, Pacing!worker_vars
<1>2. /\ ClockInv' /\ context' = context /\ duration' = duration /\ active /\ ~active'
  BY <1>1, FinishFrameKeeps DEF PacingInv, Pacing!FinishFrame
<1>3. context'.target >= context.target
  BY <1>2, ClockTypes DEF PacingInv
<1>4. CASE UNCHANGED <<stream, dimensions, stream_state, submitted>>
  <2>1. NodeInv'
    BY <1>1, <1>2, <1>4 DEF PacingInv, NodeInv
  <2>2. /\ UNCHANGED <<submitted, local, reading, sent>> /\ worker' = worker
        /\ stream' = stream /\ timing' = timing
    BY <1>1, <1>4
  <2> QED BY <1>2, <1>3, <2>1, <2>2, NodeMoves
<1>5. ASSUME NEW size \in Dimensions, Pacing!Output(size) PROVE PacingInv'
  <2>1. /\ stream' \in Handles /\ dimensions' = size /\ worker_running
        /\ stream_state' = [stream |-> stream', duration |-> duration, buffer |-> timing[2]]
        /\ stream' # stream => ~Pacing!Referred(stream')
        /\ \E new \in Seq(Of(stream')) : Joins(new)
    BY <1>1, <1>2, <1>5, OutputJoins
  <2>2. PICK new \in Seq(Of(stream')) : Joins(new)
    BY <2>1
  <2>3. NodeInv'
    <3>1. duration \in Durations /\ \E b \in Buffers : timing = <<context.epoch, b>>
      BY <1>2 DEF PacingInv, NodeInv
    <3>2. duration' \in Durations /\ \E b \in Buffers : timing' = <<context'.epoch, b>>
      BY <1>1, <1>2, <3>1
    <3>3. stream' # None
      BY <2>1, PacingConstants
    <3>4. stream_state' = [stream |-> stream', duration |-> duration', buffer |-> timing'[2]]
      BY <1>1, <1>2, <2>1
    <3>5. worker_running' \in BOOLEAN
      BY <1>1, <2>1
    <3> QED BY <2>1, <3>2, <3>3, <3>4, <3>5, Zenon DEF NodeInv
  <2>4. WorkerInv'
    <3>1. WorkerOK(local', worker') /\ reading' = local'.inflight /\ sent' \in Int
      BY <1>1 DEF PacingInv, WorkerInv
    <3> QED BY <3>1, Zenon DEF WorkerInv
  <2>5. SubmittedInv'
    BY <1>2, <2>1, <2>2, OutputSubmits
  <2>6. PlayInv'
    BY <1>1, <1>2, <2>1, <2>2, OutputOrders
  <2>7. SlotsInv'
    BY <1>1, <1>2, <2>1, <2>2, OutputUsesSlots
  <2> QED BY <1>2, <2>3, <2>4, <2>5, <2>6, <2>7 DEF PacingInv
<1> QED BY <1>4, <1>5 DEF Pacing!FinishNodeFrame

-----------------------------------------------------------------------------
(* The thread of the sender. *)

\* Fewer frames submitted or held use fewer slots.
LEMMA FewerAreUsed ==
    ASSUME NEW l, NEW where, WorkerOK(l, where), NEW l2, NEW where2, WorkerOK(l2, where2),
           l2.state # None => l2.state = l.state,
           NEW st \in Handles, NEW F, NEW s \in Seq(F), NEW F2, NEW s2 \in Seq(F2), Len(s2) <= Len(s),
           l2.state # None /\ l2.state.stream = st =>
              Len(s2) + Cardinality(HeldBy(l2.queue, l2.inflight))
                 <= Len(s) + Cardinality(HeldBy(l.queue, l.inflight))
    PROVE  Using(s2, l2, st) <= Using(s, l, st)
<1>1. PICK H, H2, n, n2 : /\ H = HeldBy(l.queue, l.inflight) /\ H2 = HeldBy(l2.queue, l2.inflight)
                          /\ n = Using(s, l, st) /\ n2 = Using(s2, l2, st)
  BY Zenon
<1>2. /\ Cardinality(H) \in Nat /\ n \in Nat
      /\ l.state # None /\ l.state.stream = st => n = Len(s) + Cardinality(H)
      /\ ~(l.state # None /\ l.state.stream = st) => n = Len(s)
  BY <1>1, SlotsAreUsed
<1>3. /\ Cardinality(H2) \in Nat /\ n2 \in Nat
      /\ l2.state # None /\ l2.state.stream = st => n2 = Len(s2) + Cardinality(H2)
      /\ ~(l2.state # None /\ l2.state.stream = st) => n2 = Len(s2)
  BY <1>1, SlotsAreUsed
<1>4. l2.state # None /\ l2.state.stream = st => Len(s2) + Cardinality(H2) <= Len(s) + Cardinality(H)
  BY <1>1, Zenon
<1>5. Len(s) \in Nat /\ Len(s2) \in Nat
  OBVIOUS
<1> HIDE <1>1
<1>6. n2 <= n
  <2>1. CASE l2.state # None /\ l2.state.stream = st
    <3>1. l.state # None /\ l.state.stream = st
      BY <2>1
    <3> QED BY <1>2, <1>3, <1>4, <2>1, <3>1
  <2>2. CASE ~(l2.state # None /\ l2.state.stream = st)
    <3>1. n2 <= Len(s)
      BY <1>3, <2>2
    <3>2. n >= Len(s)
      BY <1>2, <1>5
    <3> QED BY <1>2, <1>3, <1>5, <3>1, <3>2
  <2> QED BY <2>1, <2>2
<1> QED BY <1>1, <1>6, Zenon

\* What the thread holds is finite.
LEMMA HeldOfThread ==
    ASSUME NEW l, NEW where, WorkerOK(l, where), NEW H, H = HeldBy(l.queue, l.inflight)
    PROVE  IsFiniteSet(H) /\ Cardinality(H) \in Nat
<1>1. <<>> \in Seq({})
  OBVIOUS
<1>2. CASE where \in Thread
  <2>1. l.state.stream \in Handles
    BY <1>2, ThreadHasStream
  <2> QED BY <1>1, <2>1, SlotsAreUsed
<1>3. CASE where \notin Thread
  <2>1. l.inflight = None /\ l.queue = Pacing!EmptyQueue
    BY <1>3, ThreadHasStream
  <2>2. H = {}
    BY <2>1 DEF HeldBy, Pacing!EmptyQueue
  <2> QED BY <2>2, FS_EmptySet
<1> QED BY <1>2, <1>3

\* The thread lets go, at most, and sends nothing.
LEMMA WorkerStays ==
    ASSUME PacingInv, UNCHANGED Pacing!scheduler,
           UNCHANGED <<timing, stream, dimensions, worker_running, stream_state, submitted, sent>>,
           WorkerInv',
           local'.state # None => local'.state = local.state,
           \A f : In(f, local'.queue) => In(f, local.queue),
           HeldBy(local'.queue, local'.inflight) \subseteq HeldBy(local.queue, local.inflight)
    PROVE  PacingInv'
<1>1. context' = context /\ context.target \in Int /\ context.target <= context.target
  BY ClockTypes DEF PacingInv, Pacing!scheduler
<1>2. SubmittedInv'
  BY <1>1, SubmittedStays
<1>3. PlayInv'
  <2>1. \A st \in Handles : \A i \in DOMAIN submitted'[st] :
           \E j \in DOMAIN submitted[st] : submitted'[st][i] = submitted[st][j]
    OBVIOUS
  <2>2. stream' \in {None, stream} /\ context'.target \in Int /\ context.target <= context'.target
    BY <1>1
  <2> QED BY <2>1, <2>2, OrderStays
<1>4. ASSUME NEW st \in Handles
      PROVE  Using(submitted'[st], local', st) <= Using(submitted[st], local, st)
  <2>1. PICK s, l, l2, where, where2, H, H2 :
          /\ s = submitted[st] /\ l = local /\ l2 = local' /\ where = worker /\ where2 = worker'
          /\ H = HeldBy(local.queue, local.inflight) /\ H2 = HeldBy(local'.queue, local'.inflight)
    BY Zenon
  <2>2. /\ WorkerOK(l, where) /\ WorkerOK(l2, where2) /\ s \in Seq(Of(st)) /\ Len(s) \in Nat
        /\ l2.state # None => l2.state = l.state
    BY <2>1 DEF PacingInv, WorkerInv, SubmittedInv
  <2>3. H = HeldBy(l.queue, l.inflight) /\ H2 = HeldBy(l2.queue, l2.inflight) /\ H2 \subseteq H
    BY <2>1, Zenon
  <2>4. IsFiniteSet(H) /\ Cardinality(H) \in Nat /\ Cardinality(H2) \in Nat
    BY <2>2, <2>3, HeldOfThread
  <2>5. Cardinality(H2) <= Cardinality(H)
    BY <2>3, <2>4, FS_Subset
  <2>6. Len(s) + Cardinality(H2) <= Len(s) + Cardinality(H) /\ Len(s) <= Len(s)
    BY <2>2, <2>4, <2>5
  <2>7. Len(s) + Cardinality(HeldBy(l2.queue, l2.inflight)) <= Len(s) + Cardinality(HeldBy(l.queue, l.inflight))
    BY <2>3, <2>6, Zenon
  <2>8. Using(s, l2, st) <= Using(s, l, st)
    BY <2>2, <2>6, <2>7, FewerAreUsed
  <2>9. submitted'[st] = s
    BY <2>1
  <2> QED BY <2>1, <2>8, <2>9, Zenon
<1> QED BY <1>2, <1>3, <1>4, WorkerMoves

LEMMA LeavesKeeps == ASSUME PacingInv, Pacing!WorkerLeaves PROVE PacingInv'
<1>1. /\ worker = "waiting" /\ worker' = "ended" /\ UNCHANGED Pacing!scheduler
      /\ UNCHANGED <<timing, stream, dimensions, worker_running, stream_state, submitted, sent, local, reading>>
  BY DEF Pacing!WorkerLeaves, Pacing!WorkerGoes, Pacing!node_vars, Pacing!sender_vars
<1>2. WorkerInv'
  <2>1. WorkerOK(local, worker) /\ reading = local.inflight /\ sent \in Int
    BY DEF PacingInv, WorkerInv
  <2>2. WorkerOK(local, "ended")
    BY <1>1, <2>1 DEF WorkerOK, Thread
  <2> QED BY <1>1, <2>1, <2>2 DEF WorkerInv
<1> QED BY <1>1, <1>2, WorkerStays

LEMMA CheckKeeps == ASSUME PacingInv, Pacing!CheckStream PROVE PacingInv'
<1>1. /\ worker = "checking" /\ worker' \in {"collecting", "flushing"} /\ UNCHANGED Pacing!scheduler
      /\ UNCHANGED <<timing, stream, dimensions, worker_running, stream_state, submitted, sent, local, reading>>
  BY DEF Pacing!CheckStream, Pacing!WorkerGoes, Pacing!node_vars, Pacing!sender_vars
<1>2. WorkerInv'
  <2>1. WorkerOK(local, worker) /\ reading = local.inflight /\ sent \in Int
    BY DEF PacingInv, WorkerInv
  <2>2. WorkerOK(local, worker')
    BY <1>1, <2>1 DEF WorkerOK, Thread
  <2> QED BY <1>1, <2>1, <2>2 DEF WorkerInv
<1> QED BY <1>1, <1>2, WorkerStays

LEMMA IdleIsOK == \A where \in {"waiting", "ended"} : WorkerOK(Pacing!Idle, where)
BY DEF WorkerOK, Pacing!Idle, Thread

LEMMA FlushKeeps == ASSUME PacingInv, Pacing!Flush PROVE PacingInv'
<1>1. /\ worker' = "waiting" /\ local' = Pacing!Idle /\ reading' = None /\ UNCHANGED Pacing!scheduler
      /\ UNCHANGED <<timing, stream, dimensions, worker_running, stream_state, submitted, sent>>
  BY DEF Pacing!Flush, Pacing!WorkerGoes, Pacing!node_vars, Pacing!sender_vars
<1>2. local'.state = None /\ local'.queue = Pacing!EmptyQueue /\ local'.inflight = None
  BY <1>1 DEF Pacing!Idle
<1>3. WorkerInv'
  <2>1. WorkerOK(local', worker')
    BY <1>1, IdleIsOK
  <2>2. sent' \in Int /\ reading' = local'.inflight
    BY <1>1, <1>2 DEF PacingInv, WorkerInv
  <2> QED BY <2>1, <2>2 DEF WorkerInv
<1>4. \A f : ~In(f, local'.queue)
  BY <1>2, EmptyIsPacingQueue, Zenon
<1>5. HeldBy(local'.queue, local'.inflight) = {}
  BY <1>2 DEF HeldBy, Pacing!EmptyQueue
<1>6. /\ local'.state # None => local'.state = local.state
      /\ \A f : In(f, local'.queue) => In(f, local.queue)
      /\ HeldBy(local'.queue, local'.inflight) \subseteq HeldBy(local.queue, local.inflight)
  BY <1>2, <1>4, <1>5, Zenon
<1> QED BY <1>1, <1>3, <1>6, WorkerStays

\* The stream that is taken is the node's.
LEMMA TakeKeeps == ASSUME PacingInv, Pacing!TakeStream PROVE PacingInv'
<1>1. /\ worker = "waiting" /\ stream_state # None /\ worker' = "checking" /\ UNCHANGED Pacing!scheduler
      /\ local' = [Pacing!Idle EXCEPT !.state = stream_state]
      /\ UNCHANGED <<timing, stream, dimensions, worker_running, stream_state, submitted, sent, reading>>
  BY DEF Pacing!TakeStream, Pacing!WorkerGoes, Pacing!node_vars, Pacing!sender_vars
<1>2. /\ local'.state = stream_state /\ local'.queue = Pacing!EmptyQueue /\ local'.started = FALSE
      /\ local'.deadline = 0 /\ local'.observations = <<>> /\ local'.inflight = None
      /\ local' = [state |-> local'.state, queue |-> local'.queue, started |-> local'.started,
                   deadline |-> local'.deadline, observations |-> local'.observations,
                   inflight |-> local'.inflight]
  BY <1>1 DEF Pacing!Idle
<1>3. local = Pacing!Idle /\ local.queue = Pacing!EmptyQueue /\ local.inflight = None
  BY <1>1 DEF PacingInv, WorkerInv, WorkerOK, Thread, Pacing!Idle
<1>4. /\ stream \in Handles /\ stream_state \in States /\ stream_state.stream = stream
  <2>1. stream # None /\ stream_state = [stream |-> stream, duration |-> duration, buffer |-> timing[2]]
    BY <1>1 DEF PacingInv, NodeInv
  <2>2. stream \in Handles /\ duration \in Durations
    BY <2>1 DEF PacingInv, NodeInv
  <2>3. PICK b \in Buffers : timing = <<context.epoch, b>>
    BY <2>1 DEF PacingInv, NodeInv
  <2>4. timing[2] \in Buffers
    BY <2>3
  <2> QED BY <2>1, <2>2, <2>4 DEF States
<1>5. context' = context /\ context.target \in Int /\ context.target <= context.target
  BY <1>1, ClockTypes DEF PacingInv, Pacing!scheduler
<1>6. WorkerInv'
  <2>1. Pacing!QueueCapacity(stream_state.buffer) \in Nat
    <3>1. stream_state.buffer \in Buffers
      BY <1>4 DEF States
    <3>2. stream_state.buffer \in Nat
      BY <3>1, PacingConstants
    <3> QED BY <3>2, PacingConstants DEF Pacing!QueueCapacity
  <2>2. Queue(local'.queue, Of(local'.state.stream), Pacing!QueueCapacity(local'.state.buffer))
    BY <1>2, <2>1, EmptyIsPacingQueue
  <2>3. 0 \in Int /\ <<>> \in Seq(Int)
    OBVIOUS
  <2>4. WorkerOK(local', "checking")
    BY <1>2, <1>4, <2>2, <2>3 DEF WorkerOK, Thread
  <2>5. reading' = local'.inflight /\ sent' \in Int
    BY <1>1, <1>2, <1>3 DEF PacingInv, WorkerInv
  <2> QED BY <1>1, <2>4, <2>5 DEF WorkerInv
<1>7. SubmittedInv'
  BY <1>1, <1>5, SubmittedStays
<1>8. PlayInv'
  <2>1. sent' <= context'.target /\ Newer(sent', submitted'[stream'])
    BY <1>1, <1>4, <1>5, PacingConstants DEF PacingInv, PlayInv
  <2>2. Behind(sent', context'.target, local'.queue, local'.state.stream, stream', submitted')
    <3>1. local'.state.stream = stream'
      BY <1>1, <1>2, <1>4
    <3>2. \A f : ~In(f, local'.queue)
      BY <1>2, EmptyIsPacingQueue, Zenon
    <3>3. stream' \in {None, local'.state.stream}
      BY <3>1
    <3> QED BY <2>1, <3>1, <3>2, <3>3, Zenon DEF Behind
  <2> QED BY <2>1, <2>2 DEF PlayInv
<1>9. ASSUME NEW st \in Handles
      PROVE  Using(submitted'[st], local', st) <= Using(submitted[st], local, st)
  <2>1. Using(submitted'[st], local', st) = Using(submitted[st], local, st)
    BY <1>1, <1>2, <1>3, Zenon DEF Using
  <2>2. Using(submitted[st], local, st) \in Nat
    <3>1. WorkerOK(local, worker) /\ submitted[st] \in Seq(Of(st))
      BY DEF PacingInv, WorkerInv, SubmittedInv
    <3> QED BY <3>1, SlotsAreUsed
  <2> QED BY <2>1, <2>2
<1> QED BY <1>1, <1>6, <1>7, <1>8, <1>9, WorkerMoves

\* A frame the queue has may be sent: none it or the node still has is older.
LEMMA SendKeeps == ASSUME PacingInv, Pacing!Send PROVE PacingInv'
<1>1. /\ worker = "sending" /\ worker' = "checking" /\ UNCHANGED Pacing!scheduler
      /\ reading' = local.queue.current /\ sent' = local.queue.current.target
      /\ local' = [local EXCEPT !.inflight = local.queue.current,
                                !.deadline = @ + local.state.duration]
      /\ UNCHANGED <<timing, stream, dimensions, worker_running, stream_state, submitted>>
  BY DEF Pacing!Send, Pacing!WorkerGoes, Pacing!node_vars, Pacing!sender_vars
<1>2. WorkerOK(local, "sending") /\ local.state # None /\ local.state.stream \in Handles
  BY <1>1, ThreadHasStream DEF PacingInv, WorkerInv, Thread
<1>3. PICK st, F, c, q : /\ st = local.state.stream /\ F = Of(st) /\ q = local.queue
                         /\ c = Pacing!QueueCapacity(local.state.buffer)
  BY Zenon
<1>4. /\ Queue(q, F, c) /\ q.current \in F /\ q.current # None /\ st \in Handles
      /\ local.state \in States /\ local.started \in BOOLEAN /\ local.deadline \in Int
      /\ local.observations \in Seq(Int) /\ (local.started => local.observations # <<>>)
      /\ local = [state |-> local.state, queue |-> local.queue, started |-> local.started,
                  deadline |-> local.deadline, observations |-> local.observations,
                  inflight |-> local.inflight]
  <2>1. /\ Queue(q, F, c) /\ q.current # None /\ st \in Handles
        /\ local.state \in States /\ local.started \in BOOLEAN /\ local.deadline \in Int
        /\ local.observations \in Seq(Int) /\ (local.started => local.observations # <<>>)
        /\ local = [state |-> local.state, queue |-> local.queue, started |-> local.started,
                    deadline |-> local.deadline, observations |-> local.observations,
                    inflight |-> local.inflight]
    BY <1>2, <1>3, Zenon DEF WorkerOK, Thread
  <2>2. q.current \in F
    BY <2>1 DEF Queue
  <2> QED BY <2>1, <2>2
<1>5. q.current.target \in Int /\ Timed(F)
  <2>1. Timed(F)
    BY <1>3, <1>4, PacingConstants, Zenon
  <2> QED BY <1>4, <2>1, Zenon DEF Timed
<1>6. /\ local'.state = local.state /\ local'.queue = q /\ local'.started = local.started
      /\ local'.observations = local.observations /\ local'.inflight = q.current
      /\ local'.deadline \in Int
      /\ local' = [state |-> local'.state, queue |-> local'.queue, started |-> local'.started,
                   deadline |-> local'.deadline, observations |-> local'.observations,
                   inflight |-> local'.inflight]
  <2>1. local.state.duration \in Int
    <3>1. local.state.duration \in Nat \ {0}
      BY <1>1, ThreadHasStream DEF PacingInv, WorkerInv, Thread
    <3> QED BY <3>1
  <2>2. PICK d \in Int : d = local.deadline + local.state.duration
    BY <1>4, <2>1
  <2>3. local' = [local EXCEPT !.inflight = q.current, !.deadline = d]
    BY <1>1, <1>3, <2>2, Zenon
  <2> QED BY <1>3, <1>4, <2>2, <2>3
<1>7. WorkerInv'
  <2>1. Queue(local'.queue, Of(local'.state.stream), Pacing!QueueCapacity(local'.state.buffer))
    BY <1>3, <1>4, <1>6, Zenon
  <2>2. local'.inflight \in Of(local'.state.stream) \cup {None} /\ local'.inflight \in {None, local'.queue.current}
    BY <1>3, <1>4, <1>6
  <2>3. WorkerOK(local', "checking")
    BY <1>4, <1>6, <2>1, <2>2, Zenon DEF WorkerOK, Thread
  <2>4. reading' = local'.inflight /\ sent' \in Int
    BY <1>1, <1>3, <1>5, <1>6
  <2> QED BY <1>1, <2>3, <2>4 DEF WorkerInv
<1>8. context' = context /\ context.target \in Int /\ context.target <= context.target
  BY <1>1, ClockTypes DEF PacingInv, Pacing!scheduler
<1>9. SubmittedInv'
  BY <1>1, <1>8, SubmittedStays
<1>10. /\ Behind(sent, context.target, q, st, stream, submitted)
  BY <1>2, <1>3, Zenon DEF PacingInv, PlayInv
<1>11. PICK t : t = q.current.target
  OBVIOUS
<1>12. /\ t <= context.target /\ Newer(t, submitted[st])
       /\ stream \notin {None, st} => Newer(t, submitted[stream])
  <2>1. In(q.current, q)
    BY <1>4, Zenon DEF In
  <2> QED BY <1>10, <1>11, <2>1, Zenon DEF Behind
<1>13. ASSUME NEW f, In(f, q) PROVE t <= f.target
  <2>1. CASE f = q.current
    BY <1>5, <1>11, <2>1
  <2>2. ASSUME NEW i \in DOMAIN q.frames, f = q.frames[i] PROVE t <= f.target
    <3>1. q.current.target < q.frames[i].target
      BY <1>4, <2>2, Zenon DEF Queue, After
    <3>2. q.frames[i] \in F
      BY <1>4 DEF Queue
    <3>3. q.frames[i].target \in Int
      BY <1>5, <3>2, Zenon DEF Timed
    <3> QED BY <1>5, <1>11, <2>2, <3>1, <3>3
  <2> QED BY <1>13, <2>1, <2>2 DEF In
<1>14. PlayInv'
  <2>1. Behind(t, context.target, q, st, stream, submitted)
    BY <1>10, <1>12, <1>13, Zenon DEF Behind
  <2>2. stream # None => Newer(t, submitted[stream])
    BY <1>12
  <2>3. /\ sent' = t /\ context' = context /\ local'.queue = q /\ local'.state.stream = st
        /\ stream' = stream /\ submitted' = submitted
    BY <1>1, <1>3, <1>6, <1>8, <1>11
  <2> QED BY <1>12, <2>1, <2>2, <2>3, Zenon DEF PlayInv
<1>15. ASSUME NEW s \in Handles
       PROVE  Using(submitted'[s], local', s) <= Using(submitted[s], local, s)
  <2>1. PICK H, H2, l, l2, sub : /\ H = HeldBy(local.queue, local.inflight)
                                 /\ H2 = HeldBy(local'.queue, local'.inflight)
                                 /\ l = local /\ l2 = local' /\ sub = submitted[s]
    BY Zenon
  <2>2. H2 \subseteq H
    BY <1>3, <1>6, <2>1, Zenon DEF HeldBy
  <2>3. /\ WorkerOK(l, "sending") /\ WorkerOK(l2, "checking") /\ l2.state = l.state
        /\ H = HeldBy(l.queue, l.inflight) /\ H2 = HeldBy(l2.queue, l2.inflight)
    BY <1>1, <1>2, <1>6, <1>7, <2>1, Zenon DEF WorkerInv
  <2>4. sub \in Seq(Of(s)) /\ Len(sub) \in Nat
    BY <2>1 DEF PacingInv, SubmittedInv
  <2>5. IsFiniteSet(H) /\ Cardinality(H) \in Nat /\ Cardinality(H2) \in Nat
    BY <2>3, HeldOfThread
  <2>6. Cardinality(H2) <= Cardinality(H)
    BY <2>2, <2>5, FS_Subset
  <2>7. Len(sub) + Cardinality(H2) <= Len(sub) + Cardinality(H) /\ Len(sub) <= Len(sub)
    BY <2>4, <2>5, <2>6
  <2>8. Len(sub) + Cardinality(HeldBy(l2.queue, l2.inflight)) <= Len(sub) + Cardinality(HeldBy(l.queue, l.inflight))
    BY <2>3, <2>7, Zenon
  <2>9. Using(sub, l2, s) <= Using(sub, l, s)
    BY <2>3, <2>4, <2>7, <2>8, FewerAreUsed
  <2> QED BY <1>1, <2>1, <2>9, Zenon
<1> QED BY <1>1, <1>7, <1>9, <1>14, <1>15, WorkerMoves

\* A failed download leaves the others in order.
LEMMA LoseKeeps ==
    ASSUME PacingInv, NEW st \in Handles, Pacing!LoseFrame(st)
    PROVE  PacingInv'
<1>1. PICK i \in DOMAIN submitted[st] : submitted' = [submitted EXCEPT ![st] = Pacing!RemoveAt(submitted[st], i)]
  BY Zenon DEF Pacing!LoseFrame
<1>2. /\ UNCHANGED Pacing!scheduler
      /\ UNCHANGED <<timing, stream, dimensions, worker_running, stream_state, worker, local, reading, sent>>
  BY DEF Pacing!LoseFrame, Pacing!node_vars, Pacing!sender_vars, Pacing!worker_vars
<1>3. PICK t : t = Pacing!RemoveAt(submitted[st], i)
  OBVIOUS
<1>4. /\ submitted = [s \in Handles |-> submitted[s]]
      /\ \A s \in Handles : /\ submitted[s] \in Seq(Of(s)) /\ Sorted(submitted[s])
                            /\ \A j \in DOMAIN submitted[s] : submitted[s][j].target <= context.target
  BY Zenon DEF PacingInv, SubmittedInv
<1>5. /\ t \in Seq(Of(st)) /\ Sorted(t) /\ Len(t) <= Len(submitted[st])
      /\ \A j \in DOMAIN t : \E k \in DOMAIN submitted[st] : t[j] = submitted[st][k]
  <2>1. PICK F, s : F = Of(st) /\ s = submitted[st]
    OBVIOUS
  <2>2. Timed(F) /\ s \in Seq(F) /\ Sorted(s) /\ i \in DOMAIN s /\ t = Pacing!RemoveAt(s, i)
    BY <1>3, <1>4, <2>1, PacingConstants, Zenon
  <2>3. /\ t \in Seq(F) /\ Sorted(t) /\ Len(t) <= Len(s)
        /\ \A j \in DOMAIN t : \E k \in DOMAIN s : t[j] = s[k]
    BY <2>2, RemovingKeeps
  <2> QED BY <2>1, <2>3, Zenon
<1>6. /\ submitted' = [s \in Handles |-> submitted'[s]]
      /\ \A s \in Handles : submitted'[s] = IF s = st THEN t ELSE submitted[s]
  <2>1. submitted' = [submitted EXCEPT ![st] = t]
    BY <1>1, <1>3, Zenon
  <2> QED BY <1>4, <2>1
<1>7. \A s \in Handles : \A j \in DOMAIN submitted'[s] : \E k \in DOMAIN submitted[s] : submitted'[s][j] = submitted[s][k]
  <2> SUFFICES ASSUME NEW s \in Handles, NEW j \in DOMAIN submitted'[s]
               PROVE  \E k \in DOMAIN submitted[s] : submitted'[s][j] = submitted[s][k]
    OBVIOUS
  <2>1. CASE s = st
    <3>1. submitted'[s] = t
      BY <1>6, <2>1
    <3> QED BY <1>5, <2>1, <3>1, Zenon
  <2>2. CASE s # st
    <3>1. submitted'[s] = submitted[s]
      BY <1>6, <2>2
    <3> QED BY <3>1
  <2> QED BY <2>1, <2>2
<1>8. context' = context /\ context.target \in Int /\ context.target <= context.target
  BY <1>2, ClockTypes DEF PacingInv, Pacing!scheduler
<1>9. WorkerInv'
  <2>1. WorkerOK(local', worker') /\ reading' = local'.inflight /\ sent' \in Int
    BY <1>2 DEF PacingInv, WorkerInv
  <2> QED BY <2>1 DEF WorkerInv
<1>10. SubmittedInv'
  <2> SUFFICES ASSUME NEW s \in Handles
               PROVE  /\ submitted'[s] \in Seq(Of(s)) /\ Sorted(submitted'[s])
                      /\ \A j \in DOMAIN submitted'[s] : submitted'[s][j].target <= context'.target
    BY <1>6, Zenon DEF SubmittedInv
  <2>1. submitted'[s] \in Seq(Of(s)) /\ Sorted(submitted'[s])
    <3>1. CASE s = st
      <4>1. submitted'[s] = t
        BY <1>6, <3>1
      <4> QED BY <1>5, <3>1, <4>1, Zenon
    <3>2. CASE s # st
      <4>1. submitted'[s] = submitted[s]
        BY <1>6, <3>2
      <4> QED BY <1>4, <4>1, Zenon
    <3> QED BY <3>1, <3>2
  <2>2. ASSUME NEW j \in DOMAIN submitted'[s] PROVE submitted'[s][j].target <= context'.target
    <3>1. PICK k \in DOMAIN submitted[s] : submitted'[s][j] = submitted[s][k]
      BY <1>7, <2>2
    <3> QED BY <1>4, <1>8, <3>1, Zenon
  <2> QED BY <2>1, <2>2
<1>11. PlayInv'
  <2>1. /\ sent' = sent /\ context'.target \in Int /\ context.target <= context'.target
        /\ stream' \in {None, stream} /\ local' = local
    BY <1>2, <1>8
  <2> QED BY <1>7, <2>1, OrderStays
<1>12. ASSUME NEW s \in Handles
       PROVE  Using(submitted'[s], local', s) <= Using(submitted[s], local, s)
  <2>1. PICK l, where, old, new, h : /\ l = local /\ where = worker /\ old = submitted[s] /\ new = submitted'[s]
                                     /\ h = Cardinality(HeldBy(local.queue, local.inflight))
    BY Zenon
  <2>2. WorkerOK(l, where) /\ old \in Seq(Of(s)) /\ new \in Seq(Of(s)) /\ Len(old) \in Nat /\ Len(new) \in Nat
    BY <1>10, <2>1 DEF PacingInv, WorkerInv, SubmittedInv
  <2>3. Len(new) <= Len(old)
    <3>1. CASE s = st
      <4>1. new = t
        BY <1>6, <2>1, <3>1
      <4> QED BY <1>5, <2>1, <3>1, <4>1, Zenon
    <3>2. CASE s # st
      <4>1. new = old
        BY <1>6, <2>1, <3>2
      <4> QED BY <2>2, <4>1
    <3> QED BY <3>1, <3>2
  <2>4. h \in Nat /\ h = Cardinality(HeldBy(l.queue, l.inflight))
    <3>1. h = Cardinality(HeldBy(l.queue, l.inflight))
      BY <2>1, Zenon
    <3> QED BY <2>2, <3>1, HeldOfThread
  <2>5. Len(new) + h <= Len(old) + h
    BY <2>2, <2>3, <2>4
  <2>6. Len(new) + Cardinality(HeldBy(l.queue, l.inflight)) <= Len(old) + Cardinality(HeldBy(l.queue, l.inflight))
    BY <2>4, <2>5, Zenon
  <2>7. Using(new, l, s) <= Using(old, l, s)
    BY <2>2, <2>3, <2>6, FewerAreUsed
  <2> QED BY <1>2, <2>1, <2>7, Zenon
<1> QED BY <1>2, <1>9, <1>10, <1>11, <1>12, WorkerMoves

\* What the thread keeps after the frames collected went onto its queue: frames of
\* that queue, in their order; and there is room while one is about to be sent.
LEMMA IterateKeeps ==
    ASSUME PacingInv, worker = "collecting", NEW q,
           Queue(q, Of(local.state.stream), Pacing!QueueCapacity(local.state.buffer)),
           q.current = local.queue.current, Pacing!Iterate(q)
    PROVE  /\ WorkerOK(local', worker') /\ local'.state = local.state /\ local'.inflight = local.inflight
           /\ \A f : In(f, local'.queue) => In(f, q)
           /\ UNCHANGED Pacing!scheduler
           /\ UNCHANGED <<timing, stream, dimensions, worker_running, stream_state>>
<1>1. WorkerOK(local, "collecting") /\ local.state # None /\ local.state.stream \in Handles
  BY ThreadHasStream DEF PacingInv, WorkerInv, Thread
<1>2. /\ local.state \in States /\ local.started \in BOOLEAN /\ local.deadline \in Int
      /\ local.observations \in Seq(Int) /\ (local.started => local.observations # <<>>)
      /\ local.inflight \in Of(local.state.stream) \cup {None}
      /\ local.inflight \in {None, local.queue.current}
      /\ local = [state |-> local.state, queue |-> local.queue, started |-> local.started,
                  deadline |-> local.deadline, observations |-> local.observations,
                  inflight |-> local.inflight]
  BY <1>1, Zenon DEF WorkerOK, Thread
<1>3. /\ local.state.buffer \in Nat \ {0} /\ local.state.duration \in Nat \ {0}
      /\ Pacing!QueueCapacity(local.state.buffer) \in Nat \ {0}
  BY <1>1, ThreadHasStream DEF Thread
<1>4. PICK F, c, d, start, deadline, latest, seen, target, chosen :
        /\ F = Of(local.state.stream) /\ c = Pacing!QueueCapacity(local.state.buffer)
        /\ d = local.state.duration /\ start = ~local.started
        /\ deadline = (IF start THEN now ELSE local.deadline)
        /\ latest = deadline + d * ((now - deadline) \div d)
        /\ seen = (IF start THEN Pacing!Observe(local.observations, now - Head(q.frames).target)
                            ELSE local.observations)
        /\ target = Pacing!ProgramTarget(seen, latest)
        /\ chosen = Pacing!Select(q, target, d \div 2)
  BY Zenon
<1>5. \/ /\ local' = [local EXCEPT !.queue = q] /\ Pacing!WorkerGoes("checking")
      \/ /\ ~((start /\ Len(q.frames) < local.state.buffer) \/ now < deadline)
         /\ local' = [local EXCEPT !.queue = chosen, !.started = TRUE,
                         !.deadline = IF chosen.current = None THEN latest + d ELSE latest,
                         !.observations = IF Pacing!Due(q, target, d \div 2) # 0
                             THEN Pacing!Observe(seen, latest - chosen.current.target)
                             ELSE seen]
         /\ Pacing!WorkerGoes(IF chosen.current = None THEN "checking" ELSE "sending")
  BY <1>4, Zenon DEF Pacing!Iterate
<1>6. /\ Timed(F) /\ Queue(q, F, c) /\ c \in Nat /\ d \in Nat \ {0}
      /\ local.inflight \in F \cup {None}
  BY <1>1, <1>2, <1>3, <1>4, PacingConstants
<1>7. /\ UNCHANGED Pacing!scheduler
      /\ UNCHANGED <<timing, stream, dimensions, worker_running, stream_state>>
  BY <1>5 DEF Pacing!WorkerGoes, Pacing!node_vars, Pacing!sender_vars
<1>8. CASE local' = [local EXCEPT !.queue = q] /\ Pacing!WorkerGoes("checking")
  <2>1. /\ local'.state = local.state /\ local'.queue = q /\ local'.started = local.started
        /\ local'.deadline = local.deadline /\ local'.observations = local.observations
        /\ local'.inflight = local.inflight
        /\ local' = [state |-> local'.state, queue |-> local'.queue, started |-> local'.started,
                     deadline |-> local'.deadline, observations |-> local'.observations,
                     inflight |-> local'.inflight]
    BY <1>2, <1>8
  <2>2. worker' = "checking"
    BY <1>8 DEF Pacing!WorkerGoes
  <2>3. Queue(local'.queue, Of(local'.state.stream), Pacing!QueueCapacity(local'.state.buffer))
    BY <1>4, <1>6, <2>1, Zenon
  <2>4. local'.inflight \in Of(local'.state.stream) \cup {None} /\ local'.inflight \in {None, local'.queue.current}
    BY <1>2, <2>1
  <2>5. WorkerOK(local', "checking")
    BY <1>2, <2>1, <2>3, <2>4, Zenon DEF WorkerOK, Thread
  <2> QED BY <1>7, <2>1, <2>2, <2>5
<1>9. CASE /\ ~((start /\ Len(q.frames) < local.state.buffer) \/ now < deadline)
           /\ local' = [local EXCEPT !.queue = chosen, !.started = TRUE,
                           !.deadline = IF chosen.current = None THEN latest + d ELSE latest,
                           !.observations = IF Pacing!Due(q, target, d \div 2) # 0
                               THEN Pacing!Observe(seen, latest - chosen.current.target)
                               ELSE seen]
           /\ Pacing!WorkerGoes(IF chosen.current = None THEN "checking" ELSE "sending")
  <2>1. now \in Int
    BY ClockTypes DEF PacingInv
  <2>2. deadline \in Int
    BY <1>2, <1>4, <2>1
  <2>3. latest \in Int
    <3>1. PICK m \in Int : m = (now - deadline) \div d
      BY <1>6, <2>1, <2>2
    <3>2. PICK k \in Int : k = d * m
      BY <1>6
    <3>3. latest = deadline + k
      BY <1>4, <3>1, <3>2, Zenon
    <3> HIDE <1>4
    <3> QED BY <2>2, <3>3
  <2>4. seen \in Seq(Int) /\ seen # <<>>
    <3>1. CASE start
      <4>1. Len(q.frames) >= local.state.buffer /\ q.frames \in Seq(F)
        <5>1. q.frames \in Seq(F) /\ Len(q.frames) \in Nat
          BY <1>6 DEF Queue
        <5> QED BY <1>3, <1>9, <3>1, <5>1
      <4>2. q.frames # <<>> /\ Head(q.frames) \in F
        BY <1>3, <4>1
      <4>3. Head(q.frames).target \in Int
        BY <1>6, <4>2, Zenon DEF Timed
      <4>4. PICK m \in Int : m = now - Head(q.frames).target
        BY <2>1, <4>3
      <4>5. seen = Pacing!Observe(local.observations, m)
        BY <1>4, <3>1, <4>4, Zenon
      <4>6. Pacing!Observe(local.observations, m) \in Seq(Int) \ {<<>>}
        BY <1>2, <4>4, TimedAssumption, ObserveKeeps
      <4> QED BY <4>5, <4>6
    <3>2. CASE ~start
      <4>1. seen = local.observations
        BY <1>4, <3>2, Zenon
      <4>2. local.started
        BY <1>2, <1>4, <3>2
      <4> QED BY <1>2, <4>1, <4>2
    <3> QED BY <3>1, <3>2
  <2>5. target \in Int
    BY <1>4, <2>3, <2>4, TargetIsInt
  <2>6. PICK h, n : h = d \div 2 /\ n = Pacing!Due(q, target, d \div 2)
    OBVIOUS
  <2>7. h \in Int /\ n = Pacing!Due(q, target, h) /\ chosen = Pacing!Select(q, target, h)
    <3>1. h \in Int
      BY <1>6, <2>6
    <3> QED BY <1>4, <2>6, <3>1, Zenon
  <2>8. /\ Queue(chosen, F, c) /\ n \in 0..Len(q.frames)
        /\ n = 0 => chosen = q
        /\ n # 0 => /\ chosen.current \in F /\ chosen.current = q.frames[n]
                    /\ Len(chosen.frames) = Len(q.frames) - n
                    /\ \A i \in DOMAIN chosen.frames : chosen.frames[i] = q.frames[n + i]
    BY <1>6, <2>5, <2>7, SelectKeeps
  <2>9. PICK dl, ob : /\ dl = (IF chosen.current = None THEN latest + d ELSE latest)
                      /\ ob = (IF n # 0 THEN Pacing!Observe(seen, latest - chosen.current.target) ELSE seen)
    BY Zenon
  <2>10. local' = [local EXCEPT !.queue = chosen, !.started = TRUE, !.deadline = dl, !.observations = ob]
    BY <1>9, <2>6, <2>9, Zenon
  <2>11. /\ worker' = IF chosen.current = None THEN "checking" ELSE "sending"
    BY <1>9 DEF Pacing!WorkerGoes
  <2>12. dl \in Int
    <3>1. dl = latest + d \/ dl = latest
      BY <2>9
    <3> HIDE <1>4
    <3> QED BY <1>6, <2>3, <3>1
  <2>13. ob \in Seq(Int) /\ ob # <<>>
    <3>1. CASE n # 0
      <4>1. chosen.current.target \in Int
        BY <1>6, <2>8, <3>1, Zenon DEF Timed
      <4>2. PICK m \in Int : m = latest - chosen.current.target
        BY <2>3, <4>1
      <4>3. ob = Pacing!Observe(seen, m)
        BY <2>9, <3>1, <4>2, Zenon
      <4>4. Pacing!Observe(seen, m) \in Seq(Int) \ {<<>>}
        BY <2>4, <4>2, TimedAssumption, ObserveKeeps
      <4> QED BY <4>3, <4>4
    <3>2. CASE n = 0
      <4>1. ob = seen
        BY <2>9, <3>2
      <4> QED BY <2>4, <4>1
    <3> QED BY <3>1, <3>2
  <2>14. /\ local'.state = local.state /\ local'.queue = chosen /\ local'.started = TRUE
         /\ local'.deadline = dl /\ local'.observations = ob
         /\ local'.inflight = local.inflight
         /\ local' = [state |-> local'.state, queue |-> local'.queue, started |-> local'.started,
                      deadline |-> local'.deadline, observations |-> local'.observations,
                      inflight |-> local'.inflight]
    BY <1>2, <2>10
  <2>15. Queue(local'.queue, Of(local'.state.stream), Pacing!QueueCapacity(local'.state.buffer))
    BY <1>4, <2>8, <2>14, Zenon
  <2>16. \A f : In(f, chosen) => In(f, q)
    <3>1. CASE n = 0
      BY <2>8, <3>1
    <3>2. CASE n # 0
      <4>1. q.frames \in Seq(F) /\ Len(q.frames) \in Nat /\ DOMAIN q.frames = 1..Len(q.frames)
        <5>1. q.frames \in Seq(F)
          BY <1>6 DEF Queue
        <5> QED BY <5>1
      <4>2. chosen.frames \in Seq(F) /\ DOMAIN chosen.frames = 1..Len(chosen.frames)
        <5>1. chosen.frames \in Seq(F)
          BY <2>8 DEF Queue
        <5> QED BY <5>1
      <4>3. n \in DOMAIN q.frames /\ chosen.current = q.frames[n]
        BY <2>8, <3>2, <4>1
      <4>4. ASSUME NEW i \in DOMAIN chosen.frames
            PROVE  \E j \in DOMAIN q.frames : chosen.frames[i] = q.frames[j]
        <5>1. n + i \in DOMAIN q.frames
          BY <2>8, <3>2, <4>1, <4>2
        <5> QED BY <2>8, <3>2, <5>1
      <4> QED BY <4>3, <4>4, Zenon DEF In
    <3> QED BY <3>1, <3>2
  <2>17. local'.inflight \in Of(local'.state.stream) \cup {None}
    BY <1>2, <2>14
  <2>18. n = 0 => local'.inflight \in {None, local'.queue.current}
    BY <1>2, <2>8, <2>14
  <2>19. n # 0 => Len(local'.queue.frames) + 1 <= c /\ local'.queue.current # None
    <3> SUFFICES ASSUME n # 0 PROVE Len(chosen.frames) + 1 <= c /\ chosen.current # None
      BY <2>14
    <3>1. Len(q.frames) \in Nat /\ Len(q.frames) <= c
      BY <1>6 DEF Queue
    <3>2. chosen.current # None
      BY <1>6, <2>8, Zenon DEF Timed
    <3> HIDE <1>4
    <3> QED BY <1>6, <2>8, <3>1, <3>2
  <2>20. WorkerOK(local', worker')
    <3>1. local'.started \in BOOLEAN /\ local'.deadline \in Int /\ local'.observations \in Seq(Int)
          /\ (local'.started => local'.observations # <<>>) /\ local'.state \in States
      BY <1>2, <2>12, <2>13, <2>14
    <3>2. CASE chosen.current = None
      <4>1. n = 0 /\ worker' = "checking"
        BY <2>11, <2>14, <2>19, <3>2
      <4> QED BY <2>14, <2>15, <2>17, <2>18, <3>1, <4>1, Zenon DEF WorkerOK, Thread
    <3>3. CASE chosen.current # None
      <4>1. worker' = "sending"
        BY <2>11, <3>3
      <4>2. \/ local'.inflight \in {None, local'.queue.current}
            \/ Len(local'.queue.frames) + 1 <= Pacing!QueueCapacity(local'.state.buffer)
        BY <1>4, <2>14, <2>18, <2>19
      <4> QED BY <2>14, <2>15, <2>17, <3>1, <3>3, <4>1, <4>2 DEF WorkerOK, Thread
    <3> QED BY <3>2, <3>3
  <2> QED BY <1>7, <2>14, <2>16, <2>20, Zenon
<1> QED BY <1>5, <1>8, <1>9

\* What was collected is not newer than what was not.
LEMMA PacingCollectKeeps == ASSUME PacingInv, Pacing!Collect PROVE PacingInv'
<1>1. PICK ready \in 0..Len(submitted[local.state.stream]) :
        /\ submitted' = [submitted EXCEPT ![local.state.stream] =
                            SubSeq(submitted[local.state.stream], ready + 1, Len(submitted[local.state.stream]))]
        /\ Pacing!Iterate(Pacing!PushAll(local.queue, SubSeq(submitted[local.state.stream], 1, ready),
                                         Pacing!QueueCapacity(local.state.buffer)))
  BY Zenon DEF Pacing!Collect
<1>2. worker = "collecting" /\ reading' = reading /\ sent' = sent
  BY DEF Pacing!Collect
<1>3. WorkerOK(local, "collecting") /\ local.state # None /\ local.state.stream \in Handles
  BY <1>2, ThreadHasStream DEF PacingInv, WorkerInv, Thread
<1>4. PICK st, F, c, old, m, a, b, q :
        /\ st = local.state.stream /\ F = Of(st) /\ c = Pacing!QueueCapacity(local.state.buffer)
        /\ old = submitted[st] /\ m = ready + 1
        /\ a = SubSeq(old, 1, ready) /\ b = SubSeq(old, m, Len(old))
        /\ q = Pacing!PushAll(local.queue, a, c)
  BY Zenon
<1>5. /\ submitted = [s \in Handles |-> submitted[s]]
      /\ \A s \in Handles : /\ submitted[s] \in Seq(Of(s)) /\ Sorted(submitted[s])
                            /\ \A j \in DOMAIN submitted[s] : submitted[s][j].target <= context.target
  BY Zenon DEF PacingInv, SubmittedInv
<1>6. /\ st \in Handles /\ Timed(F) /\ c \in Nat /\ Queue(local.queue, F, c)
      /\ old \in Seq(F) /\ Sorted(old) /\ ready \in 0..Len(old)
      /\ \A j \in DOMAIN old : old[j].target <= context.target
  <2>1. c \in Nat
    BY <1>2, <1>4, ThreadHasStream DEF PacingInv, WorkerInv, Thread
  <2>2. Queue(local.queue, F, c)
    BY <1>3, <1>4, Zenon DEF WorkerOK, Thread
  <2> QED BY <1>3, <1>4, <1>5, <2>1, <2>2, PacingConstants, Zenon
<1>7. /\ a \in Seq(F) /\ Len(a) = ready /\ \A i \in DOMAIN a : i \in DOMAIN old /\ a[i] = old[i]
      /\ b \in Seq(F) /\ Len(b) = Len(old) - ready /\ Sorted(b)
      /\ \A j \in DOMAIN b : \E k \in DOMAIN old : b[j] = old[k]
      /\ \A i \in DOMAIN a : \A j \in DOMAIN b : a[i].target <= b[j].target
  <2>1. Split(old, ready, a, b)
    BY <1>4, Zenon DEF Split
  <2>2. old \in Seq(F) /\ Sorted(old) /\ ready \in 0..Len(old)
    BY <1>6, Zenon
  <2> QED BY ONLY <2>1, <2>2, Splitting
<1>8. Queue(q, F, c) /\ q.current = local.queue.current /\ Gains(q.frames, local.queue.frames, a)
  <2>1. q = Pacing!PushAll(local.queue, a, c)
    BY <1>4, Zenon
  <2>2. PICK p : p = local.queue
    OBVIOUS
  <2>3. Queue(p, F, c) /\ q = Pacing!PushAll(p, a, c)
    BY <1>6, <2>1, <2>2, Zenon
  <2>4. Queue(q, F, c) /\ q.current = p.current /\ Gains(q.frames, p.frames, a)
    BY <1>6, <1>7, <2>3, PushAllKeeps
  <2> QED BY <2>2, <2>4, Zenon
<1>9. /\ submitted' = [submitted EXCEPT ![st] = b] /\ Pacing!Iterate(q)
  BY <1>1, <1>4, Zenon
<1>10. /\ WorkerOK(local', worker') /\ local'.state = local.state /\ local'.inflight = local.inflight
       /\ \A f : In(f, local'.queue) => In(f, q)
       /\ UNCHANGED Pacing!scheduler
       /\ UNCHANGED <<timing, stream, dimensions, worker_running, stream_state>>
  <2>1. Queue(q, Of(local.state.stream), Pacing!QueueCapacity(local.state.buffer))
    BY <1>4, <1>8, Zenon
  <2> QED BY <1>2, <1>8, <1>9, <2>1, IterateKeeps
<1>11. \A f : In(f, q) => In(f, local.queue) \/ \E i \in DOMAIN a : f = a[i]
  BY <1>8, Zenon DEF In, Gains
<1>12. /\ submitted' = [s \in Handles |-> submitted'[s]]
       /\ \A s \in Handles : submitted'[s] = IF s = st THEN b ELSE submitted[s]
  BY <1>5, <1>9
<1>13. \A s \in Handles : \A j \in DOMAIN submitted'[s] : \E k \in DOMAIN submitted[s] : submitted'[s][j] = submitted[s][k]
  <2> SUFFICES ASSUME NEW s \in Handles, NEW j \in DOMAIN submitted'[s]
               PROVE  \E k \in DOMAIN submitted[s] : submitted'[s][j] = submitted[s][k]
    OBVIOUS
  <2>1. CASE s = st
    <3>1. submitted'[s] = b /\ submitted[s] = old
      BY <1>4, <1>12, <2>1, Zenon
    <3> QED BY <1>7, <3>1, Zenon
  <2>2. CASE s # st
    <3>1. submitted'[s] = submitted[s]
      BY <1>12, <2>2
    <3> QED BY <3>1
  <2> QED BY <2>1, <2>2
<1>14. context' = context /\ context.target \in Int /\ sent \in Int
  BY <1>10, ClockTypes DEF PacingInv, WorkerInv, Pacing!scheduler
<1>15. WorkerInv'
  <2>1. reading' = local'.inflight /\ sent' \in Int
    BY <1>2, <1>10, <1>14 DEF PacingInv, WorkerInv
  <2> QED BY <1>10, <2>1 DEF WorkerInv
<1>16. SubmittedInv'
  <2> SUFFICES ASSUME NEW s \in Handles
               PROVE  /\ submitted'[s] \in Seq(Of(s)) /\ Sorted(submitted'[s])
                      /\ \A j \in DOMAIN submitted'[s] : submitted'[s][j].target <= context'.target
    BY <1>12, Zenon DEF SubmittedInv
  <2>1. submitted'[s] \in Seq(Of(s)) /\ Sorted(submitted'[s])
    <3>1. CASE s = st
      <4>1. submitted'[s] = b
        BY <1>12, <3>1
      <4>2. F = Of(s)
        BY <1>4, <3>1, Zenon
      <4> QED BY <1>7, <4>1, <4>2, Zenon
    <3>2. CASE s # st
      <4>1. submitted'[s] = submitted[s]
        BY <1>12, <3>2
      <4> QED BY <1>5, <4>1, Zenon
    <3> QED BY <3>1, <3>2
  <2>2. ASSUME NEW j \in DOMAIN submitted'[s] PROVE submitted'[s][j].target <= context'.target
    <3>1. PICK k \in DOMAIN submitted[s] : submitted'[s][j] = submitted[s][k]
      BY <1>13, <2>2
    <3> QED BY <1>5, <1>14, <3>1, Zenon
  <2> QED BY <2>1, <2>2
<1>17. PlayInv'
  <2>1. Behind(sent, context.target, local.queue, st, stream, submitted)
    BY <1>3, <1>4, Zenon DEF PacingInv, PlayInv
  <2>2. \A t : \A s \in Handles : Newer(t, submitted[s]) => Newer(t, submitted'[s])
    BY <1>13 DEF Newer
  <2>3. stream \in Handles \cup {None} /\ stream' = stream
    BY <1>10 DEF PacingInv, NodeInv
  <2>4. /\ sent <= context.target
        /\ stream # None => Newer(sent, submitted[stream])
    BY DEF PacingInv, PlayInv
  <2>5. stream # None => Newer(sent, submitted'[stream])
    <3> SUFFICES ASSUME stream # None PROVE Newer(sent, submitted'[stream])
      OBVIOUS
    <3>1. stream \in Handles
      BY <2>3
    <3> QED BY <2>2, <2>4, <3>1, Zenon
  <2>6. Newer(sent, submitted[st]) /\ Newer(sent, submitted'[st])
    BY <1>6, <2>1, <2>2, Zenon DEF Behind
  <2>7. ASSUME NEW f, In(f, local'.queue)
        PROVE  /\ sent <= f.target /\ f.target <= context.target /\ Newer(f.target, submitted'[st])
               /\ stream \notin {None, st} => Newer(f.target, submitted'[stream])
    <3>1. In(f, local.queue) \/ \E i \in DOMAIN a : f = a[i]
      BY <1>10, <1>11, <2>7, Zenon
    <3>2. CASE In(f, local.queue)
      <4>1. /\ sent <= f.target /\ f.target <= context.target /\ Newer(f.target, submitted[st])
            /\ stream \notin {None, st} => Newer(f.target, submitted[stream])
        BY <2>1, <3>2, Zenon DEF Behind
      <4>2. stream \notin {None, st} => Newer(f.target, submitted'[stream])
        BY <2>2, <2>3, <4>1
      <4> QED BY <1>6, <2>2, <4>1, <4>2, Zenon
    <3>3. ASSUME NEW i \in DOMAIN a, f = a[i]
          PROVE  /\ sent <= f.target /\ f.target <= context.target /\ Newer(f.target, submitted'[st])
                 /\ stream \notin {None, st} => Newer(f.target, submitted'[stream])
      <4>1. i \in DOMAIN old /\ f = old[i] /\ old = submitted[st]
        BY <1>4, <1>7, <3>3, Zenon
      <4>2. sent <= f.target /\ f.target <= context.target
        BY <1>6, <2>6, <4>1, Zenon DEF Newer
      <4>3. Newer(f.target, submitted'[st])
        <5>1. submitted'[st] = b
          BY <1>6, <1>12
        <5> QED BY <1>7, <3>3, <5>1, Zenon DEF Newer
      <4>4. stream \notin {None, st} => Newer(f.target, submitted[stream])
        BY <2>1, <4>1, Zenon DEF Behind
      <4>5. stream \notin {None, st} => Newer(f.target, submitted'[stream])
        BY <2>2, <2>3, <4>4
      <4> QED BY <4>2, <4>3, <4>5
    <3> QED BY <3>1, <3>2, <3>3
  <2>8. ASSUME stream \notin {None, st}, NEW i \in DOMAIN submitted'[st]
        PROVE  Newer(submitted'[st][i].target, submitted'[stream])
    <3>1. PICK k \in DOMAIN submitted[st] : submitted'[st][i] = submitted[st][k]
      BY <1>6, <1>13, <2>8
    <3>2. Newer(submitted[st][k].target, submitted[stream])
      BY <2>1, <2>8, <3>1, Zenon DEF Behind
    <3>3. stream \in Handles
      BY <2>3, <2>8
    <3> QED BY <2>2, <3>1, <3>2, <3>3, Zenon
  <2>9. Behind(sent, context.target, local'.queue, st, stream, submitted')
    BY <2>6, <2>7, <2>8, Zenon DEF Behind
  <2>10. sent' = sent /\ context' = context /\ local'.state.stream = st
    BY <1>2, <1>4, <1>10, <1>14
  <2>11. sent' <= context'.target
    BY <2>4, <2>10
  <2>12. stream' # None => Newer(sent', submitted'[stream'])
    BY <2>3, <2>5, <2>10
  <2>13. Behind(sent', context'.target, local'.queue, local'.state.stream, stream', submitted')
    BY <2>3, <2>9, <2>10
  <2> QED BY <2>11, <2>12, <2>13, Zenon DEF PlayInv
<1>18. ASSUME NEW s \in Handles
       PROVE  Using(submitted'[s], local', s) <= Using(submitted[s], local, s)
  <2>1. PICK l, l2, where2, s1, s2, H, H2, A :
          /\ l = local /\ l2 = local' /\ where2 = worker' /\ s1 = submitted[s] /\ s2 = submitted'[s]
          /\ H = HeldBy(local.queue, local.inflight) /\ H2 = HeldBy(local'.queue, local'.inflight)
          /\ A = {a[i] : i \in DOMAIN a}
    BY Zenon
  <2>2. /\ WorkerOK(l, "collecting") /\ WorkerOK(l2, where2) /\ l2.state = l.state
        /\ H = HeldBy(l.queue, l.inflight) /\ H2 = HeldBy(l2.queue, l2.inflight)
        /\ s1 \in Seq(Of(s)) /\ s2 \in Seq(Of(s))
    BY <1>3, <1>5, <1>10, <1>16, <2>1, Zenon DEF SubmittedInv
  <2>3. IsFiniteSet(H) /\ Cardinality(H) \in Nat /\ IsFiniteSet(H2) /\ Cardinality(H2) \in Nat
    BY <2>2, HeldOfThread
  <2>4. IsFiniteSet(A) /\ Cardinality(A) \in Nat /\ Cardinality(A) <= ready
    <3>1. IsFiniteSet(A) /\ Cardinality(A) \in Nat /\ Cardinality(A) <= Len(a)
      BY <1>7, <2>1, MembersAreCounted, SMTT(30)
    <3> QED BY <1>7, <3>1
  <2>5. H2 \subseteq H \cup A
    <3> SUFFICES ASSUME NEW f \in H2, f \notin H PROVE f \in A
      OBVIOUS
    <3>1. f # None /\ (In(f, local'.queue) \/ f = local'.inflight)
      BY <2>1, Zenon DEF HeldBy, In
    <3>2. ~In(f, local.queue) /\ f # local.inflight
      BY <2>1, <3>1, Zenon DEF HeldBy, In
    <3>3. \E i \in DOMAIN a : f = a[i]
      BY <1>10, <1>11, <3>1, <3>2, Zenon
    <3> QED BY <2>1, <3>3, Zenon
  <2>6. Cardinality(H2) <= Cardinality(H) + Cardinality(A)
    BY <2>3, <2>4, <2>5, UnionIsCounted, Zenon
  <2>7. Len(s1) \in Nat /\ Len(s2) \in Nat /\ ready \in Nat
    BY <2>2, <1>6
  <2>8. Len(s2) <= Len(s1) /\ (s = st => Len(s2) + ready <= Len(s1))
    <3>1. CASE s = st
      <4>1. s2 = b /\ s1 = old
        BY <1>4, <1>12, <2>1, <3>1, Zenon
      <4>2. Len(s2) = Len(s1) - ready
        BY <1>7, <4>1, Zenon
      <4> QED BY <2>7, <4>2
    <3>2. CASE s # st
      <4>1. s2 = s1
        BY <1>12, <2>1, <3>2
      <4> QED BY <2>7, <3>2, <4>1
    <3> QED BY <3>1, <3>2
  <2>9. s = st => Len(s2) + Cardinality(H2) <= Len(s1) + Cardinality(H)
    <3> HIDE <2>1
    <3> QED BY <2>3, <2>4, <2>6, <2>7, <2>8
  <2>10. l2.state # None /\ l2.state.stream = s => s = st
    BY <1>4, <1>10, <2>1, Zenon
  <2>11. l2.state # None /\ l2.state.stream = s =>
            Len(s2) + Cardinality(HeldBy(l2.queue, l2.inflight)) <= Len(s1) + Cardinality(HeldBy(l.queue, l.inflight))
    BY <2>2, <2>9, <2>10, Zenon
  <2>12. Using(s2, l2, s) <= Using(s1, l, s)
    BY <2>2, <2>8, <2>11, FewerAreUsed
  <2> QED BY <2>1, <2>12, Zenon
<1> QED BY <1>10, <1>15, <1>16, <1>17, <1>18, WorkerMoves

-----------------------------------------------------------------------------
LEMMA PacingInitHolds == AllInit => PacingInv
<1> SUFFICES ASSUME AllInit PROVE PacingInv
  OBVIOUS
<1>1. /\ timing = Unset /\ stream = None /\ dimensions = Unset
      /\ submitted = [st \in Handles |-> <<>>]
      /\ worker_running = TRUE /\ stream_state = None
      /\ worker = "waiting" /\ local = Pacing!Idle /\ reading = None /\ sent = -1
      /\ active = FALSE /\ context = Pacing!NoContext
  BY DEF AllInit, Pacing!Init, Pacing!SchedulerInit
<1>2. ClockInv
  BY ClockInitHolds
<1>3. local.state = None /\ local.inflight = None /\ -1 \in Int
  BY <1>1 DEF Pacing!Idle
<1>4. WorkerInv
  BY <1>1, <1>3, IdleIsOK DEF WorkerInv
<1>5. NodeInv
  BY <1>1 DEF NodeInv
<1>6. \A st \in Handles : submitted[st] = <<>>
  BY <1>1
<1>7. SubmittedInv
  <2>1. submitted = [st \in Handles |-> submitted[st]]
    BY <1>1
  <2>2. \A st \in Handles : submitted[st] \in Seq(Of(st)) /\ DOMAIN submitted[st] = {}
    <3>1. \A F : <<>> \in Seq(F)
      OBVIOUS
    <3>2. DOMAIN <<>> = {}
      OBVIOUS
    <3> QED BY <1>6, <3>1, <3>2, Zenon
  <2> QED BY <2>1, <2>2, Zenon DEF SubmittedInv, Sorted
<1>8. PlayInv
  BY <1>1, <1>3 DEF PlayInv, Pacing!NoContext
<1>9. SlotsInv
  BY <1>1 DEF SlotsInv
<1> QED BY <1>2, <1>4, <1>5, <1>7, <1>8, <1>9 DEF PacingInv

LEMMA PacingNextKeeps == ASSUME PacingInv, AllNext \/ UNCHANGED pVars PROVE PacingInv'
<1>1. CASE UNCHANGED pVars
  <2>1. /\ UNCHANGED Pacing!scheduler
        /\ UNCHANGED <<timing, stream, dimensions, submitted, worker_running, stream_state,
                       worker, local, reading, sent>>
    BY <1>1 DEF pVars, Pacing!scheduler
  <2> QED BY <2>1, TimePasses
<1>2. CASE Pacing!Next
  <2>1. CASE Pacing!Tick /\ UNCHANGED <<Pacing!node_vars, Pacing!sender_vars, Pacing!worker_vars, submitted>>
    <3>1. UNCHANGED <<timing, stream, dimensions, submitted, worker_running, stream_state,
                      worker, local, reading, sent>>
      BY <2>1 DEF Pacing!node_vars, Pacing!sender_vars, Pacing!worker_vars
    <3> QED BY <2>1, <3>1, TimePasses
  <2>2. CASE \E d \in Durations, buffer \in Buffers : Pacing!BeginNodeFrame(d, buffer)
    BY <2>2, BeginNodeKeeps
  <2>3. CASE Pacing!FinishNodeFrame
    BY <2>3, OutputKeeps
  <2>4. CASE Pacing!CloseSender \/ Pacing!OpenSender
    BY <2>4, SenderKeeps
  <2>5. CASE Pacing!Worker
    BY <2>5, LeavesKeeps, TakeKeeps, CheckKeeps, PacingCollectKeeps, SendKeeps,
       FlushKeeps DEF Pacing!Worker
  <2>6. CASE \E st \in Handles : Pacing!LoseFrame(st)
    BY <2>6, LoseKeeps
  <2>7. CASE UNCHANGED Pacing!vars
    <3>1. UNCHANGED pVars
      BY <2>7 DEF pVars, Pacing!vars, Pacing!scheduler, Pacing!node_vars, Pacing!sender_vars,
         Pacing!worker_vars
    <3>2. /\ UNCHANGED Pacing!scheduler
          /\ UNCHANGED <<timing, stream, dimensions, submitted, worker_running, stream_state,
                         worker, local, reading, sent>>
      BY <3>1 DEF pVars, Pacing!scheduler
    <3> QED BY <3>2, TimePasses
  <2> QED BY <1>2, <2>1, <2>2, <2>3, <2>4, <2>5, <2>6, <2>7, Zenon DEF Pacing!Next
<1> QED BY <1>1, <1>2 DEF AllNext

LEMMA PacingInvariance == AllSpec => []PacingInv
<1>1. AllInit => PacingInv
  BY PacingInitHolds
<1>2. PacingInv /\ [AllNext]_<<part, vars, pVars, sVars>> => PacingInv'
  BY PacingNextKeeps
<1> QED BY <1>1, <1>2, PTL DEF AllSpec

\* The frame sent next comes from the queue, which has none older.
LEMMA SendsInOrder ==
    ASSUME PacingInv, AllNext \/ UNCHANGED pVars
    PROVE  sent' >= sent
<1>1. sent \in Int
  BY DEF PacingInv, WorkerInv
<1>2. CASE Pacing!Send
  <2>1. worker = "sending" /\ sent' = local.queue.current.target
    BY <1>2 DEF Pacing!Send
  <2>2. /\ WorkerOK(local, "sending") /\ local.state # None
        /\ local.queue.current # None
    <3>1. WorkerOK(local, "sending")
      BY <2>1 DEF PacingInv, WorkerInv
    <3> QED BY <3>1, ThreadHasStream, Zenon DEF WorkerOK, Thread
  <2>3. In(local.queue.current, local.queue)
    BY <2>2 DEF In
  <2>4. sent <= local.queue.current.target
    BY <2>2, <2>3, Zenon DEF PacingInv, PlayInv, Behind
  <2>5. local.queue.current.target \in Int
    BY <2>3, TargetsAreNumbers DEF PacingInv
  <2> QED BY <1>1, <2>1, <2>4, <2>5
<1>3. CASE ~Pacing!Send
  <2>1. sent' = sent
    <3>1. CASE UNCHANGED pVars
      BY <3>1 DEF pVars
    <3>2. CASE Pacing!Next
      <4>1. ASSUME NEW d, NEW b, Pacing!BeginNodeFrame(d, b) PROVE sent' = sent
        BY <4>1 DEF Pacing!BeginNodeFrame, Pacing!worker_vars
      <4>2. ASSUME NEW st, Pacing!LoseFrame(st) PROVE sent' = sent
        BY <4>2 DEF Pacing!LoseFrame, Pacing!worker_vars
      <4>3. ASSUME Pacing!FinishNodeFrame \/ Pacing!CloseSender \/ Pacing!OpenSender PROVE sent' = sent
        BY <4>3 DEF Pacing!FinishNodeFrame, Pacing!CloseSender, Pacing!OpenSender, Pacing!worker_vars
      <4>4. ASSUME Pacing!Worker PROVE sent' = sent
        BY <1>3, <4>4 DEF Pacing!Worker, Pacing!WorkerLeaves, Pacing!TakeStream, Pacing!CheckStream,
                          Pacing!Collect, Pacing!Flush
      <4>5. ASSUME UNCHANGED Pacing!vars \/ UNCHANGED Pacing!worker_vars PROVE sent' = sent
        BY <4>5 DEF Pacing!vars, Pacing!worker_vars
      <4> QED BY <3>2, <4>1, <4>2, <4>3, <4>4, <4>5 DEF Pacing!Next
    <3> QED BY <3>1, <3>2 DEF AllNext
  <2> QED BY <1>1, <2>1
<1> QED BY <1>2, <1>3

\* Neither output goes back in program time, whatever frames come late, are lost or
\* repeated, and however streams, rates, senders and presenters follow each other.
THEOREM OutputsPlayOnInOrder == AllSpec => OutputsPlayInOrder
<1>1. PacingInv /\ [AllNext]_<<part, vars, pVars, sVars>> => [sent' >= sent]_Pacing!vars
  BY SendsInOrder
<1>2. AllSpec => Pacing!SentInOrder
  BY <1>1, PacingInvariance, PTL DEF AllSpec, Pacing!SentInOrder
<1> QED BY <1>2, ScreenPlaysInOrder DEF OutputsPlayInOrder

\* However much the thread of an output keeps, the pipeline has its slots.
LEMMA PacingSlots == PacingInv => Pacing!PipelineHasSlots
<1> SUFFICES ASSUME PacingInv, local.state # None, submitted[local.state.stream] = <<>>
             PROVE  Pacing!SlotCount(local.state.buffer) - Pacing!SlotsUsed(local.state.stream) >= PipelineHeadroom
  BY DEF Pacing!PipelineHasSlots
<1>1. WorkerOK(local, worker)
  BY DEF PacingInv, WorkerInv
<1>2. /\ worker \in Thread /\ local.state.stream \in Handles
      /\ local.state.buffer \in Nat \ {0}
      /\ Pacing!QueueCapacity(local.state.buffer) \in Nat \ {0}
  BY <1>1, ThreadHasStream
<1>3. PICK st, c, n, H, q, k : /\ st = local.state.stream /\ c = Pacing!QueueCapacity(local.state.buffer)
                               /\ n = Pacing!SlotsUsed(local.state.stream)
                               /\ H = HeldBy(local.queue, local.inflight) /\ q = local.queue
                               /\ k = Pacing!SlotCount(local.state.buffer)
  BY Zenon
<1>4. n = Cardinality(H) /\ Cardinality(H) \in Nat
  <2>1. submitted[st] \in Seq(Of(st)) /\ st \in Handles /\ Len(submitted[st]) = 0
    BY <1>2, <1>3 DEF PacingInv, SubmittedInv
  <2>2. n = Using(submitted[st], local, st)
    BY <1>3, SlotsAreUsing, Zenon
  <2>3. /\ Cardinality(H) \in Nat
        /\ Using(submitted[st], local, st) = Len(submitted[st]) + Cardinality(H)
    BY <1>1, <1>3, <2>1, SlotsAreUsed
  <2> QED BY <2>1, <2>2, <2>3
<1>5. Queue(q, Of(st), c) /\ Len(q.frames) \in Nat /\ Len(q.frames) <= c
  <2>1. Queue(q, Of(st), c)
    BY <1>1, <1>2, <1>3, Zenon DEF WorkerOK
  <2> QED BY <2>1 DEF Queue
<1>6. /\ local.inflight \in {None, q.current} => Cardinality(H) <= Len(q.frames) + 1
      /\ Cardinality(H) <= Len(q.frames) + 2
  <2>1. H = HeldBy(q, local.inflight) /\ c \in Nat
    BY <1>2, <1>3, Zenon
  <2> QED BY <1>5, <2>1, HeldIsCounted
<1>7. local.inflight \in {None, q.current} \/ Len(q.frames) + 1 <= c
  BY <1>1, <1>2, <1>3 DEF WorkerOK
<1>8. c \in Nat /\ k = c + 1 + PipelineHeadroom
  BY <1>2, <1>3 DEF Pacing!SlotCount
<1>9. k - n >= PipelineHeadroom
  <2> HIDE <1>3
  <2> QED BY <1>4, <1>5, <1>6, <1>7, <1>8, PacingConstants
<1> QED BY <1>3, <1>9, Zenon

\* The render thread of either output has the slots of its pipeline.
THEOREM PipelineKeepsSlots == AllSpec => []PipelineHasSlots
<1>1. PacingInv /\ ScreenInv => PipelineHasSlots
  BY PacingSlots, ScreenSlots DEF PipelineHasSlots
<1> QED BY <1>1, PacingInvariance, ScreenInvariance, PTL

\* What the invariant says of the types, the slots and the buffer that is read.
LEMMA PacingTypes == PacingInv => Pacing!TypeOK /\ Pacing!SentBuffersAreHeld
<1> SUFFICES ASSUME PacingInv PROVE Pacing!TypeOK /\ Pacing!SentBuffersAreHeld
  OBVIOUS
<1>1. WorkerOK(local, worker) /\ reading = local.inflight
  BY DEF PacingInv, WorkerInv
<1>2. Pacing!SentBuffersAreHeld
  BY <1>1 DEF Pacing!SentBuffersAreHeld, Pacing!Held
<1>3. worker \in {"waiting", "ended"} <=> local = Pacing!Idle
  <2>1. ASSUME worker \in Thread PROVE local # Pacing!Idle
    <3>1. local.state # None
      BY <1>1, <2>1, ThreadHasStream
    <3> QED BY <3>1 DEF Pacing!Idle
  <2>2. worker \in Thread \cup {"waiting", "ended"} /\ (worker \notin Thread => local = Pacing!Idle)
    BY <1>1 DEF WorkerOK
  <2>3. worker \in {"waiting", "ended"} => worker \notin Thread
    BY DEF Thread
  <2> QED BY <2>1, <2>2, <2>3
<1>4. worker \in {"waiting", "checking", "collecting", "sending", "flushing", "ended"}
  BY <1>1 DEF WorkerOK, Thread
<1>5. stream_state # None /\ active => stream_state.duration = duration
  BY DEF PacingInv, NodeInv
<1>6. stream \in Handles \cup {None} /\ dimensions \in Dimensions \cup {Unset} /\ worker_running \in BOOLEAN
  BY DEF PacingInv, NodeInv
<1>7. Pacing!SchedulerTypeOK
  BY DEF PacingInv, ClockInv
<1>8. stream # None => Pacing!SlotsUsed(stream) <= Pacing!SlotCount(timing[2])
  BY DEF PacingInv, SlotsInv
<1> QED BY <1>2, <1>3, <1>4, <1>5, <1>6, <1>7, <1>8, Zenon DEF Pacing!TypeOK

\* Every frame of a source and every slot of an output is in one place, and the
\* library reads the buffer of a frame that is held.
THEOREM FramesStayAccountedFor == AllSpec => []FramesAreAccountedFor
<1>1. AllInit => IInv
  BY InitHolds DEF AllInit
<1>2. IInv /\ [AllNext]_<<part, vars, pVars, sVars>> => IInv'
  <2>1. [AllNext]_<<part, vars, pVars, sVars>> => [Next]_vars
    BY DEF AllNext
  <2> QED BY <2>1, NextKeeps
<1>3. IInv /\ PacingInv /\ ScreenInv => FramesAreAccountedFor
  BY PacingTypes DEF IInv, ScreenInv, FramesAreAccountedFor
<1> QED BY <1>1, <1>2, <1>3, PacingInvariance, ScreenInvariance, PTL DEF AllSpec
=============================================================================
