----------------------------- MODULE SourceQueue -----------------------------
(* The timed source queue between the capture thread of an NDI input and the   *)
(* render thread: captured frames wait for their program time, each program    *)
(* frame of an active input selects one, uploads it and shows it.              *)
(*                                                                             *)
(* src/src/media/timed_source_queue.hpp, as the capture and frame cycle of     *)
(* src/src/nodes/ndi/detail/input_capture.cpp use it. A frame is the number of *)
(* its capture: (stream_epoch, frame_sequence) only grows along the capture    *)
(* thread. Program time is abstracted to which queued frames are due, the      *)
(* media clock to when it sees a discontinuity. The upload stream is the       *)
(* client's view of TextureUpload.                                             *)
EXTENDS Naturals, FiniteSets

CONSTANTS
    Capacity,  \* config_.capacity
    MaxFrames, \* bound: frames captured
    None

ASSUME CapacityAssumption == Capacity \in Nat \ {0} /\ MaxFrames \in Nat
ASSUME NoneAssumption == None \notin Nat

Frames == 1 .. MaxFrames

VARIABLES
    place,     \* where each frame is: pending_, advance's local batch, frames_, current_
    readiness, \* source_frame_s::readiness_
    upload,    \* the frame's upload, from its lease to its texture
    queued,    \* queued_frames_
    next,      \* the next frame to be captured
    loaded,    \* push holds pending_mutex_ and has loaded this, or None
    due,       \* members of frames_ with program_pts up to select's limit
    clock,     \* clock_ is initialised
    ticket,    \* prepared_frame_
    retained,  \* the frame whose texture the upload stream retains, or None
    shown,     \* history: the frame last committed
    pc         \* the render thread's place in the frame

vars == <<place, readiness, upload, queued, next, loaded, due, clock, ticket,
          retained, shown, pc>>

At(p) == {f \in Frames : place[f] = p}
Queued == {f \in Frames : place[f] \in {"pending", "batch", "frames"}}
Current == IF At("current") = {} THEN None ELSE CHOOSE f \in At("current") : TRUE

Oldest(fs) == {f \in fs : \A g \in fs : f <= g}
Newest(fs) == {f \in fs : \A g \in fs : g <= f}

NoTicket == [frame |-> None, selection |-> "missing"]

(* Frames let go: by cancel_frame unless they are ready, and with the last     *)
(* reference a lease that was not submitted goes back to the stream.           *)
Move(fs, p) == [f \in Frames |-> IF f \in fs THEN p ELSE place[f]]
Cancelled(fs) ==
    [f \in Frames |-> IF f \in fs /\ readiness[f] \in {"reserved", "submitted"}
                      THEN "failed" ELSE readiness[f]]
Returned(fs) ==
    [f \in Frames |-> IF f \in fs /\ upload[f] = "leased" THEN "returned" ELSE upload[f]]

\* Fault: the current frame is counted as queued.
LetGoAll(fs) ==
    /\ place' = Move(fs, "gone")
    /\ readiness' = Cancelled(fs)
    /\ upload' = Returned(fs)
    /\ queued' = queued - Cardinality(fs)
    /\ due' = due \ fs

LetGo(fs) ==
    /\ place' = Move(fs, "gone")
    /\ readiness' = Cancelled(fs)
    /\ upload' = Returned(fs)
    /\ queued' = queued - Cardinality(fs \cap Queued)
    /\ due' = due \ fs

-----------------------------------------------------------------------------
(* The capture thread. *)

(* process_video_frame copies the frame into a lease; push takes the mutex and *)
(* loads the counter, which the render thread may still lower.                 *)
BeginPush ==
    /\ pc # "destroyed" /\ loaded = None /\ next <= MaxFrames
    /\ next' = next + 1
    /\ loaded' = queued
    /\ readiness' = [readiness EXCEPT ![next] = "reserved"]
    /\ upload' = [upload EXCEPT ![next] = "leased"]
    /\ UNCHANGED <<place, queued, due, clock, ticket, retained, shown, pc>>

Pushed == next - 1

(* A full queue gives up the oldest pending frame, or the new one.             *)
PushOver ==
    /\ loaded # None /\ loaded >= Capacity
    /\ \E victim \in IF At("pending") = {} THEN {Pushed} ELSE Oldest(At("pending")) :
           /\ place' = [f \in Frames |-> IF f = victim THEN "gone"
                                         ELSE IF f = Pushed THEN "pending" ELSE place[f]]
           /\ readiness' = Cancelled({victim})
           /\ upload' = Returned({victim})
    /\ loaded' = None
    /\ UNCHANGED <<queued, next, due, clock, ticket, retained, shown, pc>>

\* Fault: the counter is stored, not compared and exchanged.
PushStore ==
    /\ loaded # None /\ loaded < Capacity
    /\ queued' = loaded + 1
    /\ place' = Move({Pushed}, "pending")
    /\ loaded' = None
    /\ UNCHANGED <<readiness, upload, next, due, clock, ticket, retained, shown, pc>>

PushInto ==
    /\ loaded # None /\ loaded < Capacity
    /\ IF loaded = queued
       THEN /\ queued' = queued + 1
            /\ place' = Move({Pushed}, "pending")
            /\ loaded' = None
       ELSE /\ loaded' = queued
            /\ UNCHANGED <<queued, place>>
    /\ UNCHANGED <<readiness, upload, next, due, clock, ticket, retained, shown, pc>>

(* The upload worker, as the client sees it: a transfer completes or fails.    *)
Transfer ==
    \E f \in Frames, result \in {"completed", "failed"} :
        /\ upload[f] = "queued"
        /\ upload' = [upload EXCEPT ![f] = result]
        /\ UNCHANGED <<place, readiness, queued, next, loaded, due, clock, ticket,
                       retained, shown, pc>>

-----------------------------------------------------------------------------
(* The render thread: prepare, submit, execute, complete. *)

(* advance takes what is pending; meanwhile program time went on.              *)
SwapPending ==
    /\ pc = "prepare" /\ loaded = None
    /\ place' = Move(At("pending"), "batch")
    /\ \E d \in SUBSET At("frames") : due \subseteq d /\ due' = d
    /\ pc' \in {"advance", "discontinuity"}
    /\ UNCHANGED <<readiness, upload, queued, next, loaded, clock, ticket, retained, shown>>

(* clear_for_discontinuity: frames_ and current_.                              *)
Cleared == At("frames") \cup At("current")

ProgramDiscontinuity ==
    /\ pc = "discontinuity"
    /\ LetGo(Cleared)
    /\ clock' = FALSE
    /\ pc' = "advance"
    /\ UNCHANGED <<next, loaded, ticket, retained, shown>>

(* One frame of the batch: the clock may see a discontinuity, which clears the *)
(* queue first, and may be unable to map the frame, which drops it.            *)
AdvanceFrame ==
    /\ pc = "advance"
    /\ \E f \in Oldest(At("batch")), jump \in {clock, FALSE}, mapped \in BOOLEAN :
           LET cleared == IF jump THEN Cleared ELSE {}
               dropped == cleared \cup (IF mapped THEN {} ELSE {f})
           IN  /\ place' = [Move(dropped, "gone") EXCEPT ![f] = IF mapped THEN "frames" ELSE "gone"]
               /\ readiness' = Cancelled(cleared)
               /\ upload' = Returned(dropped)
               /\ queued' = queued - Cardinality(dropped \cap Queued)
               /\ due' \in {due \ cleared} \cup {(due \ cleared) \cup {g} : g \in {f} \ dropped}
    /\ clock' = TRUE
    /\ UNCHANGED <<next, loaded, ticket, retained, shown, pc>>

EndAdvance ==
    /\ pc = "advance" /\ At("batch") = {}
    /\ pc' = "submit"
    /\ UNCHANGED <<place, readiness, upload, queued, next, loaded, due, clock, ticket,
                   retained, shown>>

\* Fault: older frames mapped to a later time stay.
SupersededDue(s) == {f \in due : f < s}

(* select: the newest due frame, the older ones dropped whether due or not;    *)
(* else the frame shown last; else nothing.                                    *)
Superseded(s) == {f \in At("frames") : f < s}

(* The selected frame is submitted to the upload service and parked, or its    *)
(* lease is refused and it leaves the queue.                                   *)
SubmitNew ==
    \E s \in Newest(due) :
        \/ /\ place' = Move(Superseded(s), "gone")
           /\ readiness' = [Cancelled(Superseded(s)) EXCEPT ![s] = "submitted"]
           /\ upload' = [Returned(Superseded(s)) EXCEPT ![s] = "queued"]
           /\ queued' = queued - Cardinality(Superseded(s))
           /\ due' = due \ Superseded(s)
           /\ ticket' = [frame |-> s, selection |-> "new"]
        \/ /\ LetGo(Superseded(s) \cup {s})
           /\ ticket' = NoTicket

SubmitRepeat ==
    /\ due = {}
    /\ ticket' = IF Current = None THEN NoTicket
                 ELSE [frame |-> Current, selection |-> "repeat"]
    /\ UNCHANGED <<place, readiness, upload, queued, due>>

SubmitFrame ==
    /\ pc = "submit"
    /\ SubmitNew \/ SubmitRepeat
    /\ pc' = "execute"
    /\ UNCHANGED <<next, loaded, clock, retained, shown>>

(* The input is not in the active graph, or was submitted but not executed.    *)
Inactive ==
    /\ pc \in {"submit", "execute"}
    /\ pc' = "complete"
    /\ UNCHANGED <<place, readiness, upload, queued, next, loaded, due, clock, ticket,
                   retained, shown>>

(* resolve_frame of a new frame, once wait_for_upload returns: the stream      *)
(* retains it and retires what it retained and every other completed upload,   *)
(* and commit makes it the current frame.                                      *)
Commit ==
    /\ pc = "execute" /\ ticket.selection = "new" /\ upload[ticket.frame] = "completed"
    /\ upload' = [f \in Frames |->
                    IF f = ticket.frame THEN "retained"
                    ELSE IF upload[f] \in {"completed", "retained"} THEN "retired" ELSE upload[f]]
    /\ retained' = ticket.frame
    /\ readiness' = [readiness EXCEPT ![ticket.frame] = "ready"]
    /\ place' = [Move(At("current"), "gone") EXCEPT ![ticket.frame] = "current"]
    /\ queued' = queued - 1
    /\ due' = due \ {ticket.frame}
    /\ shown' = ticket.frame
    /\ pc' = "complete"
    /\ UNCHANGED <<next, loaded, clock, ticket>>

(* fail: the transfer failed.                                                  *)
Fail ==
    /\ pc = "execute" /\ ticket.selection = "new" /\ upload[ticket.frame] = "failed"
    /\ LetGo({ticket.frame})
    /\ pc' = "complete"
    /\ UNCHANGED <<next, loaded, clock, ticket, retained, shown>>

(* A repeat asks the stream for the frame it retains, nothing for nothing.     *)
Repeat ==
    /\ pc = "execute" /\ ticket.selection # "new"
    /\ pc' = "complete"
    /\ UNCHANGED <<place, readiness, upload, queued, next, loaded, due, clock, ticket,
                   retained, shown>>

(* release_prepared_frame: a parked frame nobody executed is discarded and     *)
(* leaves the queue.                                                           *)
Unresolved ==
    {f \in {ticket.frame} \ {None} : ticket.selection = "new" /\ readiness[f] = "submitted"}

\* Fault: the ticket is cancelled and its upload left to itself.
CompleteWithoutDiscard ==
    /\ pc = "complete"
    /\ place' = Move(Unresolved, "gone")
    /\ readiness' = Cancelled(Unresolved)
    /\ queued' = queued - Cardinality(Unresolved)
    /\ due' = due \ Unresolved
    /\ ticket' = NoTicket
    /\ pc' = "prepare"
    /\ UNCHANGED <<upload, next, loaded, clock, retained, shown>>

\* Fault: the upload is taken out of the stream by selecting it.
CompleteBySelecting ==
    /\ pc = "complete"
    /\ place' = Move(Unresolved, "gone")
    /\ readiness' = Cancelled(Unresolved)
    /\ upload' = [f \in Frames |-> IF f \in Unresolved THEN "retained"
                                    ELSE IF upload[f] = "retained" THEN "retired" ELSE upload[f]]
    /\ retained' = IF ticket.frame \in Unresolved THEN ticket.frame ELSE retained
    /\ queued' = queued - Cardinality(Unresolved)
    /\ due' = due \ Unresolved
    /\ ticket' = NoTicket
    /\ pc' = "prepare"
    /\ UNCHANGED <<next, loaded, clock, shown>>

Complete ==
    /\ pc = "complete"
    /\ place' = Move(Unresolved, "gone")
    /\ readiness' = Cancelled(Unresolved)
    /\ upload' = [f \in Frames |-> IF f \in Unresolved /\ upload[f] \in {"queued", "completed"}
                                    THEN "discarded" ELSE upload[f]]
    /\ queued' = queued - Cardinality(Unresolved)
    /\ due' = due \ Unresolved
    /\ ticket' = NoTicket
    /\ pc' = "prepare"
    /\ UNCHANGED <<next, loaded, clock, retained, shown>>

(* stop_capture resets the queue between frames; the capture thread may push   *)
(* until the control thread has joined it.                                     *)
StopCapture ==
    /\ pc = "prepare" /\ loaded = None
    /\ LetGo(At("pending") \cup Cleared)
    /\ clock' = FALSE
    /\ pc' = "stopped"
    /\ UNCHANGED <<next, loaded, ticket, retained, shown>>

(* The queue goes once its thread has ended: after a stop, or without a reset  *)
(* when the capture failed.                                                    *)
Destroy ==
    /\ pc \in {"prepare", "stopped"} /\ loaded = None
    /\ LetGo(At("pending") \cup Cleared)
    /\ pc' = "destroyed"
    /\ UNCHANGED <<next, loaded, clock, ticket, retained, shown>>

-----------------------------------------------------------------------------
Init ==
    /\ place = [f \in Frames |-> "none"] /\ readiness = [f \in Frames |-> "none"]
    /\ upload = [f \in Frames |-> "none"]
    /\ queued = 0 /\ next = 1 /\ loaded = None /\ due = {} /\ clock = FALSE
    /\ ticket = NoTicket /\ retained = None /\ shown = 0 /\ pc = "prepare"

Render ==
    \/ SwapPending \/ ProgramDiscontinuity \/ AdvanceFrame \/ EndAdvance
    \/ SubmitFrame \/ Inactive \/ Commit \/ Fail \/ Repeat \/ Complete
    \/ StopCapture \/ Destroy

Terminated == pc = "destroyed" /\ UNCHANGED vars

Next == BeginPush \/ PushOver \/ PushInto \/ Transfer \/ Render \/ Terminated

Spec == Init /\ [][Next]_vars

-----------------------------------------------------------------------------
Places == {"none", "pending", "batch", "frames", "current", "gone"}

(* Every frame is in one place with the readiness and upload that place        *)
(* allows, and due frames are queued.                                          *)
TypeOK ==
    /\ place \in [Frames -> Places]
    /\ readiness \in [Frames -> {"none", "reserved", "submitted", "ready", "failed"}]
    /\ upload \in [Frames -> {"none", "leased", "returned", "queued", "completed", "failed",
                              "discarded", "retained", "retired"}]
    /\ queued \in Nat /\ next \in 1 .. MaxFrames + 1
    /\ loaded \in Nat \cup {None}
    /\ due \subseteq At("frames")
    /\ clock \in BOOLEAN
    /\ ticket \in [frame : Frames \cup {None}, selection : {"new", "repeat", "missing"}]
    /\ retained \in Frames \cup {None} /\ shown \in 0 .. MaxFrames
    /\ pc \in {"prepare", "discontinuity", "advance", "submit", "execute", "complete",
               "stopped", "destroyed"}

(* The lock-free counter counts the frames of pending_, of a batch under way   *)
(* and of frames_, through overflow, clears, drops and commits on two threads, *)
(* and stays within the capacity.                                              *)
QueueIsBounded == queued = Cardinality(Queued) /\ queued <= Capacity

(* Frames are shown in the order they were captured, whatever was dropped,     *)
(* repeated, cleared or failed in between.                                     *)
PlayedInOrder == [][shown' # shown => shown' > shown]_shown

(* A submitted upload belongs to the frame parked for this program frame, so   *)
(* every transfer the input starts is consumed, discarded or failed.           *)
UploadsAreSettled ==
    \A f \in Frames : upload[f] \in {"queued", "completed"} =>
        ticket = [frame |-> f, selection |-> "new"] /\ place[f] = "frames"

(* What a repeat shows is ready and is the texture the stream still retains.   *)
RepeatsAreRetained ==
    /\ Current # None => readiness[Current] = "ready" /\ retained = Current
    /\ ticket.selection = "repeat" => retained = ticket.frame

(* docs/frame-timing-and-synchronization.md:248-251: prepare() lets inputs     *)
(* "discard obsolete media, retain the current candidates" whether or not they *)
(* are active. So between two frames a captured frame is not turned away while *)
(* obsolete frames, due and with a newer one due, fill the queue.              *)
ObsoleteMakesRoom ==
    [][(pc = "prepare" /\ loaded # None) => (place'[Pushed] = "gone" => Cardinality(due) <= 1)]_vars
=============================================================================
