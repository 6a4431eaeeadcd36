------------------------------ MODULE NdiPacing ------------------------------
(* How an NDI output is paced: on the render thread the node gives its sender  *)
(* a stream of downloaded frames and submits one per frame; the sender's own   *)
(* thread selects frames for presentation and hands them to the NDI library.   *)
(*                                                                             *)
(* src/src/nodes/ndi/output.cpp and src/src/nodes/ndi/detail/output_sender.cpp *)
(* on top of the program's clock (FrameScheduler) and the data structures of   *)
(* pacing (OutputTiming). The download itself is TextureReadback: here a       *)
(* submitted frame becomes ready, in order, or is lost. Senders come and go in *)
(* NdiOutput; here there is one at a time, which may be closed and followed by *)
(* another.                                                                    *)
EXTENDS FrameScheduler, OutputTiming

CONSTANTS
    None,            \* no stream, no frame
    Streams,         \* bound: identities for readback streams alive at once
    Dimensions,      \* sizes of the input texture
    Buffers,         \* values of the setting buffer_frames
    QueueHeadroom,   \* get_queue_capacity beyond the buffer
    PipelineHeadroom,\* READBACK_PIPELINE_HEADROOM
    Unset            \* an observed value that holds nothing

\* What the constants have to be; assumed where they get values.
PacingAssumption ==
    /\ None \notin Streams /\ Unset \notin Dimensions /\ NoFrame = None
    /\ None \notin [target : Int, stream : Streams]
    /\ None \notin [stream : Streams, duration : Durations, buffer : Buffers]
    /\ Buffers \subseteq Nat \ {0} /\ QueueHeadroom \in Nat /\ PipelineHeadroom \in Nat
    /\ ObservationCount \in Nat \ {0}

VARIABLES
    timing,         \* timing_selection_: the epoch and the buffer, or Unset
    stream,         \* readback_stream_
    dimensions,     \* stream_dimensions_
    submitted,      \* frames of a stream, submitted and not consumed
    worker_running, \* worker_running_
    stream_state,   \* stream_state_: stream, duration and buffer, or None
    worker,         \* its thread: waiting, checking, collecting, sending, flushing, ended
    local,          \* what run_stream keeps on the thread's stack
    reading,        \* the frame whose buffer the NDI library reads
    sent            \* history: the program time of the frame sent last

node_vars   == <<timing, stream, dimensions>>
sender_vars == <<worker_running, stream_state>>
worker_vars == <<worker, local, reading, sent>>
vars == <<scheduler, node_vars, sender_vars, worker_vars, submitted>>

Idle == [state |-> None, queue |-> EmptyQueue, started |-> FALSE, deadline |-> 0,
         observations |-> <<>>, inflight |-> None]

QueueCapacity(buffer) == buffer + QueueHeadroom
SlotCount(buffer)     == QueueCapacity(buffer) + 1 + PipelineHeadroom

\* Frames the sender's thread keeps a reference to.
Held ==
    ({local.queue.frames[i] : i \in DOMAIN local.queue.frames}
        \cup {local.queue.current, local.inflight}) \ {None}

\* Slots of a stream that are not free.
SlotsUsed(st) == Len(submitted[st]) + Cardinality({f \in Held : f.stream = st})

\* A stream goes with the last reference to it.
Referred(st) ==
    \/ stream = st
    \/ stream_state # None /\ stream_state.stream = st
    \/ local.state # None /\ local.state.stream = st

-----------------------------------------------------------------------------
(* The node, on the render thread. *)

\* Fault: the thread goes on with the stream of the timing before.
PrepareKeepingStream(buffer) ==
    /\ timing' = <<context'.epoch, buffer>>
    /\ UNCHANGED <<stream, dimensions, stream_state>>

(* prepare, as the frame begins: with a new timing, clear_render_state takes   *)
(* the stream away.                                                            *)
Prepare(buffer) ==
    /\ timing' = <<context'.epoch, buffer>>
    /\ IF timing' = timing
       THEN UNCHANGED <<stream, dimensions, stream_state>>
       ELSE stream' = None /\ dimensions' = Unset /\ stream_state' = None

BeginNodeFrame(d, buffer) ==
    /\ BeginFrame(d) /\ Prepare(buffer)
    /\ UNCHANGED <<worker_running, worker_vars, submitted>>

(* ensure_readback_stream: a stream for the texture's size, and the sender     *)
(* told of it.                                                                 *)
EnsureStream(size) ==
    IF stream # None /\ dimensions = size
    THEN UNCHANGED <<stream, dimensions, stream_state>>
    ELSE \E st \in Streams :
            /\ ~Referred(st)
            /\ stream' = st /\ dimensions' = size
            /\ stream_state' = [stream |-> st, duration |-> duration, buffer |-> timing[2]]

(* execute and complete: with a running sender and an input the frame is drawn *)
(* into a free slot and submitted for download, if there is one.               *)
Output(size) ==
    /\ worker_running
    /\ EnsureStream(size)
    /\ LET fresh == IF stream' # stream THEN <<>> ELSE submitted[stream']
           frame == [target |-> context.target, stream |-> stream']
       IN  \/ submitted' = [submitted EXCEPT ![stream'] = fresh]
           \/ /\ stream' = stream => SlotsUsed(stream) < SlotCount(timing[2])
              /\ submitted' = [submitted EXCEPT ![stream'] = Append(fresh, frame)]

FinishNodeFrame ==
    /\ FinishFrame
    /\ \/ UNCHANGED <<stream, dimensions, stream_state, submitted>>
       \/ \E size \in Dimensions : Output(size)
    /\ UNCHANGED <<timing, worker_running, worker_vars>>

(* The sender is stopped, on another thread, while the node lets go of its     *)
(* stream; and when its thread is joined another takes its place.              *)
CloseSender ==
    /\ worker_running /\ ~active
    /\ worker_running' = FALSE
    /\ stream' = None /\ dimensions' = Unset /\ stream_state' = None
    /\ UNCHANGED <<scheduler, timing, worker_vars, submitted>>

OpenSender ==
    /\ worker = "ended" /\ ~active
    /\ worker_running' = TRUE /\ worker' = "waiting"
    /\ UNCHANGED <<scheduler, node_vars, stream_state, local, reading, sent, submitted>>

-----------------------------------------------------------------------------
(* The sender's thread. *)

WorkerGoes(place) ==
    /\ worker' = place
    /\ UNCHANGED <<scheduler, node_vars, sender_vars>>

(* worker_loop *)
WorkerLeaves ==
    /\ worker = "waiting" /\ ~worker_running
    /\ WorkerGoes("ended")
    /\ UNCHANGED <<local, reading, sent, submitted>>

TakeStream ==
    /\ worker = "waiting" /\ worker_running /\ stream_state # None
    /\ local' = [Idle EXCEPT !.state = stream_state]
    /\ WorkerGoes("checking")
    /\ UNCHANGED <<reading, sent, submitted>>

(* is_current_stream: a generation names a stream. *)
CheckStream ==
    /\ worker = "checking"
    /\ WorkerGoes(IF worker_running /\ stream_state = local.state
                     THEN "collecting" ELSE "flushing")
    /\ UNCHANGED <<local, reading, sent, submitted>>

(* The rest of an iteration up to the send, with the frames collected pushed   *)
(* onto queue: nothing is sent before the buffer is full and the deadline has  *)
(* come; intervals that have passed are skipped, and what was due earlier than *)
(* the selected frame is dropped.                                              *)
Iterate(queue) ==
    LET l        == local
        d        == l.state.duration
        starts   == ~l.started
        deadline == IF starts THEN now ELSE l.deadline
        latest   == deadline + d * ((now - deadline) \div d)
        observed == IF starts THEN Observe(l.observations, now - Head(queue.frames).target)
                              ELSE l.observations
        target   == ProgramTarget(observed, latest)
        chosen   == Select(queue, target, d \div 2)
        fresh    == Due(queue, target, d \div 2) # 0
    IN  IF (starts /\ Len(queue.frames) < l.state.buffer) \/ now < deadline
        THEN local' = [local EXCEPT !.queue = queue] /\ WorkerGoes("checking")
        ELSE /\ local' = [local EXCEPT !.queue = chosen, !.started = TRUE,
                             !.deadline = IF chosen.current = None THEN latest + d ELSE latest,
                             !.observations = IF fresh
                                 THEN Observe(observed, latest - chosen.current.target)
                                 ELSE observed]
             /\ WorkerGoes(IF chosen.current = None THEN "checking" ELSE "sending")

(* collect_completed_readbacks takes those that are ready, and the iteration   *)
(* goes on.                                                                    *)
Collect ==
    /\ worker = "collecting"
    /\ LET l == local
           st == l.state.stream
       IN  \E ready \in 0..Len(submitted[st]) :
              /\ submitted' = [submitted EXCEPT ![st] = SubSeq(@, ready + 1, Len(@))]
              /\ Iterate(PushAll(l.queue, SubSeq(submitted[st], 1, ready),
                                    QueueCapacity(l.state.buffer)))
    /\ UNCHANGED <<reading, sent>>

\* Fault: nothing but the queue keeps the frame that is being sent.
SendUnheld ==
    /\ worker = "sending"
    /\ reading' = local.queue.current /\ sent' = reading'.target
    /\ local' = [local EXCEPT !.deadline = @ + local.state.duration]
    /\ WorkerGoes("checking")
    /\ UNCHANGED submitted

(* send_frame gives the library the next buffer to read, which takes it from   *)
(* the one before; that one is let go of afterwards.                           *)
Send ==
    /\ worker = "sending"
    /\ LET frame == local.queue.current
       IN  /\ reading' = frame /\ sent' = frame.target
           /\ local' = [local EXCEPT !.inflight = frame,
                                         !.deadline = @ + local.state.duration]
    /\ WorkerGoes("checking")
    /\ UNCHANGED submitted

(* run_stream ends: a null frame makes the library let go of the last buffer,  *)
(* and then all frames go.                                                     *)
Flush ==
    /\ worker = "flushing"
    /\ reading' = None
    /\ local' = Idle
    /\ WorkerGoes("waiting")
    /\ UNCHANGED <<sent, submitted>>

(* A download fails. *)
LoseFrame(st) ==
    /\ \E i \in DOMAIN submitted[st] : submitted' = [submitted EXCEPT ![st] = RemoveAt(@, i)]
    /\ UNCHANGED <<scheduler, node_vars, sender_vars, worker_vars>>

-----------------------------------------------------------------------------
Init ==
    /\ SchedulerInit
    /\ timing = Unset /\ stream = None /\ dimensions = Unset
    /\ submitted = [st \in Streams |-> <<>>]
    /\ worker_running = TRUE /\ stream_state = None
    /\ worker = "waiting" /\ local = Idle /\ reading = None /\ sent = -1

Worker == WorkerLeaves \/ TakeStream \/ CheckStream \/ Collect \/ Send \/ Flush

Next ==
    \/ Tick /\ UNCHANGED <<node_vars, sender_vars, worker_vars, submitted>>
    \/ \E d \in Durations, buffer \in Buffers : BeginNodeFrame(d, buffer)
    \/ FinishNodeFrame
    \/ CloseSender \/ OpenSender
    \/ Worker
    \/ \E st \in Streams : LoseFrame(st)
    \/ now = Horizon /\ UNCHANGED vars

Spec == Init /\ [][Next]_vars

-----------------------------------------------------------------------------
(* Types; and the slots that are in use are slots of the stream. *)
TypeOK ==
    /\ SchedulerTypeOK
    /\ stream \in Streams \cup {None} /\ dimensions \in Dimensions \cup {Unset}
    /\ worker_running \in BOOLEAN
    /\ worker \in {"waiting", "checking", "collecting", "sending", "flushing", "ended"}
    /\ worker \in {"waiting", "ended"} <=> local = Idle
    /\ stream # None => SlotsUsed(stream) <= SlotCount(timing[2])
    /\ stream_state # None /\ active => stream_state.duration = duration

(* The library reads the buffer of the frame it was given until it is given    *)
(* the next one or none: the slot is not free for another frame while it does. *)
SentBuffersAreHeld == reading # None => reading \in Held

(* Frames go out in the order of program time, none again after a newer one:   *)
(* across failed downloads, skipped intervals, new streams, rates and senders. *)
SentInOrder == [][sent' >= sent]_vars

(* However far the sender falls behind the program, what its thread keeps      *)
(* leaves the render thread the slots of the pipeline as soon as downloads are *)
(* consumed.                                                                   *)
PipelineHasSlots ==
    local.state # None =>
        LET st == local.state.stream
        IN  submitted[st] = <<>> =>
               SlotCount(local.state.buffer) - SlotsUsed(st) >= PipelineHeadroom
=============================================================================
