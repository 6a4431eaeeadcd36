--------------------------- MODULE TextureReadback ---------------------------
(* The texture readback service: the render thread draws into a target and     *)
(* submits it, the worker copies it to host memory once the GPU has drawn it,  *)
(* and an output thread consumes the frames in order.                          *)
(*                                                                             *)
(* src/src/gpu/transfer/texture_readback.cpp, with the fences of               *)
(* src/src/gpu/texture_frame.cpp. As in TextureUpload a section under          *)
(* stream->mutex is one step and the enqueue after the unlock another.         *)
EXTENDS TransferWorker, SequencesExt, FiniteSets, FiniteSetsExt

CONSTANT MaxFrames  \* bound: targets acquired per stream

VARIABLES
    stream,   \* texture_readback_stream_state_s, by stream
    slot,     \* texture_readback_slot_s, by slot identity
    working,  \* the readback task whose transfer is in flight, or None
    posts,    \* tasks the render thread is about to enqueue, by stream
    gpu,      \* the GPU has draws into the slot's texture to finish
    fence,    \* render_release_fence_ of a slot's frame is set
    consumed  \* history: the target time of the frame last consumed, by stream

vars == <<stream, slot, tasks, delayed, working, stopping, memory, posts,
          gpu, fence, consumed>>
worker == <<tasks, delayed, working, stopping, memory>>

States == {"free", "rendering", "queued", "ready", "cpu_reading"}

Task(type, st, s) == [type |-> type, stream |-> st, slot |-> s]
Tasks == [type : {"readback"}, stream : Streams, slot : Slots]
         \cup [type : {"allocate", "destroy_stream"}, stream : Streams, slot : {None}]

NewStream ==
    [made |-> FALSE, active |-> FALSE, slots |-> {}, free |-> <<>>, ready |-> <<>>,
     pending |-> 0, targets |-> 0, frames |-> 0, failed |-> FALSE,
     waiting |-> FALSE, time |-> 0]

NewSlot(bytes) == [state |-> "free", bytes |-> bytes, time |-> 0]

InUse == UNION {stream[st].slots : st \in Streams}
StreamOf(s) == CHOOSE st \in Streams : s \in stream[st].slots

-----------------------------------------------------------------------------
(* The worker. *)

Idle == working = None

(* allocate_slot: nothing for a stream closed by the time it looks; the        *)
(* failures are those of the budget, of the correction of the estimate and of  *)
(* the backend.                                                                *)
AllocateSlot ==
    LET st == NextTask.stream IN
    /\ Idle /\ IsNext("allocate")
    /\ Take(<<>>, <<>>)
    /\ \/ /\ ~stream[st].active
          /\ stream' = [stream EXCEPT ![st].pending = @ - 1]
          /\ UNCHANGED <<slot, memory>>
       \/ /\ stream' = [stream EXCEPT ![st].pending = @ - 1, ![st].failed = TRUE,
                                      ![st].waiting = TRUE]
          /\ UNCHANGED <<slot, memory>>
       \/ \E bytes \in ActualBytes : LET s == CHOOSE s \in Slots : s \notin InUse IN
          /\ stream[st].active
          /\ Fits(bytes)
          /\ InUse # Slots
          /\ stream' = [stream EXCEPT ![st].pending = @ - 1,
                          ![st].failed = FALSE, ![st].waiting = FALSE,
                          ![st].slots = @ \cup {s}, ![st].free = Append(@, s)]
          /\ slot' = [slot EXCEPT ![s] = NewSlot(bytes)]
          /\ memory' = memory + bytes
    /\ UNCHANGED <<working, stopping, posts, gpu, fence, consumed>>

(* readback_slot waits for the frame's fence, if one was published, and starts *)
(* the transfer.                                                               *)
BeginReadback ==
    LET t == NextTask IN
    /\ Idle /\ IsNext("readback")
    /\ fence[t.slot] => ~gpu[t.slot]
    /\ Take(<<>>, <<>>)
    /\ working' = t
    /\ fence' = [fence EXCEPT ![t.slot] = FALSE]
    /\ UNCHANGED <<stream, slot, stopping, memory, posts, gpu, consumed>>

(* The rest of readback_slot: a frame that failed, or whose stream is closed,  *)
(* only leaves its slot to others.                                             *)
Finish(success, unused) ==
    LET st == working.stream
        s  == working.slot
    IN
    /\ working # None
    /\ working' = None
    /\ IF success /\ stream[st].active
         THEN /\ slot' = [slot EXCEPT ![s].state = "ready"]
              /\ stream' = [stream EXCEPT ![st].ready = Append(@, s)]
         ELSE /\ slot' = [slot EXCEPT ![s].state = unused]
              /\ stream' = [stream EXCEPT ![st].free =
                              IF stream[st].active THEN Append(@, s) ELSE @]
    /\ UNCHANGED <<tasks, delayed, stopping, memory, posts, gpu, fence, consumed>>

FinishOnlyActive(success) ==
    Finish(success, IF stream[working.stream].active THEN "free" ELSE "queued")
FinishReadback(success) == Finish(success, "free")

(* destroy_stream: retried until nothing is drawn, queued or read. *)
DestroyStream ==
    LET st == NextTask.stream
        busy == \/ stream[st].pending # 0
                \/ stream[st].targets # 0
                \/ stream[st].frames # 0
                \/ \E s \in stream[st].slots :
                     slot[s].state \in {"rendering", "queued", "cpu_reading"}
    IN
    /\ Idle /\ IsNext("destroy_stream")
    /\ \/ /\ busy
          /\ Take(<<>>, <<NextTask>>)
          /\ UNCHANGED <<stream, memory>>
       \/ /\ ~busy
          /\ Take(<<>>, <<>>)
          /\ stream' = [stream EXCEPT ![st].slots = {}, ![st].free = <<>>,
                                      ![st].ready = <<>>]
          /\ memory' = memory - MapThenSumSet(LAMBDA s : slot[s].bytes, stream[st].slots)
    /\ UNCHANGED <<slot, working, stopping, posts, gpu, fence, consumed>>

-----------------------------------------------------------------------------
(* The render thread: the node acquires a target when it executes, draws, and  *)
(* submits it in complete().                                                   *)

Ready(st) == stream[st].active /\ posts[st] = <<>>

Post(st) ==
    /\ posts[st] # <<>>
    /\ tasks' = Enqueued(tasks, <<Head(posts[st])>>)
    /\ posts' = [posts EXCEPT ![st] = Tail(@)]
    /\ UNCHANGED <<stream, slot, delayed, working, stopping, memory, gpu, fence, consumed>>

(* One slot is allocated at a time, up to the limit. *)
HasRoomBesidesPending(st) == Cardinality(stream[st].slots) < MaxSlots
HasRoom(st) ==
    /\ Cardinality(stream[st].slots) + stream[st].pending < MaxSlots
    /\ stream[st].pending = 0

(* try_acquire_render_target, and the drawing that follows. A slot whose       *)
(* texture cannot be acquired for GL goes back (return_target); without a free *)
(* slot one more is allocated. Target times grow with the program's frames.    *)
TryAcquireRenderTarget(st) ==
    LET s == Head(stream[st].free) IN
    /\ Ready(st)
    /\ stream[st].targets = 0
    /\ \/ /\ stream[st].free # <<>>
          /\ stream[st].time < MaxFrames
          /\ stream' = [stream EXCEPT ![st].free = Tail(@), ![st].targets = @ + 1,
                                      ![st].time = @ + 1]
          /\ slot' = [slot EXCEPT ![s].state = "rendering",
                                  ![s].time = stream[st].time + 1]
          /\ gpu' = [gpu EXCEPT ![s] = TRUE]
          /\ UNCHANGED posts
       \/ /\ stream[st].free # <<>>
          /\ stream' = [stream EXCEPT ![st].free = Append(Tail(@), s)]
          /\ slot' = [slot EXCEPT ![s].time = 0]
          /\ UNCHANGED <<gpu, posts>>
       \/ /\ stream[st].free = <<>>
          /\ HasRoom(st) /\ ~stream[st].waiting
          /\ stream' = [stream EXCEPT ![st].pending = @ + 1]
          /\ posts' = [posts EXCEPT ![st] = <<Task("allocate", st, None)>>]
          /\ UNCHANGED <<slot, gpu>>
    /\ UNCHANGED <<worker, fence, consumed>>

(* retry_allocation_after passes, a second after a failed allocation. *)
RetryElapses(st) ==
    /\ stream[st].waiting
    /\ stream' = [stream EXCEPT ![st].waiting = FALSE]
    /\ UNCHANGED <<slot, worker, posts, gpu, fence, consumed>>

(* texture_readback_target_s::submit: the fence follows the last draw and is   *)
(* published before the worker can have the task.                              *)
SubmitTarget(s, fenced) ==
    LET st == StreamOf(s) IN
    /\ s \in InUse
    /\ Ready(st) /\ slot[s].state = "rendering"
    /\ slot' = [slot EXCEPT ![s].state = "queued"]
    /\ stream' = [stream EXCEPT ![st].targets = @ - 1]
    /\ fence' = [fence EXCEPT ![s] = fenced]
    /\ posts' = [posts EXCEPT ![st] = <<Task("readback", st, s)>>]
    /\ UNCHANGED <<worker, gpu, consumed>>

SubmitUnfenced(s) == SubmitTarget(s, FALSE)
Submit(s) == SubmitTarget(s, TRUE)

GpuFinishes(s) ==
    /\ gpu[s]
    /\ s \in InUse => slot[s].state # "rendering"
    /\ gpu' = [gpu EXCEPT ![s] = FALSE]
    /\ UNCHANGED <<stream, slot, worker, posts, fence, consumed>>

CreateStream(st) ==
    /\ ~stream[st].made /\ ~stopping
    /\ stream' = [stream EXCEPT ![st] = [NewStream EXCEPT
                    !.made = TRUE, !.active = TRUE, !.pending = InitialSlots]]
    /\ posts' = [posts EXCEPT ![st] =
                   [i \in 1 .. InitialSlots |-> Task("allocate", st, None)]]
    /\ UNCHANGED <<slot, worker, gpu, fence, consumed>>

(* ~texture_readback_stream_s: between frames, so no target is out. *)
CloseStream(st) ==
    /\ Ready(st) /\ stream[st].targets = 0
    /\ stream' = [stream EXCEPT ![st].active = FALSE]
    /\ posts' = [posts EXCEPT ![st] = <<Task("destroy_stream", st, None)>>]
    /\ UNCHANGED <<slot, worker, gpu, fence, consumed>>

-----------------------------------------------------------------------------
(* The output thread: an NDI sender or a DeckLink completion.                  *)

(* The frame read next, out of ready; the slots before it are freed. *)
Reads(st, s, skipped, ready) ==
    /\ stream[st].active
    /\ stream' = [stream EXCEPT ![st].ready = ready, ![st].free = @ \o skipped,
                                ![st].frames = @ + 1]
    /\ slot' = [r \in Slots |->
                  IF r = s THEN [slot[r] EXCEPT !.state = "cpu_reading"]
                  ELSE IF r \in Range(skipped) THEN [slot[r] EXCEPT !.state = "free"]
                  ELSE slot[r]]
    /\ consumed' = [consumed EXCEPT ![st] = slot[s].time]
    /\ UNCHANGED <<worker, posts, gpu, fence>>

TryConsumeOldest(st) ==
    LET ready == stream[st].ready IN
    ready # <<>> /\ Reads(st, Head(ready), <<>>, Tail(ready))
TakeNewest(st) ==
    LET ready == stream[st].ready IN
    ready # <<>> /\ Reads(st, Last(ready), <<>>, Front(ready))
ForgetSkipped(st) ==
    LET ready == stream[st].ready IN
    ready # <<>> /\ Reads(st, Last(ready), <<>>, <<>>)
TryConsumeLatest(st) ==
    LET ready == stream[st].ready IN
    ready # <<>> /\ Reads(st, Last(ready), Front(ready), <<>>)

(* return_frame, when the output lets go of the host bytes. *)
ReturnFrame(s) ==
    LET st == StreamOf(s) IN
    /\ s \in InUse
    /\ slot[s].state = "cpu_reading"
    /\ slot' = [slot EXCEPT ![s].state = "free"]
    /\ stream' = [stream EXCEPT ![st].frames = @ - 1,
                    ![st].free = IF stream[st].active THEN Append(@, s) ELSE @]
    /\ UNCHANGED <<worker, posts, gpu, fence, consumed>>

(* stop, from ~app_state_s, after nodes, senders and SDK outputs are gone. *)
Stop ==
    /\ ~stopping
    /\ \A st \in Streams : /\ ~stream[st].active /\ posts[st] = <<>>
                           /\ stream[st].targets = 0 /\ stream[st].frames = 0
    /\ stopping' = TRUE
    /\ UNCHANGED <<stream, slot, tasks, delayed, working, memory, posts, gpu, fence, consumed>>

-----------------------------------------------------------------------------
Init ==
    /\ stream = [st \in Streams |-> NewStream]
    /\ slot = [s \in Slots |-> NewSlot(0)]
    /\ tasks = <<>> /\ delayed = <<>> /\ working = None
    /\ stopping = FALSE /\ memory = 0
    /\ posts = [st \in Streams |-> <<>>]
    /\ gpu = [s \in Slots |-> FALSE] /\ fence = [s \in Slots |-> FALSE]
    /\ consumed = [st \in Streams |-> 0]

Worker == \/ AllocateSlot \/ BeginReadback \/ DestroyStream
          \/ \E success \in BOOLEAN : working # None /\ FinishReadback(success)

Next ==
    \/ Worker
    \/ \E st \in Streams : \/ CreateStream(st) \/ CloseStream(st) \/ Post(st)
                           \/ TryAcquireRenderTarget(st) \/ RetryElapses(st)
                           \/ TryConsumeOldest(st) \/ TryConsumeLatest(st)
    \/ \E s \in Slots : Submit(s) \/ GpuFinishes(s) \/ ReturnFrame(s)
    \/ Stop
    \/ Drained /\ Idle /\ UNCHANGED vars

(* The worker takes its tasks, the render thread enqueues what it submitted    *)
(* and completes each frame it began, the GPU finishes its work and outputs    *)
(* return frames. Nobody has to render, consume, close or stop.                *)
Fairness ==
    /\ WF_vars(Worker)
    /\ \A st \in Streams : WF_vars(Post(st))
    /\ \A s \in Slots : WF_vars(Submit(s)) /\ WF_vars(GpuFinishes(s))
                        /\ WF_vars(ReturnFrame(s))

Spec == Init /\ [][Next]_vars /\ Fairness

-----------------------------------------------------------------------------
(* Types, and no stream owns or waits for more slots than its limit. *)
TypeOK ==
    /\ \A st \in Streams :
         /\ stream[st].slots \subseteq Slots
         /\ Cardinality(stream[st].slots) + stream[st].pending <= MaxSlots
         /\ Range(stream[st].free) \cup Range(stream[st].ready) \subseteq stream[st].slots
         /\ {stream[st].pending, stream[st].targets, stream[st].frames} \subseteq Nat
    /\ \A s \in Slots : slot[s].state \in States
    /\ tasks \in Seq(Tasks) /\ delayed \in Seq(Tasks)
    /\ working \in Tasks \cup {None}
    /\ memory \in Nat
    /\ {fence, gpu} \subseteq [Slots -> BOOLEAN]

(* A slot has one user at a time: the worker copies only what the GPU has      *)
(* finished drawing, into host memory nobody reads, of a slot that still       *)
(* exists; nobody draws over a frame that is to be copied or read.             *)
SlotsHaveOneUser ==
    /\ working # None => /\ ~gpu[working.slot]
                         /\ working.slot \in InUse
                         /\ slot[working.slot].state = "queued"
    /\ \A s \in InUse : gpu[s] => slot[s].state \in {"rendering", "queued"}

(* No slot is lost or in two places, and the memory in use is what the slots   *)
(* of the streams hold, within the budget.                                     *)
SlotsAreAccountedFor ==
    /\ \A st \in Streams : \A s \in stream[st].slots :
         LET state == slot[s].state
             Times(queue) == Cardinality({i \in DOMAIN queue : queue[i] = s})
             OneIf(condition) == IF condition THEN 1 ELSE 0
             Count(queue) == Cardinality({i \in DOMAIN queue : queue[i].slot = s})
         IN  /\ stream[st].active => Times(stream[st].free) = OneIf(state = "free")
             /\ Times(stream[st].free) <= OneIf(state = "free")
             /\ Times(stream[st].ready) = OneIf(state = "ready")
             /\ Count(tasks) + Count(posts[st])
                  + OneIf(working # None /\ working.slot = s) = OneIf(state = "queued")
    /\ \A st \in Streams :
         /\ stream[st].targets =
              Cardinality({s \in stream[st].slots : slot[s].state = "rendering"})
         /\ stream[st].frames =
              Cardinality({s \in stream[st].slots : slot[s].state = "cpu_reading"})
    /\ memory = MapThenSumSet(LAMBDA s : slot[s].bytes, InUse)
    /\ memory <= Budget

(* docs/gpu-and-media.md: stream destruction reclaims its resources on the     *)
(* worker; here a closed stream is reclaimed even if the service is stopped.   *)
DestructionReclaims ==
    \A st \in Streams : (stream[st].made /\ ~stream[st].active) ~>
                          (stream[st].slots = {} /\ stream[st].pending = 0)
=============================================================================
