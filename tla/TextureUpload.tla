---------------------------- MODULE TextureUpload ----------------------------
(* The texture upload service: streams of upload slots, the leases producers   *)
(* write through, and the one worker thread that allocates slots, transfers    *)
(* their bytes to the GPU, takes them back and destroys streams.               *)
(*                                                                             *)
(* src/src/gpu/transfer/texture_upload.cpp, with the fences of                 *)
(* src/src/gpu/texture_frame.cpp.                                              *)
(* A section under stream->mutex is one step; the enqueue that follows the     *)
(* unlock is a step of its own (posts holds what a thread has yet to enqueue). *)
(* The upload itself runs between two locked sections (working).               *)
EXTENDS TransferWorker, SequencesExt, FiniteSets, FiniteSetsExt

CONSTANT MaxUploads  \* bound: leases handed out per stream

ASSUME UploadsAssumption == MaxUploads \in Nat

VARIABLES
    stream,     \* texture_upload_stream_state_s, by stream
    slot,       \* texture_upload_slot_s, by slot identity
    working,    \* the upload task whose transfer is in flight, or None
    posts,      \* tasks the owner or producer of a stream is about to enqueue
    lease,      \* the lease object on a slot: none, writing or submitted
    rendering,  \* the slot whose frame the stream's node renders this frame
    fence,      \* render_release_fence_ of a slot's frame is set
    gpu         \* the GPU has reads of the slot's texture to finish

vars == <<stream, slot, tasks, delayed, working, stopping, memory, posts,
          lease, rendering, fence, gpu>>
worker == <<tasks, delayed, working, stopping, memory>>
render == <<rendering, fence, gpu>>

Threads == {"owner", "producer"}
States == {"free", "cpu_writing", "queued", "ready", "current", "reclaim"}

Task(type, st, s) == [type |-> type, stream |-> st, slot |-> s]
Tasks == [type : {"upload", "reclaim"}, stream : Streams, slot : Slots]
         \cup [type : {"allocate", "destroy_stream"}, stream : Streams, slot : {None}]

NewStream ==
    [made |-> FALSE, active |-> FALSE, slots |-> {}, free |-> <<>>, ready |-> <<>>,
     current |-> None, pending |-> 0, leases |-> 0, nextId |-> 0, retained |-> 0,
     failed |-> FALSE, waiting |-> FALSE]

NewSlot(bytes) ==
    [state |-> "free", released |-> TRUE, discard |-> FALSE, id |-> 0,
     bytes |-> bytes, gl |-> FALSE]

InUse == UNION {stream[st].slots : st \in Streams}
StreamOf(s) == CHOOSE st \in Streams : s \in stream[st].slots
OwnerIdle(st) == posts[st].owner = <<>>
ProducerIdle(st) == posts[st].producer = <<>>

-----------------------------------------------------------------------------
(* The worker. *)

Idle == working = None

(* allocate_slot: the estimate is reserved, the backend created and the        *)
(* reservation corrected. Creation may fail on any attempt.                    *)
Allocation(reserved) ==
    LET st == NextTask.stream IN
    /\ Idle /\ IsNext("allocate")
    /\ Take(<<>>, <<>>)
    /\ \/ /\ stream' = [stream EXCEPT ![st].pending = @ - 1, ![st].failed = TRUE,
                                      ![st].waiting = TRUE]
          /\ memory' = memory + reserved
          /\ UNCHANGED slot
       \/ \E bytes \in ActualBytes :
          /\ Fits(bytes)
          /\ IF ~stream[st].active
               THEN /\ stream' = [stream EXCEPT ![st].pending = @ - 1]
                    /\ UNCHANGED <<slot, memory>>
               ELSE LET s == CHOOSE s \in Slots : s \notin InUse IN
                    /\ InUse # Slots
                    /\ stream' = [stream EXCEPT ![st].pending = @ - 1,
                                    ![st].failed = FALSE, ![st].waiting = FALSE,
                                    ![st].slots = @ \cup {s}, ![st].free = Append(@, s)]
                    /\ slot' = [slot EXCEPT ![s] = NewSlot(bytes)]
                    /\ memory' = memory + bytes
    /\ UNCHANGED <<working, stopping, posts, lease, render>>

LeakReservation == \E kept \in {0, Estimate} : Allocation(kept)
AllocateSlot == Allocation(0)

(* upload_slot up to the end of its first locked section: a stream that is no  *)
(* longer active gets its slot back untouched; otherwise the transfer starts.  *)
BeginUpload ==
    LET t == NextTask IN
    /\ Idle /\ IsNext("upload")
    /\ IF stream[t.stream].active
         THEN /\ Take(<<>>, <<>>)
              /\ working' = t
              /\ slot' = [slot EXCEPT ![t.slot].gl = FALSE]
         ELSE /\ Take(<<Task("reclaim", t.stream, t.slot)>>, <<>>)
              /\ slot' = [slot EXCEPT ![t.slot].state = "reclaim"]
              /\ UNCHANGED working
    /\ UNCHANGED <<stream, stopping, memory, posts, lease, render>>

(* The rest of upload_slot, once the transfer completed or failed. *)
FinishUpload(success) ==
    LET st == working.stream
        s  == working.slot
    IN
    /\ working # None
    /\ working' = None
    /\ IF success /\ stream[st].active /\ ~slot[s].discard
         THEN /\ slot' = [slot EXCEPT ![s].state = "ready", ![s].gl = TRUE]
              /\ stream' = [stream EXCEPT ![st].ready = Append(@, s)]
              /\ UNCHANGED tasks
         ELSE /\ slot' = [slot EXCEPT ![s].state = "reclaim", ![s].gl = success]
              /\ tasks' = Enqueued(tasks, <<Task("reclaim", st, s)>>)
              /\ UNCHANGED stream
    /\ UNCHANGED <<delayed, stopping, memory, posts, lease, render>>

(* reclaim_slot: retried while the lease is out; then it waits for the frame's *)
(* render-release fence, if one was published, and frees the slot.             *)
Reclaiming(pinned, fenced) ==
    LET st == NextTask.stream
        s  == NextTask.slot
    IN
    /\ Idle /\ IsNext("reclaim")
    /\ \/ /\ pinned
          /\ Take(<<>>, <<NextTask>>)
          /\ UNCHANGED <<stream, slot, fence>>
       \/ /\ ~pinned
          /\ Take(<<>>, <<>>)
          /\ fenced => ~gpu[s]
          /\ fence' = [fence EXCEPT ![s] = FALSE]
          /\ slot' = [slot EXCEPT ![s].state = "free"]
          /\ stream' = IF stream[st].active
                         THEN [stream EXCEPT ![st].free = Append(@, s)]
                         ELSE stream
    /\ UNCHANGED <<working, stopping, memory, posts, lease, rendering, gpu>>

Leased == ~slot[NextTask.slot].released
ReclaimUnfenced == Reclaiming(Leased, FALSE)
ReclaimLeased == Reclaiming(FALSE, fence[NextTask.slot])
ReclaimSlot == Reclaiming(Leased, fence[NextTask.slot])

(* destroy_stream: retried until no slot is in flight, then every slot goes. *)
DestroyStream ==
    LET st == NextTask.stream
        busy == \/ stream[st].pending # 0
                \/ stream[st].leases # 0
                \/ \E s \in stream[st].slots :
                     slot[s].state \in {"cpu_writing", "queued", "reclaim"}
    IN
    /\ Idle /\ IsNext("destroy_stream")
    /\ \/ /\ busy
          /\ Take(<<>>, <<NextTask>>)
          /\ UNCHANGED <<stream, memory>>
       \/ /\ ~busy
          /\ Take(<<>>, <<>>)
          /\ stream' = [stream EXCEPT ![st].slots = {}, ![st].free = <<>>,
                                      ![st].ready = <<>>, ![st].current = None]
          /\ memory' = memory - MapThenSumSet(LAMBDA s : slot[s].bytes, stream[st].slots)
    /\ UNCHANGED <<slot, working, stopping, posts, lease, render>>

-----------------------------------------------------------------------------
(* Producers: they acquire a free slot, write its host bytes, submit the lease *)
(* and drop it, in either order with the rest of the stream's life.            *)

Post(st, thread) ==
    /\ posts[st][thread] # <<>>
    /\ tasks' = Enqueued(tasks, <<Head(posts[st][thread])>>)
    /\ posts' = [posts EXCEPT ![st][thread] = Tail(@)]
    /\ UNCHANGED <<stream, slot, delayed, working, stopping, memory, lease, render>>

(* One slot is allocated at a time, up to the limit. *)
HasRoomBesidesPending(st) == Cardinality(stream[st].slots) < MaxSlots
HasRoom(st) ==
    /\ Cardinality(stream[st].slots) + stream[st].pending < MaxSlots
    /\ stream[st].pending = 0

(* try_acquire_upload_buffer: a free slot, or else one more allocation. *)
TryAcquireUploadBuffer(st) ==
    /\ stream[st].active /\ ProducerIdle(st)
    /\ \/ /\ stream[st].free # <<>>
          /\ stream[st].nextId < MaxUploads
          /\ LET s == Head(stream[st].free) IN
             /\ stream' = [stream EXCEPT ![st].free = Tail(@), ![st].nextId = @ + 1,
                                         ![st].leases = @ + 1]
             /\ slot' = [slot EXCEPT ![s].state = "cpu_writing", ![s].released = FALSE,
                           ![s].discard = FALSE, ![s].id = stream[st].nextId + 1]
             /\ lease' = [lease EXCEPT ![s] = "writing"]
          /\ UNCHANGED posts
       \/ /\ stream[st].free = <<>>
          /\ HasRoom(st) /\ ~stream[st].waiting
          /\ stream' = [stream EXCEPT ![st].pending = @ + 1]
          /\ posts' = [posts EXCEPT ![st].producer = <<Task("allocate", st, None)>>]
          /\ UNCHANGED <<slot, lease>>
    /\ UNCHANGED <<worker, render>>

(* retry_allocation_after passes, a second after a failed allocation. *)
RetryElapses(st) ==
    /\ stream[st].waiting
    /\ stream' = [stream EXCEPT ![st].waiting = FALSE]
    /\ UNCHANGED <<slot, worker, posts, lease, render>>

(* texture_upload_lease_s::submit; it fails once the stream is not active. *)
SubmitSlot(s, posted) ==
    LET st == StreamOf(s) IN
    /\ lease[s] = "writing"
    /\ ProducerIdle(st)
    /\ stream[st].active /\ slot[s].state = "cpu_writing"
    /\ slot' = [slot EXCEPT ![s].state = "queued"]
    /\ lease' = [lease EXCEPT ![s] = "submitted"]
    /\ posts' = [posts EXCEPT ![st].producer = posted]
    /\ UNCHANGED <<stream, worker, render>>

SubmitSilently(s) == SubmitSlot(s, <<>>)
Submit(s) == SubmitSlot(s, <<Task("upload", StreamOf(s), s)>>)

(* The lease's destructor: return_unsubmitted_lease, release_submitted_lease. *)
DropLease(s, returned) ==
    LET st == StreamOf(s) IN
    /\ lease[s] # "none"
    /\ ProducerIdle(st)
    /\ lease' = [lease EXCEPT ![s] = "none"]
    /\ \/ /\ lease[s] = "submitted" /\ ~slot[s].released
          /\ stream' = [stream EXCEPT ![st].leases = @ - returned]
          /\ slot' = [slot EXCEPT ![s].released = TRUE]
       \/ /\ lease[s] = "writing" /\ slot[s].state = "cpu_writing"
          /\ stream' = [stream EXCEPT ![st].leases = @ - 1,
                          ![st].free = IF stream[st].active THEN Append(@, s) ELSE @]
          /\ slot' = [slot EXCEPT ![s].state = "free", ![s].released = TRUE]
    /\ UNCHANGED <<worker, posts, render>>

DropWithoutCount(s) == DropLease(s, 0)
ReleaseLease(s) == DropLease(s, 1)

-----------------------------------------------------------------------------
(* Owners: the node or capture that selects completed uploads, renders the     *)
(* frame it got and publishes a release fence after its last use.              *)

(* The node renders the frame a selection returned, if any, in this frame. *)
Renders(st, s) ==
    /\ rendering' = [rendering EXCEPT ![st] = s]
    /\ gpu' = IF s = None THEN gpu ELSE [gpu EXCEPT ![s] = TRUE]
    /\ UNCHANGED fence

MaySelect(st) == stream[st].active /\ rendering[st] = None /\ OwnerIdle(st)

(* next becomes the current slot; obsolete slots and the slot that was current *)
(* (retire_current_slot) are retired and posted for reclaim.                   *)
MakeCurrent(st, next, obsolete, ready) ==
    LET retired == obsolete \o (IF stream[st].current = None
                                  THEN <<>> ELSE <<stream[st].current>>)
    IN
    /\ stream' = [stream EXCEPT ![st].ready = ready, ![st].current = next,
                                ![st].retained = slot[next].id]
    /\ slot' = [s \in Slots |->
                  IF s = next THEN [slot[s] EXCEPT !.state = "current"]
                  ELSE IF s \in Range(retired) THEN [slot[s] EXCEPT !.state = "reclaim"]
                  ELSE slot[s]]
    /\ posts' = [posts EXCEPT ![st].owner =
                   [i \in DOMAIN retired |-> Task("reclaim", st, retired[i])]]
    /\ Renders(st, next)

(* select_latest_completed_upload_through: the last slot of the longest prefix *)
(* of ready_slots with ids up to id, or the current slot again.                *)
SelectThrough(st, id) ==
    LET ready == stream[st].ready IN
    /\ MaySelect(st)
    /\ \E n \in 0 .. Len(ready) :
          /\ \A i \in 1 .. n : slot[ready[i]].id <= id
          /\ n < Len(ready) => slot[ready[n + 1]].id > id
          /\ \/ /\ n = 0
                /\ Renders(st, stream[st].current)
                /\ UNCHANGED <<stream, slot, posts>>
             \/ /\ n > 0
                /\ MakeCurrent(st, ready[n], SubSeq(ready, 1, n - 1),
                               SubSeq(ready, n + 1, Len(ready)))
    /\ UNCHANGED <<worker, lease>>

(* select_completed_upload: one exact upload; every other ready one goes. *)
ExactlySelect(st, id, Obsolete(_, _)) ==
    LET ready == stream[st].ready IN
    /\ MaySelect(st)
    /\ \E i \in DOMAIN ready :
         /\ slot[ready[i]].id = id
         /\ MakeCurrent(st, ready[i], Obsolete(ready, i), <<>>)
    /\ UNCHANGED <<worker, lease>>

Others(ready, i) == RemoveAt(ready, i)
Earlier(ready, i) == SubSeq(ready, 1, i - 1)
SelectKeepingLater(st, id) == ExactlySelect(st, id, Earlier)
SelectCompleted(st, id) == ExactlySelect(st, id, Others)

(* retained_frame_for: a timed source repeats its current frame. *)
Repeat(st) ==
    /\ MaySelect(st)
    /\ stream[st].current # None
    /\ Renders(st, stream[st].current)
    /\ UNCHANGED <<stream, slot, posts, worker, lease>>

(* complete(): publish_render_release_fence, and the frame handle is dropped. *)
Complete(st) ==
    /\ rendering[st] # None
    /\ fence' = [fence EXCEPT ![rendering[st]] = TRUE]
    /\ rendering' = [rendering EXCEPT ![st] = None]
    /\ UNCHANGED <<stream, slot, worker, posts, lease, gpu>>

GpuFinishes(s) ==
    /\ gpu[s]
    /\ \A st \in Streams : rendering[st] # s
    /\ gpu' = [gpu EXCEPT ![s] = FALSE]
    /\ UNCHANGED <<stream, slot, worker, posts, lease, rendering, fence>>

(* discard_upload, of an upload still in the queue or already complete. *)
Discard(st, s) ==
    /\ stream[st].active /\ OwnerIdle(st)
    /\ s \in stream[st].slots
    /\ \/ /\ slot[s].state = "queued"
          /\ slot' = [slot EXCEPT ![s].discard = TRUE]
          /\ UNCHANGED <<stream, posts>>
       \/ /\ slot[s].state = "ready"
          /\ slot' = [slot EXCEPT ![s].discard = TRUE, ![s].state = "reclaim"]
          /\ \E i \in DOMAIN stream[st].ready :
                /\ stream[st].ready[i] = s
                /\ stream' = [stream EXCEPT ![st].ready = RemoveAt(@, i)]
          /\ posts' = [posts EXCEPT ![st].owner = <<Task("reclaim", st, s)>>]
    /\ UNCHANGED <<worker, lease, render>>

(* create_stream. *)
CreateStream(st) ==
    /\ ~stream[st].made /\ ~stopping
    /\ stream' = [stream EXCEPT ![st] = [NewStream EXCEPT
                    !.made = TRUE, !.active = TRUE, !.pending = InitialSlots]]
    /\ posts' = [posts EXCEPT ![st].owner =
                   [i \in 1 .. InitialSlots |-> Task("allocate", st, None)]]
    /\ UNCHANGED <<slot, worker, lease, render>>

(* ~texture_upload_stream_s. Its owner holds no frame of it any more: nodes    *)
(* drop theirs in complete() and a capture's frames keep their stream alive.   *)
CloseStream(st) ==
    LET current == stream[st].current IN
    /\ MaySelect(st)
    /\ stream' = [stream EXCEPT ![st].active = FALSE, ![st].current = None]
    /\ slot' = IF current = None THEN slot
               ELSE [slot EXCEPT ![current].state = "reclaim"]
    /\ posts' = [posts EXCEPT ![st].owner =
          (IF current = None THEN <<>> ELSE <<Task("reclaim", st, current)>>)
             \o <<Task("destroy_stream", st, None)>>]
    /\ UNCHANGED <<worker, lease, render>>

(* stop, from ~app_state_s: by then nodes and captures are gone, and with them *)
(* every stream object and every lease.                                        *)
Stop ==
    /\ ~stopping
    /\ \A st \in Streams : /\ ~stream[st].active
                           /\ OwnerIdle(st) /\ ProducerIdle(st)
                           /\ stream[st].leases = 0
    /\ stopping' = TRUE
    /\ UNCHANGED <<stream, slot, tasks, delayed, working, memory, posts, lease, render>>

(* The worker has returned and stop has joined it. *)
Joined == Drained /\ Idle

-----------------------------------------------------------------------------
Init ==
    /\ stream = [st \in Streams |-> NewStream]
    /\ slot = [s \in Slots |-> NewSlot(0)]
    /\ tasks = <<>> /\ delayed = <<>> /\ working = None
    /\ stopping = FALSE /\ memory = 0
    /\ posts = [st \in Streams |-> [thread \in Threads |-> <<>>]]
    /\ lease = [s \in Slots |-> "none"]
    /\ rendering = [st \in Streams |-> None]
    /\ fence = [s \in Slots |-> FALSE] /\ gpu = [s \in Slots |-> FALSE]

Worker ==
    \/ AllocateSlot
    \/ BeginUpload
    \/ \E success \in BOOLEAN : FinishUpload(success)
    \/ ReclaimSlot
    \/ DestroyStream

Owner(st) ==
    \/ CreateStream(st) \/ CloseStream(st) \/ Repeat(st) \/ Complete(st)
    \/ \E id \in 1 .. MaxUploads : SelectThrough(st, id) \/ SelectCompleted(st, id)
    \/ \E s \in Slots : Discard(st, s)

Next ==
    \/ Worker
    \/ \E st \in Streams : \/ Owner(st) \/ TryAcquireUploadBuffer(st) \/ RetryElapses(st)
                           \/ \E thread \in Threads : Post(st, thread)
    \/ \E s \in Slots : Submit(s) \/ ReleaseLease(s) \/ GpuFinishes(s)
    \/ Stop
    \/ Joined /\ UNCHANGED vars

(* The worker never stops taking tasks, a thread that left a locked section    *)
(* enqueues, nodes complete every frame, the GPU finishes what it was given    *)
(* and producers let go of their leases. Nobody has to upload, select,         *)
(* discard, close or stop.                                                     *)
Fairness ==
    /\ WF_vars(Worker)
    /\ \A st \in Streams : /\ WF_vars(Complete(st))
                           /\ \A thread \in Threads : WF_vars(Post(st, thread))
    /\ \A s \in Slots : WF_vars(ReleaseLease(s)) /\ WF_vars(GpuFinishes(s))

Spec == Init /\ [][Next]_vars /\ Fairness

-----------------------------------------------------------------------------
(* Types, and no stream owns or waits for more slots than its limit. *)
TypeOK ==
    /\ \A st \in Streams :
         /\ stream[st].slots \subseteq Slots
         /\ Cardinality(stream[st].slots) + stream[st].pending <= MaxSlots
         /\ Range(stream[st].free) \cup Range(stream[st].ready) \subseteq stream[st].slots
         /\ stream[st].current \in stream[st].slots \cup {None}
         /\ stream[st].pending \in Nat /\ stream[st].leases \in Nat
    /\ \A s \in Slots : slot[s].state \in States
    /\ tasks \in Seq(Tasks) /\ delayed \in Seq(Tasks)
    /\ working \in Tasks \cup {None}
    /\ memory \in Nat
    /\ lease \in [Slots -> {"none", "writing", "submitted"}]
    /\ rendering \in [Streams -> Slots \cup {None}]
    /\ {fence, gpu} \subseteq [Slots -> BOOLEAN]

(* A texture the render thread has in use, or the GPU still reads, is not      *)
(* transferred into, not handed out for writing and not destroyed, and GL has  *)
(* access to it: reclaim_slot waits for the release fence before any of it.    *)
SamplingIsUndisturbed ==
    \A s \in Slots :
      (gpu[s] \/ s \in Range(rendering)) =>
         /\ s \in InUse
         /\ slot[s].state \in {"current", "reclaim"}
         /\ slot[s].gl
         /\ working # None => working.slot # s

(* A live lease pins its slot, submitted or not: it is counted, its slot is    *)
(* not free for another producer, and no other lease is on it.                 *)
LeasesPinTheirSlots ==
    /\ \A s \in Slots : lease[s] # "none" =>
         /\ ~slot[s].released
         /\ \E st \in Streams : s \in stream[st].slots \ Range(stream[st].free)
    /\ \A st \in Streams :
         stream[st].leases =
           Cardinality({s \in stream[st].slots : lease[s] # "none"})

(* Where the tasks on a slot are: the queue, the retries, in the worker's      *)
(* hands or about to be enqueued.                                              *)
TasksOn(type, s) ==
    LET Count(queue) == Cardinality({i \in DOMAIN queue : queue[i].type = type
                                                          /\ queue[i].slot = s})
    IN  Count(tasks) + Count(delayed)
        + Count(IF working = None THEN <<>> ELSE <<working>>)
        + MapThenSumSet(LAMBDA st : Count(posts[st].owner) + Count(posts[st].producer),
                        Streams)

(* No slot of a stream is lost or in two places: each is free once, leased,    *)
(* queued with one upload to come, ready once, current, or being reclaimed     *)
(* with one task to come; until shutdown drops tasks.                          *)
SlotsAreAccountedFor ==
    ~stopping =>
      \A st \in Streams : \A s \in stream[st].slots :
        LET state == slot[s].state
            Times(queue) == Cardinality({i \in DOMAIN queue : queue[i] = s})
            OneIf(condition) == IF condition THEN 1 ELSE 0
        IN  /\ stream[st].active => Times(stream[st].free) = OneIf(state = "free")
            /\ Times(stream[st].free) <= OneIf(state = "free")
            /\ Times(stream[st].ready) = OneIf(state = "ready")
            /\ (stream[st].current = s) = (state = "current")
            /\ TasksOn("upload", s) = OneIf(state = "queued")
            /\ TasksOn("reclaim", s) = OneIf(state = "reclaim")

(* memory_usage_ is what the allocated slots hold, and within the budget:      *)
(* failed and late allocations give back what they had reserved.               *)
MemoryIsAccountedFor ==
    /\ memory = MapThenSumSet(LAMBDA s : slot[s].bytes, InUse)
    /\ memory <= Budget

(* wait_for_upload returns: a submitted upload completes, fails or is taken    *)
(* back, whatever happens to its stream meanwhile.                             *)
UploadsResolve ==
    \A s \in Slots : (s \in InUse /\ slot[s].state = "queued") ~>
                        (s \notin InUse \/ slot[s].state # "queued")

Reclaimed(st) == stream[st].slots = {} /\ stream[st].pending = 0

(* A stream closed while the service runs is destroyed by the worker. *)
ClosedStreamsAreReclaimed ==
    \A st \in Streams : (stream[st].made /\ ~stream[st].active) ~> (Reclaimed(st) \/ stopping)

(* docs/gpu-and-media.md: stream destruction reclaims its resources on the     *)
(* worker; no exception is made for a service that is being stopped.           *)
DestructionReclaims ==
    \A st \in Streams : (stream[st].made /\ ~stream[st].active) ~> Reclaimed(st)
=============================================================================
