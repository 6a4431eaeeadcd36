----------------------------- MODULE UploadStream -----------------------------
(* What a node on the render thread sees of the upload stream it draws from:   *)
(* slots that are allocated one by one when they are asked for, uploads that   *)
(* complete in the order they were submitted or fail unnoticed, and the one    *)
(* upload that is retained for drawing. TextureUpload is the service behind    *)
(* it; here a slot that is no longer used is free at once.                     *)
EXTENDS Naturals, SequencesExt

CONSTANT NoUpload

\* Uploads in flight, each with what was written, what has been done with it and
\* whether it is the last one acquired; the retained one; allocated slots; whether
\* the last upload acquired has failed.
NewStream(size) ==
    [queue |-> <<>>, retained |-> NoUpload, slots |-> 0, allocation |-> "none", size |-> size,
     lost |-> FALSE]

UsedSlots(stream) == Len(stream.queue) + (IF stream.retained = NoUpload THEN 0 ELSE 1)

HasFreeSlot(stream) == UsedSlots(stream) < stream.slots

\* try_acquire_upload_buffer: a free slot, or the allocation of one more is asked for.
Older(upload) == IF upload = NoUpload THEN upload ELSE [upload EXCEPT !.last = FALSE]

Acquire(stream, max) ==
    IF HasFreeSlot(stream)
    THEN [stream EXCEPT
             !.queue = Append([i \in DOMAIN @ |-> Older(@[i])],
                              [content |-> NoUpload, state |-> "leased", last |-> TRUE]),
             !.retained = Older(@), !.lost = FALSE]
    ELSE IF stream.slots < max /\ stream.allocation # "pending"
    THEN [stream EXCEPT !.allocation = "pending"]
    ELSE stream

\* The last upload is submitted, or dropped without being submitted.
Submit(stream, content) ==
    [stream EXCEPT !.queue[Len(stream.queue)] = [@ EXCEPT !.content = content, !.state = "submitted"]]

Drop(stream) == [stream EXCEPT !.queue = Front(@)]

\* select_latest_completed_upload: the last completed upload is retained, and the
\* completed ones before it are never drawn.
Completed(stream) == {i \in DOMAIN stream.queue : stream.queue[i].state = "completed"}

Select(stream) ==
    IF Completed(stream) = {} THEN stream
    ELSE LET next == Max(Completed(stream))
         IN  [stream EXCEPT !.retained = stream.queue[next],
                            !.queue = SubSeq(@, next + 1, Len(@))]

\* The worker transfers the oldest submitted upload, which can fail.
Waiting(stream) == {i \in DOMAIN stream.queue : stream.queue[i].state = "submitted"}

Transferred(stream) ==
    LET i == Min(Waiting(stream))
    IN  IF Waiting(stream) = {} THEN {}
        ELSE {[stream EXCEPT !.queue[i].state = "completed"],
              [stream EXCEPT !.queue = RemoveAt(@, i), !.lost = stream.queue[i].last]}

\* The worker allocates a slot. One that fails is asked for again later; only a node
\* that looks at allocation_failed sees the failure.
Allocated(stream) ==
    IF stream.allocation # "pending" THEN {}
    ELSE {[stream EXCEPT !.slots = @ + 1, !.allocation = "none"]}

AllocationFailed(stream) ==
    IF stream.allocation # "pending" THEN {} ELSE {[stream EXCEPT !.allocation = "failed"]}
=============================================================================
