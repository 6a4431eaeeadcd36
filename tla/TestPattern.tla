----------------------------- MODULE TestPattern ------------------------------
(* The test pattern node (src/src/nodes/generators/test_pattern.cpp): a worker *)
(* renders the pattern the options ask for, while the frames go on showing the *)
(* one before. One generation is under way at a time. A pool that refuses work *)
(* has been stopped and is left out.                                           *)
EXTENDS UploadStream

CONSTANTS
    Requests,  \* request_s
    NoRequest, \* also: no generation
    MaxChanges \* bound: changes of the options

VARIABLES
    option,     \* the request the node's options make
    changes,
    desired,    \* desired_request_
    published,  \* published_request_ and what the texture of published_frame_ shows
    failed,     \* failed_request_
    generation  \* generation_: [request, worker, submitted, stream], worker a future

vars == <<option, changes, desired, published, failed, generation>>

Nothing == [request |-> NoRequest, shown |-> NoRequest]

NoGeneration ==
    [request |-> NoRequest, worker |-> "none", submitted |-> FALSE, stream |-> NewStream(NoUpload)]

\* What Execute works on.
Node == [desired |-> desired, published |-> published, failed |-> failed, generation |-> generation]

-----------------------------------------------------------------------------
\* New options forget a failure, and a generation that was not submitted.
Observe(node) ==
    IF node.desired = option THEN node
    ELSE [node EXCEPT !.desired = option, !.failed = NoRequest,
                      !.generation = IF @.submitted THEN @ ELSE NoGeneration]

\* Fault: a pattern is shown whatever the options have become.
PublishAny(node, shown) ==
    [node EXCEPT !.published = [request |-> node.generation.request, shown |-> shown],
                 !.generation = NoGeneration]

Publish(node, shown) ==
    [node EXCEPT !.published = IF node.generation.request = node.desired
                               THEN [request |-> node.generation.request, shown |-> shown] ELSE @,
                 !.generation = NoGeneration]

GiveUp(node) == [node EXCEPT !.failed = node.generation.request, !.generation = NoGeneration]

\* Fault: the failure is not remembered, and the generation is kept.
FinishIgnoringFailures(node) ==
    LET g == node.generation
        stream == Select(g.stream)
    IN  IF ~g.submitted \/ g.worker \in {"queued", "threw"} THEN node
        ELSE IF stream.retained = NoUpload THEN [node EXCEPT !.generation.worker = "none"]
        ELSE Publish(node, stream.retained.content)

FinishGeneration(node) ==
    LET g == node.generation
        stream == Select(g.stream)
    IN  IF ~g.submitted \/ g.worker = "queued" THEN node
        ELSE IF g.worker = "threw" THEN GiveUp(node)
        ELSE IF stream.retained = NoUpload THEN [node EXCEPT !.generation.worker = "none"]
        ELSE Publish(node, stream.retained.content)

BeginGeneration(node) ==
    IF node.generation # NoGeneration \/ node.desired \in {node.published.request, node.failed} THEN node
    ELSE [node EXCEPT !.generation = [NoGeneration EXCEPT !.request = node.desired,
                                                          !.stream = NewStream(node.desired)]]

SubmitGeneration(node) ==
    LET g == node.generation
    IN  IF g = NoGeneration \/ g.submitted THEN node
        ELSE IF HasFreeSlot(g.stream)
        THEN [node EXCEPT !.generation = [g EXCEPT !.stream = Acquire(@, 1), !.worker = "queued",
                                                   !.submitted = TRUE]]
        ELSE IF g.stream.allocation = "failed" THEN GiveUp(node)
        ELSE [node EXCEPT !.generation.stream = Acquire(@, 1)]

Execute ==
    LET node == SubmitGeneration(BeginGeneration(FinishGeneration(Observe(Node))))
    IN  /\ desired' = node.desired /\ published' = node.published
        /\ failed' = node.failed /\ generation' = node.generation
        /\ UNCHANGED <<option, changes>>

-----------------------------------------------------------------------------
\* generate_pattern, and its lease given back when it throws.
GeneratePattern ==
    /\ generation.worker = "queued"
    /\ \/ generation' = [generation EXCEPT !.worker = "done", !.stream = Submit(@, generation.request)]
       \/ generation' = [generation EXCEPT !.worker = "threw", !.stream = Drop(@)]
    /\ UNCHANGED <<option, changes, desired, published, failed>>

UploadPattern ==
    /\ \E stream \in Transferred(generation.stream) \cup Allocated(generation.stream)
                     \cup AllocationFailed(generation.stream) :
           generation' = [generation EXCEPT !.stream = stream]
    /\ UNCHANGED <<option, changes, desired, published, failed>>

Change ==
    /\ changes < MaxChanges
    /\ option' \in Requests \ {option}
    /\ changes' = changes + 1
    /\ UNCHANGED <<desired, published, failed, generation>>

Init ==
    /\ option \in Requests /\ changes = 0
    /\ desired = NoRequest /\ published = Nothing /\ failed = NoRequest
    /\ generation = NoGeneration

Next == Execute \/ GeneratePattern \/ UploadPattern \/ Change

Spec ==
    Init /\ [][Next]_vars /\ WF_vars(Execute) /\ WF_vars(GeneratePattern \/ UploadPattern)

-----------------------------------------------------------------------------
(* The texture shows the pattern it was published as.                          *)
PublishedIsShown == published.shown = published.request

\* The transfer of the generated pattern failed. finish_generation waits for it for ever.
Stuck == generation.submitted /\ generation.stream.lost

\* The pattern the options ask for is published or has failed by itself; a failed
\* transfer of any earlier pattern prevents both.
PatternSettled == option \in {published.request, failed} \/ Stuck
=============================================================================
