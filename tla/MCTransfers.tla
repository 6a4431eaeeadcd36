----------------------------- MODULE MCTransfers -----------------------------
(* The upload service, the readback service and the backends under them for    *)
(* TLC. The services have a thread, a queue and a budget each and share        *)
(* nothing, so a behaviour is about one of the three and leaves the others     *)
(* where they began.                                                           *)
EXTENDS TextureUpload

CONSTANTS ReadbackSlots, InitialReadbackSlots, ReadbackBudget, MaxFrames, Backends

VARIABLES part,
          rStream, rSlot, rTasks, rDelayed, rWorking, rStopping, rMemory, rPosts, rGpu,
          rFence, rConsumed,
          contexts, services, direction, phase, kind, held, owner, copying, pending, ordered, drawn

Readback == INSTANCE TextureReadback WITH
    Slots <- ReadbackSlots, MaxSlots <- Cardinality(ReadbackSlots),
    InitialSlots <- InitialReadbackSlots, Budget <- ReadbackBudget,
    stream <- rStream, slot <- rSlot, tasks <- rTasks, delayed <- rDelayed,
    working <- rWorking, stopping <- rStopping, memory <- rMemory, posts <- rPosts,
    gpu <- rGpu, fence <- rFence, consumed <- rConsumed

Backend == INSTANCE TransferBackend

ASSUME TransfersAssumption ==
    /\ InitialReadbackSlots \in Nat /\ MaxFrames \in Nat
    /\ None \notin ReadbackSlots \cup Tasks \cup Readback!Tasks
    /\ Streams # {}

rVars == <<rStream, rSlot, rTasks, rDelayed, rWorking, rStopping, rMemory, rPosts, rGpu,
           rFence, rConsumed>>
bVars == <<contexts, services, direction, phase, kind, held, owner, copying, pending, ordered, drawn>>

AllVars == <<part, vars, rVars, bVars>>

AllInit ==
    /\ part \in {"upload", "readback", "backend"}
    /\ Init /\ Readback!Init /\ Backend!Init

AllNext ==
    /\ UNCHANGED part
    /\ \/ part = "upload" /\ Next /\ UNCHANGED <<rVars, bVars>>
       \/ part = "readback" /\ Readback!Next /\ UNCHANGED <<vars, bVars>>
       \/ part = "backend" /\ Backend!Next /\ UNCHANGED <<vars, rVars>>

AllSpec == AllInit /\ [][AllNext]_AllVars /\ Fairness /\ Readback!Fairness

(* Every slot and every byte is somewhere, whatever failed: no stream owns or  *)
(* waits for more than its limit; a slot is free once, leased or drawn, queued *)
(* with one task to come, ready once, current, read or being reclaimed with    *)
(* one task to come; a live lease pins its slot; memory_usage_ is what the     *)
(* slots hold and within the budget; and a slot holds the resources of its one *)
(* backend, whose context was opened and outlives it.                          *)
SlotsAndBytesAreAccountedFor ==
    /\ TypeOK /\ LeasesPinTheirSlots /\ SlotsAreAccountedFor /\ MemoryIsAccountedFor
    /\ Readback!TypeOK /\ Readback!SlotsAreAccountedFor
    /\ Backend!TypeOK /\ Backend!ResourcesAreAccountedFor
    /\ Backend!ContextsOutliveTheirBackends

(* One user at a time for a texture and its host bytes: what the render thread *)
(* or the GPU still uses is not transferred into, handed out or destroyed, the *)
(* worker copies only what the GPU has drawn, and no copy that shows is        *)
(* disturbed, with any backend.                                                *)
TransfersAreUndisturbed ==
    SamplingIsUndisturbed /\ Readback!SlotsHaveOneUser /\ Backend!CopiesAreUndisturbed

(* A submitted upload is resolved, a stream closed while the service runs is   *)
(* reclaimed, and a closed readback stream even when the service is stopped.   *)
TransfersEnd ==
    UploadsResolve /\ ClosedStreamsAreReclaimed /\ Readback!DestructionReclaims

(* The readback service implements FrameStream: the frames on offer are those  *)
(* queued or ready, and the target being drawn is not on offer yet. Outputs    *)
(* get frames in order and once, whichever way they consume.                   *)
Frames == INSTANCE FrameStream WITH
    Times <- 1 .. MaxFrames,
    newest <- LET st == CHOOSE st \in Streams : TRUE
              IN  rStream[st].time - rStream[st].targets,
    offered <- LET st == CHOOSE st \in Streams : TRUE
               IN  {rSlot[s].time : s \in {s \in rStream[st].slots :
                                             rSlot[s].state \in {"queued", "ready"}}},
    shown <- rConsumed[CHOOSE st \in Streams : TRUE]

ReadbackDeliversFrames == Frames!Spec

=============================================================================
