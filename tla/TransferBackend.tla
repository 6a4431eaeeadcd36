-------------------------- MODULE TransferBackend --------------------------
(* The transfer backends under the upload and readback services: which one a   *)
(* slot gets, the resources it holds after any of its calls has failed, and    *)
(* how its copies share the host memory with the CPU and the texture with GL.  *)
(*                                                                             *)
(* src/src/gpu/transfer/detail: the factory, dvp.cpp, cuda.cpp, persistent.cpp *)
(* and texture_transfer_backend.cpp. A slot is one texture with its backend;   *)
(* the services' queues are TextureUpload and TextureReadback. Every call of a *)
(* driver that reports failure may fail here.                                  *)
EXTENDS Naturals, Sequences, FiniteSets

CONSTANT Backends  \* the slots

VARIABLES
    direction, \* upload or readback, by slot
    contexts,  \* texture_transfer_capabilities, and whether they were attempted
    services,  \* the transfer services run
    phase,     \* what is being done with the slot
    kind,      \* the backend tried or selected
    held,      \* the driver resources it holds
    owner,     \* who was given the texture last: gl, or dvp between the calls
    copying,   \* a copy between host memory and the GPU is not finished
    pending,   \* pending_, transfer_fence_: a submitted copy can be waited for
    ordered,   \* GL commands after the wait run after the copy
    drawn      \* the texture's upload has been rendered

vars == <<contexts, services, direction, phase, kind, held, owner, copying, pending, ordered, drawn>>
progress == <<owner, copying, pending, ordered, drawn>>
system == <<contexts, services, direction>>
Uploads == {s \in Backends : direction[s] = "upload"}
Readbacks == {s \in Backends : direction[s] = "readback"}

Kinds == <<"dvp", "cuda_image", "cuda_buffer", "persistent">>

(* What constructor and register_texture acquire, in this order. The buffer of *)
(* the CUDA pixel-buffer path comes with its first transfer.                   *)
Acquired ==
    [dvp         |-> <<"host", "lock", "sysmem", "binding", "ext_sync", "gpu_sync",
                       "texture", "handover">>,
     cuda_image  |-> <<"host", "stream", "event", "texture">>,
     cuda_buffer |-> <<"host", "stream", "event">>,
     persistent  |-> <<"buffer", "mapping">>]

Lazy == {"buffer", "resource"}

(* The backends' allocation, in host buffers, as the factory reports it.       *)
AllocationIgnoringInterop(k) == 1  \* Fault: the interop buffer is not counted
BackendAllocation(k) == IF k = "cuda_buffer" THEN 2 ELSE 1

-----------------------------------------------------------------------------
(* initialize_texture_transfer_backends: each context is attempted once, DVP   *)
(* only on an NVIDIA renderer with GLX.                                        *)
Initialize ==
    /\ ~contexts.initialized
    /\ \E dvp, cuda \in BOOLEAN :
         contexts' = [initialized |-> TRUE, dvp |-> dvp, cuda |-> cuda]
    /\ services' = TRUE
    /\ UNCHANGED <<direction, phase, kind, held, progress>>

(* The services stop with their last slot; then the contexts are shut down.    *)
StopServices ==
    /\ services /\ \A s \in Backends : phase[s] = "none"
    /\ services' = FALSE
    /\ UNCHANGED <<contexts, direction, phase, kind, held, progress>>

ShutdownContexts(when) ==
    /\ contexts.initialized /\ when
    /\ contexts' = [initialized |-> FALSE, dvp |-> FALSE, cuda |-> FALSE]
    /\ UNCHANGED <<services, direction, phase, kind, held, progress>>

(* Fault: the contexts are shut down while services still run.                 *)
ShutdownFirst == ShutdownContexts(TRUE)
Shutdown == ShutdownContexts(~services)

-----------------------------------------------------------------------------
(* create_texture_transfer_backend: one candidate after the other.             *)

Supported(s, k) ==
    CASE k = "dvp" -> contexts.dvp
      [] k \in {"cuda_image", "cuda_buffer"} -> contexts.cuda
      [] OTHER -> TRUE

(* dvp_transfer_s::supports and supports_direct_image depend on the layout: a  *)
(* candidate that is available may be passed over; the last one never is.      *)
Try(s, later) ==
    \E i \in DOMAIN Kinds :
      /\ i > later /\ Supported(s, Kinds[i])
      /\ \A j \in (later + 1) .. (i - 1) :
           Kinds[j] \in {"dvp", "cuda_image"} \/ ~Supported(s, Kinds[j])
      /\ kind' = [kind EXCEPT ![s] = Kinds[i]]

Index(k) == CHOOSE i \in DOMAIN Kinds : Kinds[i] = k

BeginAllocation(s) ==
    /\ services /\ phase[s] = "none"
    /\ phase' = [phase EXCEPT ![s] = "creating"]
    /\ Try(s, 0)
    /\ held' = [held EXCEPT ![s] = {}]
    /\ \E d \in {"upload", "readback"} : direction' = [direction EXCEPT ![s] = d]
    /\ UNCHANGED <<contexts, services, progress>>

NextResource(s) ==
    Acquired[kind[s]][CHOOSE i \in DOMAIN Acquired[kind[s]] :
        /\ Acquired[kind[s]][i] \notin held[s]
        /\ \A j \in 1 .. (i - 1) : Acquired[kind[s]][j] \in held[s]]

(* A resource is acquired. The last one selects the candidate: the DVP texture *)
(* is registered as released by GL.                                            *)
Acquire(s) ==
    /\ phase[s] = "creating"
    /\ LET now == held[s] \cup {NextResource(s)} IN
       IF Cardinality(now) = Len(Acquired[kind[s]])
       THEN /\ phase' = [phase EXCEPT ![s] = "free"]
            /\ held' = [held EXCEPT ![s] = now \ {"handover"}]
            /\ owner' = [owner EXCEPT ![s] = IF kind[s] = "dvp" THEN "dvp" ELSE "gl"]
            /\ copying' = [copying EXCEPT ![s] = FALSE]
            /\ pending' = [pending EXCEPT ![s] = FALSE]
            /\ ordered' = [ordered EXCEPT ![s] = FALSE]
            /\ drawn' = [drawn EXCEPT ![s] = FALSE]
       ELSE /\ held' = [held EXCEPT ![s] = now]
            /\ UNCHANGED <<phase, progress>>
    /\ UNCHANGED <<system, kind>>

(* The destructors, by what each deletes.                                      *)
Destroyed(k, h) ==
    CASE k = "dvp" ->
           h \ ({"texture", "ext_sync", "gpu_sync"}
                \cup (IF "sysmem" \in h THEN {"binding", "sysmem"} ELSE {})
                \cup (IF "host" \in h THEN {"lock", "host"} ELSE {}))
      [] k \in {"cuda_image", "cuda_buffer"} ->
           h \ {"event", "resource", "texture", "buffer", "stream", "host"}
      [] OTHER -> h \ {"mapping", "buffer"}

(* The constructors' own clean-up; the semaphores have destructors.            *)
RolledBack(k, h, failed) ==
    CASE k = "dvp" /\ failed = "host" -> h
      [] k = "dvp" /\ failed = "lock" -> h \ {"host"}
      [] k = "dvp" /\ failed \in {"sysmem", "binding", "ext_sync", "gpu_sync"} ->
           LET bound == IF "binding" \in h THEN {"binding"} ELSE {}
               sysmem == IF "sysmem" \in h THEN bound \cup {"sysmem"} ELSE {}
           IN  h \ (sysmem \cup {"lock", "host", "ext_sync", "gpu_sync"})
      [] k \in {"cuda_image", "cuda_buffer"} /\ failed = "stream" -> h \ {"host"}
      [] k \in {"cuda_image", "cuda_buffer"} /\ failed = "event" -> h \ {"stream", "host"}
      [] k = "persistent" /\ failed = "mapping" -> h \ {"buffer"}
      [] OTHER -> Destroyed(k, h)

(* Fault: the DVP constructor forgets that it had bound its buffer.            *)
UnwoundBound(k, h, failed) ==
    IF k = "dvp" /\ failed \in {"ext_sync", "gpu_sync"}
      THEN h \ {"sysmem", "lock", "host", "ext_sync", "gpu_sync"}
      ELSE RolledBack(k, h, failed)
Unwound(k, h, failed) == RolledBack(k, h, failed)

(* The next resource cannot be had, or its host memory is not aligned: the     *)
(* candidate goes and the next is tried; the persistent one was the last.      *)
AcquireFails(s) ==
    /\ phase[s] = "creating"
    /\ NextResource(s) # "buffer"
    /\ held' = [held EXCEPT ![s] = Unwound(kind[s], @, NextResource(s))]
    /\ IF kind[s] = "persistent"
         THEN phase' = [phase EXCEPT ![s] = "none"] /\ UNCHANGED kind
         ELSE Try(s, Index(kind[s])) /\ UNCHANGED phase
    /\ UNCHANGED <<system, progress>>

-----------------------------------------------------------------------------
(* The transfers. *)

Moves(s, from, to) ==
    /\ phase[s] = from
    /\ phase' = [phase EXCEPT ![s] = to]

(* The producer writes an upload's host memory.                                *)
Write(s) ==
    /\ s \in Uploads /\ Moves(s, "free", "writing")
    /\ UNCHANGED <<system, kind, held, progress>>

(* acquire_texture_for_gl, and the drawing of a frame to be read back; a       *)
(* target that cannot be acquired stays free.                                  *)
Draw(s) ==
    /\ s \in Readbacks /\ Moves(s, "free", "writing")
    /\ owner' = [owner EXCEPT ![s] = "gl"]
    /\ UNCHANGED <<system, kind, held, copying, pending, ordered, drawn>>

(* A target that is dropped without being submitted.                           *)
Return(s) ==
    /\ Moves(s, "writing", "free")
    /\ UNCHANGED <<system, kind, held, progress>>

(* ensure_buffer of the pixel-buffer path: made once, or not at all.           *)
WithBuffer(s) == IF kind[s] = "cuda_buffer" THEN held[s] \cup Lazy ELSE held[s]

(* release_texture_from_gl and submit_transfer succeed: the texture is the     *)
(* DVP's until GL is given it back, the copy runs and can be waited for.       *)
Submit(s) ==
    /\ Moves(s, "writing", "submitted")
    /\ owner' = [owner EXCEPT ![s] = IF kind[s] = "dvp" THEN "dvp" ELSE @]
    /\ held' = [held EXCEPT ![s] = WithBuffer(s)]
    /\ copying' = [copying EXCEPT ![s] = TRUE]
    /\ pending' = [pending EXCEPT ![s] = TRUE]
    /\ ordered' = [ordered EXCEPT ![s] = FALSE]
    /\ drawn' = [drawn EXCEPT ![s] = FALSE]
    /\ UNCHANGED <<system, kind>>

(* A copy is several calls, and each is checked after the next may have been   *)
(* made: one that reports failure may have been queued.                        *)
CopiesAfterFailure(s) == {copying, [copying EXCEPT ![s] = TRUE]}

(* A call of them fails: before the copy was queued, or after it, when nobody  *)
(* will wait for it. The slot is free for the next frame.                      *)
SubmitFails(s) ==
    /\ kind[s] # "persistent"
    /\ Moves(s, "writing", "free")
    /\ held' \in {held, [held EXCEPT ![s] = WithBuffer(s)]}
    /\ copying' \in CopiesAfterFailure(s)
    /\ \E o \in IF kind[s] = "dvp" THEN {"gl", "dvp"} ELSE {"gl"} :
         owner' = [owner EXCEPT ![s] = o]
    /\ pending' = [pending EXCEPT ![s] = FALSE]
    /\ drawn' = [drawn EXCEPT ![s] = FALSE]
    /\ UNCHANGED <<system, kind, ordered>>

CopyEnds(s) ==
    /\ copying[s]
    /\ copying' = [copying EXCEPT ![s] = FALSE]
    /\ UNCHANGED <<system, phase, kind, held, owner, pending, ordered, drawn>>

(* wait_for_transfer_completion: a readback and a CUDA upload wait here; the   *)
(* others only make GL wait, which takes the texture from the DVP.             *)
WaitsOnCpu(s) == s \in Readbacks \/ kind[s] \in {"cuda_image", "cuda_buffer"}

Wait(s, blocks, orders) ==
    /\ pending[s]
    /\ Moves(s, "submitted", "done")
    /\ blocks => ~copying[s]
    /\ pending' = [pending EXCEPT ![s] = FALSE]
    /\ ordered' = [ordered EXCEPT ![s] = orders]
    /\ owner' = [owner EXCEPT ![s] = IF s \in Uploads THEN "gl" ELSE @]
    /\ UNCHANGED <<system, kind, held, copying, drawn>>

(* Fault: an upload's wait leaves the GL commands unordered. *)
WaitUnordered(s) == Wait(s, WaitsOnCpu(s), FALSE)
WaitForCompletion(s) == Wait(s, WaitsOnCpu(s), TRUE)

WaitFails(s) ==
    /\ kind[s] # "persistent"
    /\ Moves(s, "submitted", "free")
    /\ pending' \in {pending, [pending EXCEPT ![s] = FALSE]}
    /\ UNCHANGED <<system, kind, held, owner, copying, ordered, drawn>>

(* A completed upload is rendered, and its slot is free once the GPU is past   *)
(* the frame's release fence, which an ordered copy precedes.                  *)
Render(s) ==
    /\ s \in Uploads /\ Moves(s, "done", "rendered")
    /\ drawn' = [drawn EXCEPT ![s] = TRUE]
    /\ UNCHANGED <<system, kind, held, owner, copying, pending, ordered>>

Reclaim(s) ==
    /\ \/ s \in Uploads /\ Moves(s, "rendered", "free") /\ (ordered[s] => ~copying[s])
       \/ Moves(s, "done", "free")
    /\ UNCHANGED <<system, kind, held, progress>>

(* release_slot_resources, release_slot: GL gives the texture up or takes it,  *)
(* the texture is unregistered and the backend destroyed. CUDA's destructor    *)
(* waits for its stream.                                                       *)
Release(s) ==
    /\ phase[s] \in {"free", "done", "rendered"}
    /\ kind[s] \in {"cuda_image", "cuda_buffer"} => ~copying[s]
    /\ phase' = [phase EXCEPT ![s] = "none"]
    /\ held' = [held EXCEPT ![s] = Destroyed(kind[s], @ \ {"texture"})]
    /\ copying' = [copying EXCEPT ![s] = FALSE]
    /\ UNCHANGED <<system, kind, owner, pending, ordered, drawn>>

-----------------------------------------------------------------------------
Init ==
    /\ contexts = [initialized |-> FALSE, dvp |-> FALSE, cuda |-> FALSE]
    /\ services = FALSE
    /\ direction = [s \in Backends |-> "upload"]
    /\ phase = [s \in Backends |-> "none"] /\ kind = [s \in Backends |-> "persistent"]
    /\ held = [s \in Backends |-> {}]
    /\ owner = [s \in Backends |-> "gl"]
    /\ copying = [s \in Backends |-> FALSE] /\ pending = [s \in Backends |-> FALSE]
    /\ ordered = [s \in Backends |-> FALSE] /\ drawn = [s \in Backends |-> FALSE]

Next ==
    \/ Initialize \/ StopServices \/ Shutdown
    \/ \E s \in Backends :
         \/ BeginAllocation(s) \/ Acquire(s) \/ AcquireFails(s) \/ Write(s) \/ Draw(s)
         \/ Return(s) \/ Submit(s) \/ SubmitFails(s) \/ CopyEnds(s) \/ WaitForCompletion(s)
         \/ WaitFails(s) \/ Render(s) \/ Reclaim(s) \/ Release(s)

Spec == Init /\ [][Next]_vars

-----------------------------------------------------------------------------
(* Types, and a slot is worked on only while its service runs. *)
TypeOK ==
    /\ contexts \in [initialized : BOOLEAN, dvp : BOOLEAN, cuda : BOOLEAN]
    /\ services \in BOOLEAN
    /\ direction \in [Backends -> {"upload", "readback"}]
    /\ phase \in [Backends -> {"none", "creating", "free", "writing", "submitted", "done",
                               "rendered"}]
    /\ \A s \in Backends : kind[s] \in {Kinds[i] : i \in DOMAIN Kinds}
    /\ owner \in [Backends -> {"gl", "dvp"}]
    /\ {copying, pending, ordered, drawn} \subseteq [Backends -> BOOLEAN]
    /\ (\E s \in Backends : phase[s] # "none") => services

(* However many calls of however many candidates failed, a slot holds just the *)
(* resources of its one backend, a slot without backend holds none, and the    *)
(* host memory and buffers it has are no more than the budget was told.        *)
ResourcesAreAccountedFor ==
    \A s \in Backends :
      LET complete == {Acquired[kind[s]][i] : i \in DOMAIN Acquired[kind[s]]} \ {"handover"}
      IN  /\ phase[s] = "none" => held[s] = {}
          /\ phase[s] = "creating" => held[s] \subseteq complete
          /\ phase[s] \notin {"none", "creating"} =>
               /\ complete \subseteq held[s]
               /\ held[s] \ complete \in {{}, Lazy}
          /\ Cardinality(held[s] \cap {"host", "buffer"}) <= BackendAllocation(kind[s])

(* A backend lives within its driver's context: the contexts are closed only   *)
(* after the services, and the contexts a slot relies on were opened.          *)
ContextsOutliveTheirBackends ==
    \A s \in Backends : phase[s] # "none" => Supported(s, kind[s])

(* No copy is disturbed where it shows: the bytes of an upload that was        *)
(* rendered are not overwritten before they were read, the bytes a readback    *)
(* hands out are all there, and GL does not keep a texture the DVP copies.     *)
CopiesAreUndisturbed ==
    \A s \in Backends :
      /\ s \in Uploads /\ phase[s] = "writing" /\ drawn[s] => ~copying[s]
      /\ s \in Readbacks /\ phase[s] = "done" => ~copying[s]
      /\ kind[s] = "dvp" /\ phase[s] = "submitted" => owner[s] = "dvp"
=============================================================================
