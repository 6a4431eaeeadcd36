---------------------------- MODULE TransferWorker ----------------------------
(* What the upload and the readback service share: the queue of their one      *)
(* worker thread and the memory budget of the slots it allocates.              *)
(*                                                                             *)
(* src/src/gpu/transfer/detail/transfer_worker.hpp. Taking a task and          *)
(* processing it is one step here: what other threads enqueue in between joins *)
(* the queue behind everything the step leaves in it.                          *)
EXTENDS Naturals, Sequences

CONSTANTS
    Streams,      \* stream objects the program creates
    Slots,        \* identities for allocated slots
    MaxSlots,     \* config.max_slots of every stream
    InitialSlots, \* config.initial_slots of every stream
    None,
    Estimate,     \* estimate_slot_memory_usage of a stream's layout
    ActualBytes,  \* what a backend may turn out to have allocated for it
    Budget        \* memory_budget_

ASSUME BoundsAssumption ==
    /\ MaxSlots \in Nat \ {0} /\ InitialSlots \in 0 .. MaxSlots
    /\ None \notin Slots \cup Streams

ASSUME BudgetAssumption ==
    Estimate \in Nat \ {0} /\ ActualBytes \subseteq Nat \ {0} /\ Budget \in Nat

VARIABLES
    tasks,     \* tasks_: what threads have enqueued
    delayed,   \* tasks whose process_task returned false, to be retried
    stopping,  \* stopping_
    memory     \* memory_usage_

(* enqueue drops the task once stopping_ is set. *)
Enqueued(queue, new) == IF stopping THEN queue ELSE queue \o new

(* run serves tasks_ first and retries a delayed task when it is empty. *)
NextTask == Head(tasks \o delayed)
IsNext(type) == tasks \o delayed # <<>> /\ NextTask.type = type

(* The worker takes the next task; processing it enqueues more, and what       *)
(* returned false is kept for a retry.                                         *)
Take(more, kept) ==
    IF tasks # <<>>
      THEN tasks' = Enqueued(Tail(tasks), more) /\ delayed' = delayed \o kept
      ELSE tasks' = Enqueued(<<>>, more) /\ delayed' = Tail(delayed) \o kept

(* reserve_memory of the estimate, then resize_memory_reservation. *)
Fits(bytes) == memory + Estimate <= Budget /\ memory + bytes <= Budget

(* run returns once it was stopped and nothing is left. *)
Drained == stopping /\ tasks \o delayed = <<>>
=============================================================================
