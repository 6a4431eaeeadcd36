---------------------------- MODULE SerialExecutor ----------------------------
(* The executor that opens and closes devices outside the render thread: one   *)
(* thread runs what was posted, one task after the other, and its destructor   *)
(* drains what was accepted.                                                   *)
(*                                                                             *)
(* src/src/utils/serial_executor.hpp. A task belongs to the module that posts  *)
(* it; at says how far the one in hand has come.                               *)
EXTENDS Sequences

CONSTANT None

VARIABLES
    tasks,    \* tasks_
    running,  \* the task in hand, or None
    at,       \* its place: "begin" until its first wait
    closing   \* closing_

executor == <<tasks, running, at, closing>>

(* post: refused once the destructor has begun. *)
Posted(more) == IF closing THEN tasks ELSE tasks \o more

(* run takes the oldest task when it has finished the one before. *)
Take ==
    /\ running = None /\ tasks # <<>>
    /\ running' = Head(tasks) /\ tasks' = Tail(tasks)
    /\ at' = "begin"
    /\ UNCHANGED closing

(* The task in hand goes on to a place where it waits, or ends. *)
Reach(place) == at' = place /\ UNCHANGED <<tasks, running, closing>>
Finish == running' = None /\ at' = "begin" /\ UNCHANGED <<tasks, closing>>

(* The destructor sets closing_, and returns when run has. *)
Close == ~closing /\ closing' = TRUE /\ UNCHANGED <<tasks, running, at>>
Drained == closing /\ tasks = <<>> /\ running = None
=============================================================================
