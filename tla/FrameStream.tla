----------------------------- MODULE FrameStream -----------------------------
(* What a transfer stream promises its consumer: it is offered frames in       *)
(* growing order of their target times, may lose any of them, and is shown     *)
(* each at most once and never one older than it has seen. TextureReadback     *)
(* implements it.                                                              *)
EXTENDS Naturals

CONSTANT Times  \* target times, from 1 on

VARIABLES
    newest,   \* the target time of the frame offered last
    offered,  \* the frames that may still be shown
    shown     \* the frame shown last, or 0

frames == <<newest, offered, shown>>

Init == newest = 0 /\ offered = {} /\ shown = 0

Offer ==
    \E t \in Times :
      /\ t > newest
      /\ newest' = t
      /\ offered' = offered \cup {t}
      /\ UNCHANGED shown

Lose ==
    /\ offered' \in SUBSET offered
    /\ UNCHANGED <<newest, shown>>

(* Showing a frame ends the chance of every older one. *)
Show ==
    \E t \in offered :
      /\ t > shown
      /\ shown' = t
      /\ offered' = {u \in offered : u > t}
      /\ UNCHANGED newest

Next == Offer \/ Lose \/ Show

Spec == Init /\ [][Next]_frames
=============================================================================
