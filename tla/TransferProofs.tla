--------------------------- MODULE TransferProofs ---------------------------
(***************************************************************************)
(* Machine-checked proofs about the transfer services, for any streams,    *)
(* slots, budgets, backends and bounds: one user at a time for a slot and  *)
(* its host bytes, and readbacks that deliver frames in order and once.    *)
(*                                                                         *)
(* The argument is that where a slot is, which task is about it and what   *)
(* its state says agree: a slot that is queued has one task to come, in a  *)
(* queue, with the worker or about to be posted; a task that is to come    *)
(* is about a slot in the state for it, of a stream that still owns it;    *)
(* what the GPU still draws is current or waits behind a fence.            *)
(*                                                                         *)
(* For the refinement it is the order of the frames of one stream: first   *)
(* those that are ready, then those that are queued, in the order of their *)
(* tasks, then the one that is drawn, and all newer than the one read last.*)
(***************************************************************************)
EXTENDS MCTransfers, Integers, TLAPS

-----------------------------------------------------------------------------
(* Queues of slots and of tasks *)

\* A queue of slots, each of them in it once, owned and in the given state.
Holds(q, owned, slots, state) ==
    /\ \A i \in DOMAIN q : q[i] \in owned /\ slots[q[i]].state = state
    /\ \A i, j \in DOMAIN q : q[i] = q[j] => i = j

\* The tasks of a queue that are about a slot, each of them in it once.
About(q) == {t \in Range(q) : t.slot # None}
Once(q) == \A i, j \in DOMAIN q : q[i] = q[j] /\ q[i].slot # None => i = j

-----------------------------------------------------------------------------
(* Uploads: the inductive invariant *)

UploadStreams ==
    [made : BOOLEAN, active : BOOLEAN, slots : SUBSET Slots, free : Seq(Slots),
     ready : Seq(Slots), current : Slots \cup {None}, pending : Int, leases : Int,
     nextId : Int, retained : Int, failed : BOOLEAN, waiting : BOOLEAN]

UploadSlots ==
    [state : States, released : BOOLEAN, discard : BOOLEAN, id : Int, bytes : Int, gl : BOOLEAN]

UploadTypes ==
    /\ stream \in [Streams -> UploadStreams] /\ slot \in [Slots -> UploadSlots]
    /\ tasks \in Seq(Tasks) /\ delayed \in Seq(Tasks) /\ working \in Tasks \cup {None}
    /\ posts \in [Streams -> [Threads -> Seq(Tasks)]]
    /\ lease \in [Slots -> {"none", "writing", "submitted"}]
    /\ rendering \in [Streams -> Slots \cup {None}]
    /\ fence \in [Slots -> BOOLEAN] /\ gpu \in [Slots -> BOOLEAN]

\* The slots of a stream are where their states say.
Kept(x, slots) ==
    /\ x.active => x.made
    /\ ~x.made => x.slots = {}
    /\ ~x.active => x.current = None
    /\ Holds(x.free, x.slots, slots, "free") /\ Holds(x.ready, x.slots, slots, "ready")
    /\ x.current # None => x.current \in x.slots
    /\ \A s \in x.slots :
         /\ slots[s].state = "current" <=> s = x.current
         /\ slots[s].state \in {"ready", "current"} => slots[s].gl

\* What has to be done is on a slot in the state for it, or on a stream that was closed.
Due(t) ==
    /\ t.type = "upload" =>
         t.slot \in stream[t.stream].slots /\ slot[t.slot].state = "queued"
    /\ t.type = "reclaim" =>
         t.slot \in stream[t.stream].slots /\ slot[t.slot].state = "reclaim"
    /\ t.type = "destroy_stream" => stream[t.stream].made /\ ~stream[t.stream].active

Hand == IF working = None THEN {} ELSE {working}
Posted == UNION {Range(posts[st][th]) : st \in Streams, th \in Threads}
Pending == Range(tasks) \cup Range(delayed) \cup Hand \cup Posted

DueInv == \A t \in Pending : Due(t)

PlacesInv ==
    /\ \A t \in Range(delayed) : t.type # "upload"
    /\ working # None => working.type = "upload"
    /\ \A st \in Streams, th \in Threads : \A t \in Range(posts[st][th]) :
         /\ t.stream = st
         /\ t.type # IF th = "owner" THEN "upload" ELSE "reclaim"

\* A slot has one task at a time.
Apiece(T, D) == Once(T) /\ Once(D) /\ About(T) \cap About(D) = {}
OnceInv ==
    /\ Apiece(tasks, delayed) /\ Hand \cap (About(tasks) \cup About(delayed)) = {}
    /\ \A st \in Streams, th \in Threads :
         /\ Once(posts[st][th])
         /\ About(posts[st][th]) \cap (About(tasks) \cup About(delayed) \cup Hand) = {}

\* What is drawn from is current, or will be waited for.
DrawInv ==
    /\ \A st \in Streams : rendering[st] # None => rendering[st] = stream[st].current
    /\ \A s \in Slots : gpu[s] =>
         \E st \in Streams :
           /\ s \in stream[st].slots
           /\ slot[s].gl
           /\ slot[s].state \in {"current", "reclaim"}
           /\ fence[s] \/ rendering[st] = s

WriteInv ==
    \A s \in Slots : lease[s] = "writing" =>
      slot[s].state = "cpu_writing" /\ \E st \in Streams : s \in stream[st].slots

Apart(streams) ==
    \A st1, st2 \in Streams : st1 # st2 => streams[st1].slots \cap streams[st2].slots = {}

UploadInv ==
    /\ UploadTypes /\ Apart(stream) /\ \A st \in Streams : Kept(stream[st], slot)
    /\ DueInv /\ PlacesInv /\ OnceInv /\ DrawInv /\ WriteInv

-----------------------------------------------------------------------------
(* Readbacks: the inductive invariant *)

ReadStreams ==
    [made : BOOLEAN, active : BOOLEAN, slots : SUBSET ReadbackSlots,
     free : Seq(ReadbackSlots), ready : Seq(ReadbackSlots), pending : Int, targets : {0, 1},
     frames : Int, failed : BOOLEAN, waiting : BOOLEAN, time : Nat]

ReadSlots == [state : Readback!States, bytes : Int, time : Nat]

ReadTypes ==
    /\ rStream \in [Streams -> ReadStreams] /\ rSlot \in [ReadbackSlots -> ReadSlots]
    /\ rTasks \in Seq(Readback!Tasks) /\ rDelayed \in Seq(Readback!Tasks)
    /\ rWorking \in Readback!Tasks \cup {None}
    /\ rPosts \in [Streams -> Seq(Readback!Tasks)]
    /\ rFence \in [ReadbackSlots -> BOOLEAN] /\ rGpu \in [ReadbackSlots -> BOOLEAN]
    /\ rConsumed \in [Streams -> Nat] /\ rStopping \in BOOLEAN

\* The frames of a stream, drawn, queued and ready, in the order of their times.
Frame(s, x, slots, last) ==
    /\ slots[s].state = "rendering" => x.targets = 1 /\ slots[s].time = x.time
    /\ slots[s].state \in {"queued", "ready"} =>
         last < slots[s].time /\ slots[s].time <= x.time - x.targets
    /\ slots[s].state = "ready" => \E i \in DOMAIN x.ready : x.ready[i] = s
InOrder(r, s, slots) ==
    /\ slots[r].state = "ready" /\ slots[s].state = "queued" => slots[r].time < slots[s].time
    /\ slots[r].state = slots[s].state /\ slots[r].state \in {"queued", "ready"} =>
         slots[r].time # slots[s].time
    /\ ~(slots[r].state = "rendering" /\ slots[s].state = "rendering")
Rising(q, slots) ==
    \A i, j \in DOMAIN q : i < j => slots[q[i]].time < slots[q[j]].time

Delivered(x, slots, last) ==
    /\ x.active => x.made
    /\ ~x.made => x.slots = {} /\ x.time = 0 /\ x.targets = 0
    /\ x.time <= MaxFrames /\ last <= x.time - x.targets
    /\ Holds(x.free, x.slots, slots, "free") /\ Holds(x.ready, x.slots, slots, "ready")
    /\ Rising(x.ready, slots)
    /\ \A s \in x.slots : Frame(s, x, slots, last)
    /\ \A r, s \in x.slots : r # s => InOrder(r, s, slots)

\* What the worker has in hand, what is queued and what is about to be.
InHand(w) == IF w = None THEN {} ELSE {w}
InPosts(p) == UNION {Range(p[st]) : st \in Streams}
Carried == InHand(rWorking) \cup Range(rTasks) \cup InPosts(rPosts)

\* A task to read a frame back is on a queued slot.
Wanted(t, streams, slots) ==
    /\ t.type = "readback" =>
         t.slot \in streams[t.stream].slots /\ slots[t.slot].state = "queued"
    /\ t.type = "destroy_stream" => streams[t.stream].made /\ ~streams[t.stream].active

WantedInv == \A t \in Carried \cup Range(rDelayed) : Wanted(t, rStream, rSlot)

\* The render thread posts the task of a frame on its own.
Single(q) == \A t \in Range(q) : t.type = "readback" => Len(q) = 1
SpotInv ==
    /\ \A t \in Range(rDelayed) : t.type # "readback"
    /\ rWorking # None => rWorking.type = "readback" /\ ~rGpu[rWorking.slot]
    /\ \A st \in Streams : Single(rPosts[st]) /\ \A t \in Range(rPosts[st]) : t.stream = st

\* Frames of a stream are read back in the order they were drawn in.
Before(t, u, slots) ==
    t.type = "readback" /\ u.type = "readback" /\ t.stream = u.stream =>
      slots[t.slot].time < slots[u.slot].time
Line(q, slots) == \A i, j \in DOMAIN q : i < j => Before(q[i], q[j], slots)
InLine(hand, q, posted, slots) ==
    /\ Line(q, slots)
    /\ \A t \in hand : \A u \in Range(q) : Before(t, u, slots)
    /\ \A t \in hand \cup Range(q) : \A u \in posted : Before(t, u, slots)
OrderInv == InLine(InHand(rWorking), rTasks, InPosts(rPosts), rSlot)

\* A queued slot has its task.
QueuedInv ==
    \A st \in Streams : \A s \in rStream[st].slots :
      rSlot[s].state = "queued" => Readback!Task("readback", st, s) \in Carried

GpuInv ==
    \A s \in ReadbackSlots : rGpu[s] =>
      /\ \E st \in Streams : s \in rStream[st].slots
      /\ \/ rSlot[s].state = "rendering"
         \/ rSlot[s].state = "queued" /\ rFence[s]

StopInv ==
    rStopping => \A st \in Streams : ~rStream[st].active /\ rPosts[st] = <<>>

ReadInv ==
    /\ ReadTypes /\ Apart(rStream)
    /\ \A st \in Streams : Delivered(rStream[st], rSlot, rConsumed[st])
    /\ WantedInv /\ SpotInv /\ OrderInv /\ QueuedInv /\ GpuInv /\ StopInv

-----------------------------------------------------------------------------
(* Backends: the inductive invariant *)

BackendTypes ==
    /\ direction \in [Backends -> {"upload", "readback"}]
    /\ phase \in [Backends -> {"none", "creating", "free", "writing", "submitted", "done",
                               "rendered"}]
    /\ DOMAIN kind = Backends
    /\ owner \in [Backends -> {"gl", "dvp"}]
    /\ copying \in [Backends -> BOOLEAN] /\ pending \in [Backends -> BOOLEAN]
    /\ ordered \in [Backends -> BOOLEAN] /\ drawn \in [Backends -> BOOLEAN]

\* A copy that was drawn from is over once the slot is taken back: its fence comes
\* after it. A readback has waited for its copy.
BackendInv ==
    /\ BackendTypes
    /\ \A s \in Backends :
         /\ drawn[s] => phase[s] \notin {"submitted", "done"}
         /\ drawn[s] /\ copying[s] => phase[s] = "rendered"
         /\ phase[s] \in {"done", "rendered"} => ordered[s]
         /\ direction[s] = "readback" /\ phase[s] = "done" => ~copying[s]
         /\ kind[s] = "dvp" /\ phase[s] = "submitted" => owner[s] = "dvp"

IInv == UploadInv /\ ReadInv /\ BackendInv


-----------------------------------------------------------------------------
(* Backends *)

LEMMA BackendInit == Backend!Init => BackendInv
BY DEF Backend!Init, BackendInv, BackendTypes

\* Only the slot s changes, and its own part of the invariant holds again.
LEMMA BackendStep ==
    ASSUME BackendInv, Backend!Next PROVE BackendInv'
<1> USE DEF BackendInv, BackendTypes, Backend!progress, Backend!system
<1>1. CASE Backend!Initialize \/ Backend!StopServices \/ Backend!Shutdown
  BY <1>1 DEF Backend!Initialize, Backend!StopServices, Backend!Shutdown,
              Backend!ShutdownContexts
<1>2. ASSUME NEW s \in Backends, Backend!BeginAllocation(s) PROVE BackendInv'
  BY <1>2 DEF Backend!BeginAllocation, Backend!Try
<1>3. ASSUME NEW s \in Backends, Backend!Acquire(s) PROVE BackendInv'
  <2>1. /\ phase[s] = "creating" /\ UNCHANGED <<direction, kind>>
        /\ \/ /\ phase' = [phase EXCEPT ![s] = "free"]
              /\ owner' \in [Backends -> {"gl", "dvp"}]
              /\ \A r \in Backends : r # s => owner'[r] = owner[r]
              /\ copying' = [copying EXCEPT ![s] = FALSE]
              /\ pending' = [pending EXCEPT ![s] = FALSE]
              /\ ordered' = [ordered EXCEPT ![s] = FALSE]
              /\ drawn' = [drawn EXCEPT ![s] = FALSE]
           \/ UNCHANGED <<phase, owner, copying, pending, ordered, drawn>>
    BY <1>3 DEF Backend!Acquire
  <2>2. CASE UNCHANGED <<phase, owner, copying, pending, ordered, drawn>>
    BY <2>1, <2>2
  <2>3. CASE phase' = [phase EXCEPT ![s] = "free"] /\ copying' = [copying EXCEPT ![s] = FALSE]
    <3>1. BackendTypes'
      BY <2>1, <2>3, ZenonT(60)
    <3>2. ~drawn'[s] /\ ~copying'[s] /\ phase'[s] = "free" /\ UNCHANGED <<direction, kind>>
      BY <2>1, <2>3
    <3>3. ASSUME NEW r \in Backends, r # s
          PROVE  /\ drawn'[r] = drawn[r] /\ copying'[r] = copying[r] /\ phase'[r] = phase[r]
                 /\ ordered'[r] = ordered[r] /\ owner'[r] = owner[r]
      BY <2>1, <2>3, <3>3
    <3> QED BY <3>1, <3>2, <3>3
  <2> QED BY <2>1, <2>2, <2>3
<1>4. ASSUME NEW s \in Backends, Backend!AcquireFails(s) PROVE BackendInv'
  BY <1>4 DEF Backend!AcquireFails, Backend!Try
<1>5. ASSUME NEW s \in Backends, Backend!Write(s) \/ Backend!Draw(s) \/ Backend!Return(s)
      PROVE BackendInv'
  BY <1>5 DEF Backend!Write, Backend!Draw, Backend!Return, Backend!Moves
<1>6. ASSUME NEW s \in Backends, Backend!Submit(s) PROVE BackendInv'
  BY <1>6 DEF Backend!Submit, Backend!Moves
<1>7. ASSUME NEW s \in Backends, Backend!SubmitFails(s) PROVE BackendInv'
  <2>1. /\ phase[s] = "writing" /\ phase' = [phase EXCEPT ![s] = "free"]
        /\ UNCHANGED <<direction, kind, ordered>>
        /\ pending' = [pending EXCEPT ![s] = FALSE] /\ drawn' = [drawn EXCEPT ![s] = FALSE]
    BY <1>7 DEF Backend!SubmitFails, Backend!Moves
  <2>2. /\ copying' \in [Backends -> BOOLEAN] /\ owner' \in [Backends -> {"gl", "dvp"}]
        /\ \A r \in Backends : r # s => copying'[r] = copying[r] /\ owner'[r] = owner[r]
    <3>1. copying' = copying \/ copying' = [copying EXCEPT ![s] = TRUE]
      BY <1>7 DEF Backend!SubmitFails, Backend!CopiesAfterFailure
    <3>2. PICK o \in {"gl", "dvp"} : owner' = [owner EXCEPT ![s] = o]
      BY <1>7 DEF Backend!SubmitFails
    <3> QED BY <3>1, <3>2
  <2> QED BY <2>1, <2>2, ZenonT(60)
<1>8. ASSUME NEW s \in Backends, Backend!CopyEnds(s) PROVE BackendInv'
  BY <1>8 DEF Backend!CopyEnds
<1>9. ASSUME NEW s \in Backends, Backend!WaitForCompletion(s) PROVE BackendInv'
  BY <1>9 DEF Backend!WaitForCompletion, Backend!Wait, Backend!Moves, Backend!WaitsOnCpu,
              Backend!Readbacks
<1>10. ASSUME NEW s \in Backends, Backend!WaitFails(s) PROVE BackendInv'
  BY <1>10 DEF Backend!WaitFails, Backend!Moves
<1>11. ASSUME NEW s \in Backends, Backend!Render(s) PROVE BackendInv'
  BY <1>11 DEF Backend!Render, Backend!Moves
<1>12. ASSUME NEW s \in Backends, Backend!Reclaim(s) PROVE BackendInv'
  <2>1. /\ phase' = [phase EXCEPT ![s] = "free"]
        /\ UNCHANGED <<direction, kind, owner, copying, pending, ordered, drawn>>
        /\ phase[s] = "done" \/ (phase[s] = "rendered" /\ (ordered[s] => ~copying[s]))
    BY <1>12 DEF Backend!Reclaim, Backend!Moves
  <2> QED BY <2>1
<1>13. ASSUME NEW s \in Backends, Backend!Release(s) PROVE BackendInv'
  BY <1>13 DEF Backend!Release
<1> QED BY <1>1, <1>2, <1>3, <1>4, <1>5, <1>6, <1>7, <1>8, <1>9, <1>10, <1>11, <1>12, <1>13
           DEF Backend!Next

LEMMA CopiesUndisturbed == BackendInv => Backend!CopiesAreUndisturbed
BY DEF BackendInv, BackendTypes, Backend!CopiesAreUndisturbed, Backend!Uploads,
       Backend!Readbacks

-----------------------------------------------------------------------------
(* Lemmas about queues *)

LEMMA Taking ==
    ASSUME NEW S, NEW q \in Seq(S), q # <<>>
    PROVE  /\ Tail(q) \in Seq(S) /\ Head(q) \in Range(q) /\ Head(q) \in S
           /\ Range(q) = Range(Tail(q)) \cup {Head(q)}
           /\ Once(q) => Once(Tail(q)) /\ About(Tail(q)) = About(q) \ {Head(q)}
<1>1. /\ Tail(q) \in Seq(S) /\ Head(q) = q[1] /\ 1 \in DOMAIN q /\ Head(q) \in S
      /\ Len(Tail(q)) = Len(q) - 1 /\ Len(q) \in Nat /\ DOMAIN q = 1 .. Len(q)
      /\ DOMAIN Tail(q) = 1 .. Len(q) - 1
  OBVIOUS
<1>2. \A i \in DOMAIN Tail(q) : i + 1 \in DOMAIN q /\ Tail(q)[i] = q[i + 1] /\ i + 1 # 1
  BY <1>1
<1>3. \A i \in DOMAIN q : i # 1 => i - 1 \in DOMAIN Tail(q) /\ Tail(q)[i - 1] = q[i]
  BY <1>1
<1>4. Range(q) = Range(Tail(q)) \cup {Head(q)}
  <2>1. ASSUME NEW i \in DOMAIN q PROVE q[i] \in Range(Tail(q)) \cup {Head(q)}
    <3>1. CASE i = 1
      BY <1>1, <3>1
    <3>2. CASE i # 1
      BY <1>3, <2>1, <3>2 DEF Range
    <3> QED BY <3>1, <3>2
  <2>2. ASSUME NEW i \in DOMAIN Tail(q) PROVE Tail(q)[i] \in Range(q)
    BY <1>2, <2>2 DEF Range
  <2>3. Head(q) \in Range(q)
    BY <1>1 DEF Range
  <2> QED BY <2>1, <2>2, <2>3 DEF Range
<1>5. ASSUME Once(q) PROVE Once(Tail(q))
  <2> SUFFICES ASSUME NEW i \in DOMAIN Tail(q), NEW j \in DOMAIN Tail(q),
                      Tail(q)[i] = Tail(q)[j], Tail(q)[i].slot # None
               PROVE  i = j
    BY DEF Once
  <2>1. i + 1 = j + 1
    BY <1>2, <1>5 DEF Once
  <2>2. i \in Nat /\ j \in Nat
    BY <1>1
  <2> QED BY <2>1, <2>2
<1>6. ASSUME Once(q), Head(q) \in About(Tail(q)) PROVE FALSE
  <2>1. PICK i \in DOMAIN Tail(q) : Tail(q)[i] = Head(q) /\ Head(q).slot # None
    BY <1>6 DEF About, Range
  <2> QED BY <2>1, <1>1, <1>2, <1>6 DEF Once
<1> QED BY <1>1, <1>4, <1>5, <1>6 DEF About, Range

\* A name for it, so that the provers do not append for ever.
Extends(r, q, t) == r = Append(q, t)

LEMMA Adding ==
    ASSUME NEW S, NEW q \in Seq(S), NEW t \in S, NEW r, Extends(r, q, t)
    PROVE  /\ r \in Seq(S)
           /\ \A u : u \in Range(r) <=> u \in Range(q) \/ u = t
           /\ \A u : u \in About(r) <=> u \in About(q) \/ (u = t /\ t.slot # None)
           /\ Once(q) /\ t \notin About(q) => Once(r)
<1>1. /\ r \in Seq(S) /\ r[Len(q) + 1] = t /\ Len(r) = Len(q) + 1 /\ Len(q) \in Nat
      /\ DOMAIN q = 1 .. Len(q) /\ DOMAIN r = 1 .. Len(q) + 1
      /\ \A i \in DOMAIN q : r[i] = q[i]
  BY DEF Extends
<1>2. \A i \in DOMAIN r : i \in DOMAIN q \/ i = Len(q) + 1
  BY <1>1
<1>3. \A u : u \in Range(r) <=> u \in Range(q) \/ u = t
  BY <1>1, <1>2 DEF Range
<1>4. ASSUME Once(q), t \notin About(q) PROVE Once(r)
  <2> SUFFICES ASSUME NEW i \in DOMAIN r, NEW j \in DOMAIN r, r[i] = r[j], r[i].slot # None
               PROVE  i = j
    BY DEF Once
  <2>1. CASE i \in DOMAIN q /\ j \in DOMAIN q
    BY <2>1, <1>1, <1>4 DEF Once
  <2>2. ASSUME NEW k \in DOMAIN q, r[k] = t, t.slot # None PROVE FALSE
    BY <2>2, <1>1, <1>4 DEF About, Range
  <2> QED BY <1>1, <1>2, <2>1, <2>2
<1> QED BY <1>1, <1>3, <1>4 DEF About

LEMMA Nothing ==
    /\ Once(<<>>) /\ About(<<>>) = {} /\ Range(<<>>) = {}
    /\ \A S : \A q \in Seq(S) : q \o <<>> = q /\ <<>> \o q = q
BY DEF Once, About, Range

\* A queue of slots loses its first, or gets one more.
LEMMA HeldTail ==
    ASSUME NEW S, NEW q \in Seq(S), q # <<>>, NEW owned, NEW slots, NEW state,
           Holds(q, owned, slots, state)
    PROVE  /\ Tail(q) \in Seq(S) /\ Head(q) \in owned /\ Head(q) \in S
           /\ slots[Head(q)].state = state
           /\ Holds(Tail(q), owned \ {Head(q)}, slots, state)
<1>1. /\ Tail(q) \in Seq(S) /\ Head(q) = q[1] /\ 1 \in DOMAIN q /\ Head(q) \in S
      /\ Len(Tail(q)) = Len(q) - 1 /\ Len(q) \in Nat /\ DOMAIN q = 1 .. Len(q)
      /\ DOMAIN Tail(q) = 1 .. Len(q) - 1
  OBVIOUS
<1>2. \A i \in DOMAIN Tail(q) : i + 1 \in DOMAIN q /\ Tail(q)[i] = q[i + 1] /\ i + 1 # 1
  BY <1>1
<1>3. \A i, j \in DOMAIN Tail(q) : i + 1 = j + 1 => i = j
  BY <1>1
<1> QED BY <1>1, <1>2, <1>3 DEF Holds

LEMMA HeldMore ==
    ASSUME NEW S, NEW q \in Seq(S), NEW s \in S, NEW owned, NEW slots, NEW state,
           Holds(q, owned, slots, state), s \in owned, slots[s].state = state,
           s \notin Range(q)
    PROVE  /\ Append(q, s) \in Seq(S) /\ Holds(Append(q, s), owned, slots, state)
           /\ Range(Append(q, s)) = Range(q) \cup {s}
<1> DEFINE r == Append(q, s)
<1>1. /\ r \in Seq(S) /\ r[Len(q) + 1] = s /\ Len(q) \in Nat
      /\ DOMAIN q = 1 .. Len(q) /\ DOMAIN r = 1 .. Len(q) + 1
      /\ \A i \in DOMAIN q : r[i] = q[i]
  OBVIOUS
<1>2. \A i \in DOMAIN r : i \in DOMAIN q \/ i = Len(q) + 1
  BY <1>1
<1>3. Range(r) = Range(q) \cup {s}
  BY <1>1, <1>2 DEF Range
<1>4. \A i \in DOMAIN q : r[i] # s
  BY <1>1 DEF Range
<1>5. \A i, j \in DOMAIN r : r[i] = r[j] => i = j
  BY <1>1, <1>2, <1>4 DEF Holds
<1>6. \A i \in DOMAIN r : r[i] \in owned /\ slots[r[i]].state = state
  BY <1>1, <1>2 DEF Holds
<1> QED BY <1>1, <1>3, <1>5, <1>6 DEF Holds

\* A queue keeps what it holds while what it holds keeps its state.
LEMMA HeldStill ==
    ASSUME NEW q, NEW owned, NEW more, NEW slots, NEW slots2, NEW state,
           Holds(q, owned, slots, state),
           \A s \in owned : slots[s].state = state => s \in more /\ slots2[s].state = state
    PROVE  Holds(q, more, slots2, state)
BY DEF Holds

-----------------------------------------------------------------------------
(* Uploads: what a step does to the queues *)

LEMMA NoSlot == None \notin Slots /\ None \notin Streams
BY BoundsAssumption

LEMMA Nexts ==
    ASSUME UploadTypes, tasks \o delayed # <<>>
    PROVE  /\ NextTask \in Tasks /\ NextTask \in Range(tasks) \cup Range(delayed)
           /\ tasks # <<>> => NextTask = Head(tasks)
           /\ tasks = <<>> => delayed # <<>> /\ NextTask = Head(delayed)
<1> USE DEF UploadTypes, NextTask
<1>1. CASE tasks # <<>>
  <2>1. Head(tasks \o delayed) = Head(tasks)
    BY <1>1
  <2> QED BY <1>1, <2>1, Taking
<1>2. CASE tasks = <<>>
  <2>1. tasks \o delayed = delayed
    BY <1>2
  <2> QED BY <1>2, <2>1, Taking
<1> QED BY <1>1, <1>2

\* The worker takes a task that does not come back.
LEMMA TakeOne ==
    ASSUME UploadTypes, OnceInv, tasks \o delayed # <<>>, Take(<<>>, <<>>)
    PROVE  /\ tasks' \in Seq(Tasks) /\ delayed' \in Seq(Tasks) /\ Apiece(tasks', delayed')
           /\ About(tasks') \cup About(delayed') =
                (About(tasks) \cup About(delayed)) \ {NextTask}
           /\ Range(tasks') \subseteq Range(tasks) /\ Range(delayed') \subseteq Range(delayed)
<1> USE DEF UploadTypes, OnceInv, Apiece
<1>1. CASE tasks # <<>>
  <2>1. tasks' = Tail(tasks) /\ delayed' = delayed
    BY <1>1, Nothing, Taking DEF Take, Enqueued
  <2>2. NextTask = Head(tasks) /\ (NextTask.slot # None => NextTask \in About(tasks))
    BY <1>1, Nexts, Taking DEF About
  <2>3. NextTask \notin About(delayed)
    BY <2>2 DEF About
  <2> QED BY <1>1, <2>1, <2>2, <2>3, Taking
<1>2. CASE tasks = <<>>
  <2>1. tasks' = <<>> /\ delayed' = Tail(delayed) /\ delayed # <<>> /\ NextTask = Head(delayed)
    BY <1>2, Nexts, Nothing, Taking DEF Take, Enqueued
  <2> QED BY <1>2, <2>1, Taking, Nothing
<1> QED BY <1>1, <1>2

\* The worker takes a task and enqueues another one about the same slot.
LEMMA TakeAndPost ==
    ASSUME UploadTypes, OnceInv, tasks \o delayed # <<>>, NEW t \in Tasks,
           t \notin About(tasks) \cup About(delayed), Take(<<t>>, <<>>)
    PROVE  /\ tasks' \in Seq(Tasks) /\ delayed' \in Seq(Tasks) /\ Apiece(tasks', delayed')
           /\ About(tasks') \cup About(delayed') \subseteq
                ((About(tasks) \cup About(delayed)) \ {NextTask}) \cup {t}
           /\ Range(tasks') \subseteq Range(tasks) \cup {t}
           /\ Range(delayed') \subseteq Range(delayed)
<1> USE DEF UploadTypes, OnceInv, Apiece
<1>1. CASE tasks # <<>>
  <2> DEFINE rest == Tail(tasks)
  <2>1. tasks' \in {rest, rest \o <<t>>} /\ delayed' = delayed
    BY <1>1, Nothing DEF Take, Enqueued
  <2>2. NextTask = Head(tasks) /\ (NextTask.slot # None => NextTask \in About(tasks))
    BY <1>1, Nexts, Taking DEF About
  <2>3. NextTask \notin About(delayed)
    BY <2>2 DEF About
  <2>4. /\ rest \in Seq(Tasks) /\ Once(rest) /\ About(rest) = About(tasks) \ {NextTask}
        /\ Range(rest) \subseteq Range(tasks)
    BY <1>1, <2>2, Taking
  <2>5. CASE tasks' = rest
    BY <2>1, <2>3, <2>4, <2>5
  <2>6. CASE tasks' = rest \o <<t>>
    <3>1. /\ tasks' \in Seq(Tasks) /\ Range(tasks') \subseteq Range(rest) \cup {t}
          /\ Once(tasks') /\ About(tasks') \subseteq About(rest) \cup {t}
      <4>1. Extends(tasks', rest, t)
        BY <2>4, <2>6 DEF Extends
      <4> HIDE DEF rest
      <4> QED BY <4>1, <2>4, Adding
    <3> QED BY <3>1, <2>1, <2>3, <2>4
  <2> QED BY <2>1, <2>5, <2>6
<1>2. CASE tasks = <<>>
  <2>1. tasks' \in {<<>>, <<>> \o <<t>>} /\ delayed' = Tail(delayed) /\ delayed # <<>>
        /\ NextTask = Head(delayed)
    BY <1>2, Nexts, Nothing, Taking DEF Take, Enqueued
  <2>2. <<>> \in Seq(Tasks)
    OBVIOUS
  <2>3. /\ delayed' \in Seq(Tasks) /\ Once(delayed') /\ About(delayed') = About(delayed) \ {NextTask}
        /\ Range(delayed') \subseteq Range(delayed)
    BY <2>1, Taking
  <2>4. CASE tasks' = <<>>
    BY <1>2, <2>2, <2>3, <2>4, Nothing
  <2>5. CASE tasks' = <<>> \o <<t>>
    <3> DEFINE none == <<>>
    <3>1. Extends(tasks', none, t) /\ none \in Seq(Tasks) /\ Once(none) /\ t \notin About(none)
      BY <2>5, Nothing DEF Extends
    <3>2. /\ tasks' \in Seq(Tasks) /\ Once(tasks')
          /\ \A u : u \in Range(tasks') <=> u \in Range(none) \/ u = t
          /\ \A u : u \in About(tasks') <=> u \in About(none) \/ (u = t /\ t.slot # None)
      <4> HIDE DEF none
      <4> QED BY <3>1, Adding
    <3>3. Range(tasks') \subseteq {t} /\ About(tasks') \subseteq {t}
      BY <3>2, Nothing
    <3>4. Apiece(tasks', delayed')
      BY <2>3, <3>2, <3>3 DEF Apiece
    <3> QED BY <2>3, <3>2, <3>3, <3>4
  <2> QED BY <2>1, <2>4, <2>5
<1> QED BY <1>1, <1>2

\* The worker takes a task and keeps it for a retry.
LEMMA TakeAndKeep ==
    ASSUME UploadTypes, OnceInv, tasks \o delayed # <<>>, Take(<<>>, <<NextTask>>)
    PROVE  /\ tasks' \in Seq(Tasks) /\ delayed' \in Seq(Tasks) /\ Apiece(tasks', delayed')
           /\ About(tasks') \cup About(delayed') = About(tasks) \cup About(delayed)
           /\ Range(tasks') \subseteq Range(tasks)
           /\ Range(delayed') \subseteq Range(delayed) \cup {NextTask}
<1> USE DEF UploadTypes, OnceInv, Apiece
<1>0. NextTask \in Tasks
  BY Nexts
<1>1. CASE tasks # <<>>
  <2>1. tasks' = Tail(tasks) /\ delayed' = delayed \o <<NextTask>>
    BY <1>1, Nothing, Taking DEF Take, Enqueued
  <2>2. NextTask = Head(tasks) /\ (NextTask.slot # None => NextTask \in About(tasks))
    BY <1>1, Nexts, Taking DEF About
  <2>3. NextTask \notin About(delayed)
    BY <2>2 DEF About
  <2>4. /\ tasks' \in Seq(Tasks) /\ Once(tasks') /\ About(tasks') = About(tasks) \ {NextTask}
        /\ Range(tasks') \subseteq Range(tasks)
    BY <1>1, <2>1, <2>2, Taking
  <2>5. /\ delayed' \in Seq(Tasks) /\ Once(delayed')
        /\ Range(delayed') \subseteq Range(delayed) \cup {NextTask}
        /\ \A u : u \in About(delayed') <=>
                   u \in About(delayed) \/ (u = NextTask /\ NextTask.slot # None)
    <3>1. Extends(delayed', delayed, NextTask)
      BY <1>0, <2>1 DEF Extends
    <3> QED BY <1>0, <3>1, <2>3, Adding
  <2>6. Apiece(tasks', delayed')
    BY <2>4, <2>5 DEF Apiece
  <2>7. About(tasks') \cup About(delayed') = About(tasks) \cup About(delayed)
    BY <2>2, <2>4, <2>5 DEF About
  <2> QED BY <2>4, <2>5, <2>6, <2>7
<1>2. CASE tasks = <<>>
  <2>1. tasks' = <<>> /\ delayed' = Tail(delayed) \o <<NextTask>> /\ delayed # <<>>
        /\ NextTask = Head(delayed)
    BY <1>2, Nexts, Nothing, Taking DEF Take, Enqueued
  <2> DEFINE rest == Tail(delayed)
  <2>2. /\ rest \in Seq(Tasks) /\ Once(rest) /\ About(rest) = About(delayed) \ {NextTask}
        /\ Range(delayed) = Range(rest) \cup {NextTask}
        /\ NextTask.slot # None => NextTask \in About(delayed)
    BY <2>1, Taking DEF About
  <2>3. /\ delayed' \in Seq(Tasks) /\ Once(delayed')
        /\ Range(delayed') \subseteq Range(rest) \cup {NextTask}
        /\ \A u : u \in About(delayed') <=>
                   u \in About(rest) \/ (u = NextTask /\ NextTask.slot # None)
    <3>1. Extends(delayed', rest, NextTask)
      BY <1>0, <2>1, <2>2 DEF Extends
    <3> HIDE DEF rest
    <3> QED BY <1>0, <3>1, <2>2, Adding
  <2>4. About(delayed') = About(delayed)
    BY <2>2, <2>3 DEF About
  <2>5. Apiece(tasks', delayed')
    BY <2>1, <2>3, Nothing DEF Apiece
  <2>6. Range(delayed') \subseteq Range(delayed) \cup {NextTask}
    BY <2>2, <2>3
  <2> QED BY <1>2, <2>1, <2>3, <2>4, <2>5, <2>6, Nothing
<1> QED BY <1>1, <1>2

\* Posting what is about no slot that has a task already.
LEMMA PostingKeepsOnce ==
    ASSUME UploadTypes, OnceInv, NEW st \in Streams, NEW th \in Threads, NEW q,
           posts' = [posts EXCEPT ![st][th] = q], UNCHANGED <<tasks, delayed, working>>,
           Once(q), About(q) \cap Pending = {}
    PROVE  OnceInv'
<1>1. Hand' = Hand /\ About(tasks)' = About(tasks) /\ About(delayed)' = About(delayed)
  BY DEF Hand, About
<1>2. About(q) \cap (About(tasks) \cup About(delayed) \cup Hand) = {}
  BY DEF Pending, About
<1>3. \A su \in Streams, tu \in Threads :
        posts'[su][tu] = IF su = st /\ tu = th THEN q ELSE posts[su][tu]
  BY DEF UploadTypes
<1>4. ASSUME NEW su \in Streams, NEW tu \in Threads
      PROVE  /\ Once(posts'[su][tu])
             /\ About(posts'[su][tu]) \cap (About(tasks) \cup About(delayed) \cup Hand) = {}
  BY <1>2, <1>3 DEF OnceInv
<1>5. Apiece(tasks', delayed') /\ Hand' \cap (About(tasks') \cup About(delayed')) = {}
  BY <1>1 DEF OnceInv, Apiece, Once, About
<1> QED BY <1>1, <1>4, <1>5 DEF OnceInv, About

LEMMA Posting ==
    ASSUME UploadTypes, PlacesInv, NEW st \in Streams, NEW th \in Threads, NEW q \in Seq(Tasks),
           posts' = [posts EXCEPT ![st][th] = q], UNCHANGED <<tasks, delayed, working>>,
           \A t \in Range(q) : t.stream = st /\ t.type # IF th = "owner" THEN "upload" ELSE "reclaim"
    PROVE  /\ posts' \in [Streams -> [Threads -> Seq(Tasks)]] /\ PlacesInv'
           /\ Pending' \subseteq Pending \cup Range(q)
<1>1. posts' \in [Streams -> [Threads -> Seq(Tasks)]]
  BY DEF UploadTypes
<1>2. \A su \in Streams, tu \in Threads :
        posts'[su][tu] = IF su = st /\ tu = th THEN q ELSE posts[su][tu]
  BY DEF UploadTypes
<1>3. PlacesInv'
  BY <1>2 DEF PlacesInv
<1>4. Posted' \subseteq Posted \cup Range(q)
  BY <1>2 DEF Posted
<1>5. Range(tasks)' = Range(tasks) /\ Range(delayed)' = Range(delayed) /\ Hand' = Hand
  BY DEF Hand, Range
<1> QED BY <1>1, <1>3, <1>4, <1>5 DEF Pending

-----------------------------------------------------------------------------
(* Uploads: what a step leaves alone *)

LEMMA PendingTasks ==
    ASSUME UploadTypes
    PROVE  /\ \A t \in Pending :
                /\ t \in Tasks /\ t.stream \in Streams
                /\ t.type \in {"upload", "reclaim"} <=> t.slot # None
                /\ t.slot # None => t.slot \in Slots
                /\ t.slot # None \/ t.type \in {"allocate", "destroy_stream"}
           /\ About(tasks) \cup About(delayed) \subseteq Pending
<1>1. Range(tasks) \subseteq Tasks /\ Range(delayed) \subseteq Tasks
  BY DEF UploadTypes, Range
<1>2. Hand \subseteq Tasks
  BY DEF UploadTypes, Hand
<1>3. \A st \in Streams, th \in Threads : Range(posts[st][th]) \subseteq Tasks
  BY DEF UploadTypes, Range
<1>4. Pending \subseteq Tasks
  BY <1>1, <1>2, <1>3 DEF Pending, Posted
<1>5. \A t \in Tasks :
        /\ t.stream \in Streams
        /\ t.type \in {"upload", "reclaim"} <=> t.slot # None
        /\ t.slot # None => t.slot \in Slots
        /\ t.slot # None \/ t.type \in {"allocate", "destroy_stream"}
  BY NoSlot DEF Tasks
<1> QED BY <1>4, <1>5 DEF About, Pending

\* The tasks on a slot are one.
LEMMA OneTask ==
    ASSUME UploadTypes, Apart(stream), DueInv,
           NEW t \in Pending, NEW u \in Pending, t.slot = u.slot, t.slot # None
    PROVE  t = u
<1>1. /\ t \in Tasks /\ t.stream \in Streams /\ t.type \in {"upload", "reclaim"}
      /\ u \in Tasks /\ u.stream \in Streams /\ u.type \in {"upload", "reclaim"}
  BY PendingTasks
<1>2. Due(t) /\ Due(u)
  BY DEF DueInv
<1>3. t.slot \in stream[t.stream].slots /\ t.slot \in stream[u.stream].slots /\ t.type = u.type
  BY <1>1, <1>2 DEF Due
<1>4. t.stream = u.stream
  BY <1>1, <1>3 DEF Apart
<1>5. /\ t \in [type : {"upload", "reclaim"}, stream : Streams, slot : Slots]
      /\ u \in [type : {"upload", "reclaim"}, stream : Streams, slot : Slots]
  BY <1>1 DEF Tasks
<1> QED BY <1>3, <1>4, <1>5

\* The task the worker takes was the only one on its slot.
LEMMA Alone ==
    ASSUME UploadTypes, Apart(stream), DueInv, OnceInv, tasks \o delayed # <<>>,
           NextTask.slot # None,
           NEW u \in ((About(tasks) \cup About(delayed)) \ {NextTask}) \cup Hand \cup Posted
    PROVE  u.slot # NextTask.slot
<1>1. NextTask \in Pending /\ NextTask \in About(tasks) \cup About(delayed) /\ u \in Pending
  BY Nexts, PendingTasks DEF Pending, About
<1>2. SUFFICES ASSUME u.slot = NextTask.slot PROVE FALSE
  OBVIOUS
<1>3. u = NextTask
  BY <1>1, <1>2, OneTask
<1>4. u \in Hand \/ (\E st \in Streams, th \in Threads : u \in About(posts[st][th]))
  BY <1>3 DEF Posted, About
<1> QED BY <1>1, <1>3, <1>4 DEF OnceInv

\* The queues change, and what threads hold does not.
LEMMA QueuesStep ==
    ASSUME UploadTypes, OnceInv, PlacesInv, UNCHANGED <<working, posts>>,
           Apiece(tasks', delayed'), NEW N,
           About(tasks') \cup About(delayed') \subseteq About(tasks) \cup About(delayed) \cup N,
           N \cap (Hand \cup Posted) = {},
           \A t \in Range(delayed') : t.type # "upload"
    PROVE  OnceInv' /\ PlacesInv' /\ Hand' = Hand /\ Posted' = Posted
<1>1. Hand' = Hand /\ Posted' = Posted
  BY DEF Hand, Posted
<1>2. PlacesInv'
  BY DEF PlacesInv
<1>3. (Hand \cap (About(tasks') \cup About(delayed'))) = {}
  BY DEF OnceInv
<1>4. ASSUME NEW st \in Streams, NEW th \in Threads
      PROVE  /\ Once(posts[st][th])
             /\ About(posts[st][th]) \cap (About(tasks') \cup About(delayed') \cup Hand) = {}
  <2>1. About(posts[st][th]) \subseteq Posted
    BY DEF Posted, About
  <2> QED BY <2>1 DEF OnceInv
<1> QED BY <1>1, <1>2, <1>3, <1>4 DEF OnceInv, Apiece, About, Once, Hand

\* Only a stream and some slots, which are not another stream's, change.
LEMMA KeptBut ==
    ASSUME UploadTypes, Apart(stream), \A su \in Streams : Kept(stream[su], slot),
           NEW st \in Streams, NEW W,
           \A su \in Streams \ {st} : stream'[su] = stream[su] /\ W \cap stream[su].slots = {},
           \A s \in Slots \ W : slot'[s] = slot[s],
           Kept(stream'[st], slot')
    PROVE  \A su \in Streams : Kept(stream'[su], slot')
<1> SUFFICES ASSUME NEW su \in Streams \ {st} PROVE Kept(stream[su], slot')
  OBVIOUS
<1>1. \A s \in stream[su].slots : slot'[s] = slot[s]
  BY DEF UploadTypes, UploadStreams
<1> QED BY <1>1 DEF Kept, Holds

LEMMA DueBut ==
    ASSUME UploadTypes, DueInv, NEW W,
           \A s \in Slots \ W : slot'[s].state = slot[s].state,
           \A su \in Streams : /\ stream[su].slots \subseteq stream'[su].slots
                               /\ stream'[su].made = stream[su].made
                               /\ stream'[su].active = stream[su].active,
           \A u \in Pending' : Due(u)' \/ (u \in Pending /\ u.slot \notin W)
    PROVE  DueInv'
<1> SUFFICES ASSUME NEW u \in Pending, u.slot \notin W PROVE Due(u)'
  BY DEF DueInv
<1>1. Due(u) /\ u.stream \in Streams
  BY PendingTasks DEF DueInv
<1>2. u.type \in {"upload", "reclaim"} => u.slot \in Slots
  BY PendingTasks
<1> QED BY <1>1, <1>2 DEF Due

LEMMA DrawBut ==
    ASSUME UploadTypes, DrawInv, NEW W, \A s \in W : ~gpu[s],
           UNCHANGED <<rendering, gpu>>,
           \A s \in Slots \ W : /\ slot'[s].state = slot[s].state /\ slot'[s].gl = slot[s].gl
                                /\ fence'[s] = fence[s],
           \A su \in Streams : /\ stream[su].slots \subseteq stream'[su].slots
                               /\ stream'[su].current = stream[su].current
    PROVE  DrawInv'
BY DEF DrawInv

LEMMA WriteBut ==
    ASSUME UploadTypes, WriteInv, NEW W,
           \A s \in Slots \ W : slot'[s].state = slot[s].state /\ lease'[s] = lease[s],
           \A su \in Streams : stream[su].slots \subseteq stream'[su].slots,
           \A s \in W : lease'[s] = "writing" =>
             slot'[s].state = "cpu_writing" /\ \E su \in Streams : s \in stream'[su].slots
    PROVE  WriteInv'
BY DEF WriteInv

LEMMA OneStream ==
    ASSUME UploadTypes, NEW st \in Streams, NEW y \in UploadStreams,
           stream' = [stream EXCEPT ![st] = y]
    PROVE  /\ stream' \in [Streams -> UploadStreams] /\ stream'[st] = y
           /\ \A su \in Streams \ {st} : stream'[su] = stream[su]
BY DEF UploadTypes

\* Nothing but what no invariant is about changes in the streams.
LEMMA StreamsAlike ==
    ASSUME UploadInv, stream' \in [Streams -> UploadStreams],
           \A su \in Streams :
             /\ stream'[su].made = stream[su].made /\ stream'[su].active = stream[su].active
             /\ stream'[su].slots = stream[su].slots /\ stream'[su].free = stream[su].free
             /\ stream'[su].ready = stream[su].ready
             /\ stream'[su].current = stream[su].current
    PROVE  /\ Apart(stream')
           /\ \A su \in Streams : Kept(stream'[su], slot)
BY DEF UploadInv, Apart, Kept

\* One slot of one stream moves, which the GPU does not read.
LEMMA OneSlot ==
    ASSUME UploadInv, NEW st \in Streams, NEW s \in stream[st].slots,
           \A su \in Streams \ {st} : stream'[su] = stream[su],
           stream'[st].made = stream[st].made, stream'[st].active = stream[st].active,
           stream'[st].slots = stream[st].slots, stream'[st].current = stream[st].current,
           \A r \in Slots \ {s} : slot'[r] = slot[r] /\ fence'[r] = fence[r] /\ lease'[r] = lease[r],
           ~gpu[s], UNCHANGED <<rendering, gpu>>,
           lease'[s] = "writing" => slot'[s].state = "cpu_writing",
           Kept(stream'[st], slot'),
           \A u \in Pending' : Due(u)' \/ (u \in Pending /\ u.slot # s)
    PROVE  /\ Apart(stream)' /\ \A su \in Streams : Kept(stream[su], slot)'
           /\ DueInv' /\ DrawInv' /\ WriteInv'
<1> DEFINE W == {s}
<1>1. /\ UploadTypes /\ Apart(stream) /\ \A su \in Streams : Kept(stream[su], slot)
      /\ DueInv /\ DrawInv /\ WriteInv
  BY DEF UploadInv
<1>2. Apart(stream)'
  BY <1>1 DEF Apart
<1>3. \A su \in Streams : /\ stream[su].slots \subseteq stream'[su].slots
                          /\ stream'[su].current = stream[su].current
                          /\ stream'[su].made = stream[su].made
                          /\ stream'[su].active = stream[su].active
  OBVIOUS
<1>4. \A su \in Streams \ {st} : W \cap stream[su].slots = {}
  BY <1>1 DEF Apart
<1>5. \A r \in Slots \ W : slot'[r] = slot[r] /\ fence'[r] = fence[r] /\ lease'[r] = lease[r]
  OBVIOUS
<1>6. \A r \in W : /\ ~gpu[r]
                   /\ lease'[r] = "writing" =>
                        slot'[r].state = "cpu_writing" /\ \E su \in Streams : r \in stream'[su].slots
  OBVIOUS
<1>7. \A u \in Pending' : Due(u)' \/ (u \in Pending /\ u.slot \notin W)
  OBVIOUS
<1> HIDE DEF W
<1>8. \A su \in Streams : Kept(stream'[su], slot')
  BY <1>1, <1>4, <1>5, KeptBut
<1>9. DueInv'
  BY <1>1, <1>3, <1>5, <1>7, DueBut
<1>10. DrawInv'
  BY <1>1, <1>3, <1>5, <1>6, DrawBut
<1>11. WriteInv'
  <2>1. \A r \in Slots \ W : slot'[r].state = slot[r].state /\ lease'[r] = lease[r]
    BY <1>5
  <2>2. \A su \in Streams : stream[su].slots \subseteq stream'[su].slots
    BY <1>3
  <2>3. \A r \in W : lease'[r] = "writing" =>
          slot'[r].state = "cpu_writing" /\ \E su \in Streams : r \in stream'[su].slots
    BY <1>6
  <2> QED BY <1>1, <2>1, <2>2, <2>3, WriteBut
<1> QED BY <1>2, <1>8, <1>9, <1>10, <1>11

LEMMA KeptMoves ==
    ASSUME NEW x, NEW y, NEW slots, NEW slots2, NEW s, Kept(x, slots), s \in x.slots,
           y.made = x.made, y.active = x.active, y.slots = x.slots, y.current = x.current,
           \A r \in x.slots \ {s} : slots2[r] = slots[r],
           slots[s].state # "current", slots2[s].state # "current",
           slots2[s].state = "ready" => slots2[s].gl,
           Holds(y.free, x.slots, slots2, "free"), Holds(y.ready, x.slots, slots2, "ready")
    PROVE  Kept(y, slots2)
BY DEF Kept

\* A queue does not notice a slot that was not in its state.
LEMMA HeldWithout ==
    ASSUME NEW q, NEW owned, NEW slots, NEW slots2, NEW state, NEW s,
           Holds(q, owned, slots, state), slots[s].state # state,
           \A r \in owned \ {s} : slots2[r] = slots[r]
    PROVE  Holds(q, owned, slots2, state)
BY DEF Holds

\* A slot that joins the queue of its new state.
LEMMA HeldJoin ==
    ASSUME NEW S, NEW q \in Seq(S), NEW owned, NEW slots, NEW slots2, NEW state, NEW s \in S,
           Holds(q, owned, slots, state), slots[s].state # state, s \in owned,
           \A r \in owned \ {s} : slots2[r] = slots[r], slots2[s].state = state,
           NEW r, Extends(r, q, s)
    PROVE  r \in Seq(S) /\ Holds(r, owned, slots2, state)
<1>1. Holds(q, owned, slots2, state)
  BY HeldWithout
<1>2. s \notin Range(q)
  BY DEF Holds, Range
<1> QED BY <1>1, <1>2, HeldMore DEF Extends

\* A slot that leaves the queue of its old state.
LEMMA HeldLeave ==
    ASSUME NEW q, NEW owned, NEW slots, NEW slots2, NEW state, NEW s,
           Holds(q, owned \ {s}, slots, state),
           \A r \in owned \ {s} : slots2[r] = slots[r]
    PROVE  Holds(q, owned, slots2, state)
BY DEF Holds

\* The slot of a task: its stream owns it, its state says what the task does, and
\* the GPU reads it only if it was retired.
LEMMA SlotOfTask ==
    ASSUME UploadInv, NEW t \in Pending, t.slot # None
    PROVE  /\ t.stream \in Streams /\ t.slot \in Slots /\ t.slot \in stream[t.stream].slots
           /\ slot[t.slot].state = IF t.type = "upload" THEN "queued" ELSE "reclaim"
           /\ lease[t.slot] # "writing"
           /\ gpu[t.slot] => t.type # "upload" /\ fence[t.slot]
           /\ \A st \in Streams : rendering[st] # t.slot
<1>1. /\ t.stream \in Streams /\ t.slot \in Slots /\ t.type \in {"upload", "reclaim"}
      /\ UploadTypes /\ Due(t) /\ DrawInv /\ WriteInv /\ Apart(stream)
  BY PendingTasks DEF UploadInv, DueInv
<1>2. /\ t.slot \in stream[t.stream].slots
      /\ slot[t.slot].state = IF t.type = "upload" THEN "queued" ELSE "reclaim"
  BY <1>1 DEF Due
<1>3. lease[t.slot] # "writing"
  BY <1>1, <1>2 DEF WriteInv
<1>4. \A st \in Streams : rendering[st] # t.slot
  <2> SUFFICES ASSUME NEW st \in Streams, rendering[st] = t.slot PROVE FALSE
    OBVIOUS
  <2>1. stream[st].current = t.slot /\ Kept(stream[st], slot)
    BY <1>1 DEF DrawInv, UploadInv
  <2>2. slot[t.slot].state = "current"
    BY <2>1 DEF Kept
  <2> QED BY <1>2, <2>2
<1>5. gpu[t.slot] => t.type # "upload" /\ fence[t.slot]
  BY <1>1, <1>2, <1>4 DEF DrawInv
<1> QED BY <1>1, <1>2, <1>3, <1>4, <1>5

-----------------------------------------------------------------------------
(* Uploads: the steps of the worker *)

LEMMA AllocateKeeps ==
    ASSUME UploadInv, AllocateSlot
    PROVE  UploadInv'
<1> DEFINE st == NextTask.stream
<1> USE DEF UploadInv
<1>0. tasks \o delayed # <<>> /\ NextTask.type = "allocate" /\ Take(<<>>, <<>>)
      /\ UNCHANGED <<working, posts, lease, rendering, fence, gpu>>
  BY DEF AllocateSlot, Allocation, IsNext, render
<1>1. st \in Streams /\ NextTask.slot = None
  BY <1>0, Nexts, PendingTasks DEF Pending
<1>2. /\ tasks' \in Seq(Tasks) /\ delayed' \in Seq(Tasks) /\ Apiece(tasks', delayed')
      /\ About(tasks') \cup About(delayed') \subseteq About(tasks) \cup About(delayed)
      /\ Range(tasks') \subseteq Range(tasks) /\ Range(delayed') \subseteq Range(delayed)
  BY <1>0, TakeOne
<1>3. OnceInv' /\ PlacesInv' /\ Hand' = Hand /\ Posted' = Posted
  <2> DEFINE N == {}
  <2>1. /\ About(tasks') \cup About(delayed') \subseteq About(tasks) \cup About(delayed) \cup N
        /\ N \cap (Hand \cup Posted) = {}
        /\ \A t \in Range(delayed') : t.type # "upload"
    BY <1>2 DEF PlacesInv
  <2> HIDE DEF N
  <2> QED BY <1>0, <1>2, <2>1, QueuesStep
<1>4. Pending' \subseteq Pending
  BY <1>2, <1>3 DEF Pending
<1> DEFINE Fails == UNCHANGED slot /\ (\/ stream' = [stream EXCEPT ![st].pending = @ - 1, ![st].failed = TRUE,
                                                                 ![st].waiting = TRUE]
                                     \/ stream' = [stream EXCEPT ![st].pending = @ - 1])
           Makes == \E bytes \in ActualBytes : LET s == CHOOSE s \in Slots : s \notin InUse IN
             /\ InUse # Slots /\ stream[st].active
             /\ stream' = [stream EXCEPT ![st].pending = @ - 1,
                                ![st].failed = FALSE, ![st].waiting = FALSE,
                                ![st].slots = @ \cup {s}, ![st].free = Append(@, s)]
             /\ slot' = [slot EXCEPT ![s] = NewSlot(bytes)]
<1>7. Fails \/ Makes
  BY DEF AllocateSlot, Allocation
<1> HIDE DEF st
<1>5. CASE Fails
  <2> DEFINE x == stream[st]  y == stream'[st]
  <2>0. /\ y.made = x.made /\ y.active = x.active /\ y.slots = x.slots /\ y.free = x.free
        /\ y.ready = x.ready /\ y.current = x.current
        /\ \A su \in Streams \ {st} : stream'[su] = stream[su]
        /\ stream' \in [Streams -> UploadStreams]
    <3> DEFINE v == x.pending - 1
               z == [x EXCEPT !.pending = v]
               f == [x EXCEPT !.pending = v, !.failed = TRUE, !.waiting = TRUE]
    <3>1. x \in UploadStreams /\ v \in Int
      BY <1>1 DEF UploadTypes, UploadStreams
    <3>2. \/ stream' = [stream EXCEPT ![st] = z]
          \/ stream' = [stream EXCEPT ![st] = f]
      BY <1>5
    <3> HIDE DEF v, x
    <3>3. /\ z \in UploadStreams /\ z.made = x.made /\ z.active = x.active
          /\ z.slots = x.slots /\ z.free = x.free /\ z.ready = x.ready /\ z.current = x.current
      BY <3>1 DEF UploadStreams
    <3>4. /\ f \in UploadStreams /\ f.made = x.made /\ f.active = x.active
          /\ f.slots = x.slots /\ f.free = x.free /\ f.ready = x.ready /\ f.current = x.current
      BY <3>1 DEF UploadStreams
    <3> HIDE DEF z, f
    <3> QED BY <1>1, <3>2, <3>3, <3>4, OneStream
  <2>1. stream' \in [Streams -> UploadStreams]
    BY <2>0
  <2>2. \A su \in Streams :
          /\ stream'[su].made = stream[su].made /\ stream'[su].active = stream[su].active
          /\ stream'[su].slots = stream[su].slots /\ stream'[su].free = stream[su].free
          /\ stream'[su].ready = stream[su].ready
          /\ stream'[su].current = stream[su].current
    BY <2>0
  <2>3. UploadTypes'
    BY <1>0, <1>2, <1>5, <2>1 DEF UploadTypes
  <2>4. Apart(stream)' /\ \A su \in Streams : Kept(stream[su], slot)'
    BY <1>5, <2>1, <2>2, StreamsAlike
  <2>5. DueInv' /\ DrawInv' /\ WriteInv'
    <3> DEFINE W == {}
    <3>1. \A u \in Pending' : u \in Pending /\ u.slot \notin W
      BY <1>4
    <3>2. \A r \in W : FALSE
      OBVIOUS
    <3> HIDE DEF W
    <3>3. DueInv'
      BY <1>5, <2>2, <3>1, DueBut
    <3>4. DrawInv'
      BY <1>0, <1>5, <2>2, <3>2, DrawBut
    <3>5. WriteInv'
      BY <1>0, <1>5, <2>2, <3>2, WriteBut
    <3> QED BY <3>3, <3>4, <3>5
  <2> QED BY <1>3, <2>3, <2>4, <2>5
<1>6. CASE Makes
  <2> DEFINE s == CHOOSE s \in Slots : s \notin InUse
  <2>1. PICK bytes \in ActualBytes :
             /\ InUse # Slots /\ stream[st].active
             /\ stream' = [stream EXCEPT ![st].pending = @ - 1,
                                ![st].failed = FALSE, ![st].waiting = FALSE,
                                ![st].slots = @ \cup {s}, ![st].free = Append(@, s)]
             /\ slot' = [slot EXCEPT ![s] = NewSlot(bytes)]
    BY <1>6
  <2>2. InUse \subseteq Slots
    BY DEF InUse, UploadTypes, UploadStreams
  <2>3. s \in Slots /\ s \notin InUse
    BY <2>1, <2>2
  <2>4. \A su \in Streams : s \notin stream[su].slots
    BY <2>3 DEF InUse
  <2> HIDE DEF s
  <2> DEFINE x == stream[st]  y == stream'[st]
  <2>5. /\ y.made = x.made /\ y.active = x.active /\ y.slots = x.slots \cup {s}
        /\ y.free = Append(x.free, s) /\ y.ready = x.ready /\ y.current = x.current
        /\ \A su \in Streams \ {st} : stream'[su] = stream[su]
        /\ stream' \in [Streams -> UploadStreams]
    <3> DEFINE v == x.pending - 1  owned == x.slots \cup {s}  free == Append(x.free, s)
               z == [x EXCEPT !.pending = v, !.failed = FALSE, !.waiting = FALSE,
                              !.slots = owned, !.free = free]
    <3>1. /\ x \in UploadStreams /\ v \in Int /\ owned \in SUBSET Slots /\ free \in Seq(Slots)
      BY <1>1, <2>3 DEF UploadTypes, UploadStreams
    <3>2. stream' = [stream EXCEPT ![st] = z]
      BY <2>1
    <3> HIDE DEF v, x, owned, free
    <3>3. /\ z \in UploadStreams /\ z.made = x.made /\ z.active = x.active
          /\ z.slots = owned /\ z.free = free /\ z.ready = x.ready /\ z.current = x.current
      BY <3>1 DEF UploadStreams
    <3> HIDE DEF z
    <3>4. /\ y = z /\ stream' \in [Streams -> UploadStreams]
          /\ \A su \in Streams \ {st} : stream'[su] = stream[su]
      BY <1>1, <3>2, <3>3, OneStream
    <3> QED BY <3>3, <3>4 DEF owned, free
  <2>6. slot'[s] = NewSlot(bytes) /\ \A r \in Slots \ {s} : slot'[r] = slot[r]
    BY <2>1, <2>3 DEF UploadTypes
  <2>7. bytes \in Int
    BY BudgetAssumption
  <2>8. slot' \in [Slots -> UploadSlots]
    <3>1. NewSlot(bytes) \in UploadSlots
      BY <2>7 DEF NewSlot, UploadSlots, States
    <3> QED BY <2>1, <3>1 DEF UploadTypes
  <2>9. stream' \in [Streams -> UploadStreams]
    BY <2>5
  <2>10. UploadTypes'
    BY <1>0, <1>2, <2>8, <2>9 DEF UploadTypes
  <2>11. Apart(stream)'
    BY <1>1, <2>4, <2>5 DEF Apart
  <2>12. Kept(y, slot')
    <3>1. Kept(x, slot) /\ x.free \in Seq(Slots) /\ x.made
      BY <1>1, <2>1 DEF UploadTypes, UploadStreams, Kept
    <3>2. \A r \in x.slots : r \in y.slots /\ slot'[r] = slot[r]
      BY <1>1, <2>4, <2>5, <2>6 DEF UploadTypes, UploadStreams
    <3>3. /\ Holds(x.free, y.slots, slot', "free") /\ Holds(x.ready, y.slots, slot', "ready")
          /\ s \notin Range(x.free)
      BY <1>1, <2>4, <3>1, <3>2 DEF Kept, Holds, Range
    <3>4. slot'[s].state = "free" /\ s \in y.slots
      BY <2>5, <2>6 DEF NewSlot
    <3>5. Holds(Append(x.free, s), y.slots, slot', "free")
      BY <2>3, <3>1, <3>3, <3>4, HeldMore
    <3>6. x.current # s
      BY <1>1, <2>3, <2>4, <3>1, NoSlot DEF Kept
    <3> QED BY <2>5, <3>1, <3>2, <3>3, <3>4, <3>5, <3>6 DEF Kept
  <2>13. \A su \in Streams : Kept(stream'[su], slot')
    <3> DEFINE W == {s}
    <3>1. /\ \A su \in Streams \ {st} : stream'[su] = stream[su] /\ W \cap stream[su].slots = {}
          /\ \A r \in Slots \ W : slot'[r] = slot[r]
      BY <2>4, <2>5, <2>6
    <3> HIDE DEF W
    <3> QED BY <1>1, <2>12, <3>1, KeptBut
  <2>14. \A u \in Pending : u.slot # s
    BY <2>3, <2>4, PendingTasks, NoSlot DEF DueInv, Due
  <2>15. ~gpu[s] /\ lease[s] # "writing"
    BY <2>3, <2>4 DEF DrawInv, WriteInv
  <2>16. DueInv' /\ DrawInv' /\ WriteInv'
    <3> DEFINE W == {s}
    <3>1. \A u \in Pending' : u \in Pending /\ u.slot \notin W
      BY <1>4, <2>14
    <3>2. \A su \in Streams : /\ stream[su].slots \subseteq stream'[su].slots
                              /\ stream'[su].current = stream[su].current
                              /\ stream'[su].made = stream[su].made
                              /\ stream'[su].active = stream[su].active
      BY <2>5
    <3>3. \A r \in Slots \ W : slot'[r] = slot[r]
      BY <2>6
    <3>4. \A r \in W : ~gpu[r] /\ lease'[r] # "writing"
      BY <1>0, <2>15
    <3>8. \A r \in W : lease'[r] # "writing"
      BY <3>4
    <3>9. \A su \in Streams : stream[su].slots \subseteq stream'[su].slots
      BY <3>2
    <3>10. \A r \in Slots \ W : slot'[r].state = slot[r].state /\ lease'[r] = lease[r]
      BY <1>0, <3>3
    <3> HIDE DEF W
    <3>5. DueInv'
      BY <3>1, <3>2, <3>3, DueBut
    <3>6. DrawInv'
      BY <1>0, <3>2, <3>3, <3>4, DrawBut
    <3>7. WriteInv'
      BY <3>8, <3>9, <3>10, WriteBut
    <3> QED BY <3>5, <3>6, <3>7
  <2> QED BY <1>3, <2>10, <2>11, <2>13, <2>16
<1> QED BY <1>5, <1>6, <1>7

\* What is left to do is on other slots than the task taken, or new.
LEMMA Remaining ==
    ASSUME UploadInv, tasks \o delayed # <<>>, NextTask.slot # None, NEW N,
           About(tasks') \cup About(delayed') \subseteq
             ((About(tasks) \cup About(delayed)) \ {NextTask}) \cup N,
           Range(tasks') \subseteq Range(tasks) \cup N,
           Range(delayed') \subseteq Range(delayed) \cup N,
           Hand' = Hand, Posted' = Posted
    PROVE  \A u \in Pending' : u \in N \/ (u \in Pending /\ u.slot # NextTask.slot)
<1> SUFFICES ASSUME NEW u \in Pending', u \notin N
             PROVE  u \in Pending /\ u.slot # NextTask.slot
  OBVIOUS
<1>1. u \in Pending /\ u \in Range(tasks') \cup Range(delayed') \cup Hand \cup Posted
  BY DEF Pending
<1>2. CASE u.slot = None
  BY <1>1, <1>2
<1>3. CASE u.slot # None
  <2>1. u \in ((About(tasks) \cup About(delayed)) \ {NextTask}) \cup Hand \cup Posted
    BY <1>1, <1>3 DEF About
  <2> QED BY <1>1, <2>1, Alone DEF UploadInv
<1> QED BY <1>2, <1>3

LEMMA BeginUploadKeeps ==
    ASSUME UploadInv, BeginUpload
    PROVE  UploadInv'
<1>t. PICK t : t = NextTask
  OBVIOUS
<1> DEFINE s == t.slot  st == t.stream
<1>0. /\ UploadTypes /\ Apart(stream) /\ \A su \in Streams : Kept(stream[su], slot)
      /\ DueInv /\ PlacesInv /\ OnceInv /\ DrawInv /\ WriteInv
  BY DEF UploadInv
<1>1. /\ tasks \o delayed # <<>> /\ t.type = "upload" /\ working = None
      /\ UNCHANGED <<stream, posts, lease, rendering, fence, gpu>>
  BY <1>t DEF BeginUpload, IsNext, Idle, render
<1>2. t \in Tasks /\ t \in Range(tasks) \cup Range(delayed) /\ t \in Pending /\ s # None
  <2>1. t \in Tasks /\ t \in Range(tasks) \cup Range(delayed)
    BY <1>0, <1>1, <1>t, Nexts
  <2> QED BY <1>0, <1>1, <2>1, PendingTasks DEF Pending
<1>3. /\ st \in Streams /\ s \in Slots /\ s \in stream[st].slots /\ slot[s].state = "queued"
      /\ lease[s] # "writing" /\ ~gpu[s]
  BY <1>1, <1>2, SlotOfTask
<1>4. slot[s] \in UploadSlots /\ Kept(stream[st], slot)
  BY <1>0, <1>3 DEF UploadTypes
<1>5. Hand = {} /\ Posted' = Posted
  BY <1>1 DEF Hand, Posted
<1>6. \/ stream[st].active /\ Take(<<>>, <<>>) /\ working' = t
         /\ slot' = [slot EXCEPT ![s].gl = FALSE]
      \/ Take(<<Task("reclaim", st, s)>>, <<>>) /\ UNCHANGED working
         /\ slot' = [slot EXCEPT ![s].state = "reclaim"]
  BY <1>t DEF BeginUpload
<1> HIDE DEF st, s
<1>7. CASE stream[st].active /\ Take(<<>>, <<>>) /\ working' = t
           /\ slot' = [slot EXCEPT ![s].gl = FALSE]
  <2>1. /\ slot' \in [Slots -> UploadSlots] /\ slot'[s].state = "queued"
        /\ \A r \in Slots \ {s} : slot'[r] = slot[r]
    BY <1>0, <1>3, <1>4, <1>7 DEF UploadTypes, UploadSlots
  <2>2. /\ tasks' \in Seq(Tasks) /\ delayed' \in Seq(Tasks) /\ Apiece(tasks', delayed')
        /\ About(tasks') \cup About(delayed') = (About(tasks) \cup About(delayed)) \ {t}
        /\ Range(tasks') \subseteq Range(tasks) /\ Range(delayed') \subseteq Range(delayed)
    BY <1>0, <1>1, <1>7, <1>t, TakeOne
  <2>3. UploadTypes'
    BY <1>0, <1>1, <1>2, <1>7, <2>1, <2>2 DEF UploadTypes
  <2>4. Hand' = {t} /\ t # None
    BY <1>1, <1>7, <1>2, TransfersAssumption DEF Hand
  <2>5. Pending' \subseteq Pending
    BY <1>2, <1>5, <2>2, <2>4 DEF Pending
  <2>6. PlacesInv'
    BY <1>0, <1>1, <1>7, <2>2, <2>4 DEF PlacesInv
  <2>7. OnceInv'
    <3>1. t \in About(tasks) \cup About(delayed)
      BY <1>2 DEF About, s
    <3>2. \A su \in Streams, th \in Threads :
            /\ Once(posts[su][th])
            /\ About(posts[su][th]) \cap (About(tasks') \cup About(delayed') \cup {t}) = {}
      BY <1>0, <2>2, <3>1 DEF OnceInv
    <3>3. {t} \cap (About(tasks') \cup About(delayed')) = {}
      BY <2>2
    <3> QED BY <1>1, <2>2, <2>4, <3>2, <3>3 DEF OnceInv
  <2>8. Kept(stream[st], slot')
    <3> DEFINE x == stream[st]
    <3>1. /\ \A r \in x.slots \ {s} : slot'[r] = slot[r]
          /\ Kept(x, slot) /\ slot[s].state = "queued" /\ slot'[s].state = "queued"
      BY <1>0, <1>3, <2>1 DEF UploadTypes, UploadStreams
    <3> HIDE DEF x
    <3>2. Holds(x.free, x.slots, slot', "free") /\ Holds(x.ready, x.slots, slot', "ready")
      BY <3>1, HeldWithout DEF Kept
    <3> QED BY <1>3, <3>1, <3>2, KeptMoves DEF x
  <2>9. \A u \in Pending' : Due(u)' \/ (u \in Pending /\ u.slot # s)
    <3> SUFFICES ASSUME NEW u \in Pending, u.slot = s PROVE Due(u)'
      BY <2>5
    <3>1. u = t
      BY <1>0, <1>2, OneTask DEF s
    <3>2. Due(t)
      BY <1>0, <1>2 DEF DueInv
    <3> QED BY <1>1, <1>3, <2>1, <3>1, <3>2 DEF Due, s
  <2>10. /\ Apart(stream)' /\ \A su \in Streams : Kept(stream[su], slot)'
         /\ DueInv' /\ DrawInv' /\ WriteInv'
    <3>1. /\ stream'[st].made = stream[st].made /\ stream'[st].active = stream[st].active
          /\ stream'[st].slots = stream[st].slots /\ stream'[st].current = stream[st].current
          /\ \A su \in Streams \ {st} : stream'[su] = stream[su]
          /\ Kept(stream'[st], slot')
          /\ \A r \in Slots \ {s} : slot'[r] = slot[r] /\ fence'[r] = fence[r] /\ lease'[r] = lease[r]
          /\ lease'[s] = "writing" => slot'[s].state = "cpu_writing"
      BY <1>1, <1>3, <2>1, <2>8
    <3> QED BY <1>1, <1>3, <2>9, <3>1, OneSlot
  <2> QED BY <2>3, <2>6, <2>7, <2>10 DEF UploadInv
<1> DEFINE back == Task("reclaim", st, s)
<1>8. CASE Take(<<back>>, <<>>) /\ UNCHANGED working /\ slot' = [slot EXCEPT ![s].state = "reclaim"]
  <2>1. /\ slot' \in [Slots -> UploadSlots] /\ slot'[s].state = "reclaim"
        /\ \A r \in Slots \ {s} : slot'[r] = slot[r]
    BY <1>0, <1>3, <1>4, <1>8 DEF UploadTypes, UploadSlots, States
  <2>2. back \in Tasks /\ back.slot = s /\ back.type = "reclaim" /\ back.stream = st
    BY <1>3 DEF Tasks, Task
  <2> HIDE DEF back
  <2>3. back \notin Pending
    BY <1>0, <1>1, <1>2, <2>2, OneTask DEF s
  <2>4. back \notin About(tasks) \cup About(delayed)
    BY <1>0, <2>3, PendingTasks
  <2>5. /\ tasks' \in Seq(Tasks) /\ delayed' \in Seq(Tasks) /\ Apiece(tasks', delayed')
        /\ About(tasks') \cup About(delayed') \subseteq
             ((About(tasks) \cup About(delayed)) \ {t}) \cup {back}
        /\ Range(tasks') \subseteq Range(tasks) \cup {back}
        /\ Range(delayed') \subseteq Range(delayed)
    BY <1>0, <1>1, <1>8, <2>2, <2>4, <1>t, TakeAndPost
  <2>6. OnceInv' /\ PlacesInv' /\ Hand' = Hand /\ Posted' = Posted
    <3> DEFINE N == {back}
    <3>1. About(tasks') \cup About(delayed') \subseteq About(tasks) \cup About(delayed) \cup N
      BY <2>5
    <3>2. N \cap (Hand \cup Posted) = {}
      BY <2>3 DEF Pending
    <3>3. \A u \in Range(delayed') : u.type # "upload"
      BY <1>0, <2>5 DEF PlacesInv
    <3> HIDE DEF N
    <3> QED BY <1>0, <1>1, <1>8, <2>5, <3>1, <3>2, <3>3, QueuesStep
  <2>7. UploadTypes'
    BY <1>0, <1>1, <1>8, <2>1, <2>5 DEF UploadTypes
  <2>8. \A u \in Pending' : u = back \/ (u \in Pending /\ u.slot # s)
    <3> DEFINE N == {back}
    <3>1. /\ About(tasks') \cup About(delayed') \subseteq
               ((About(tasks) \cup About(delayed)) \ {NextTask}) \cup N
          /\ Range(tasks') \subseteq Range(tasks) \cup N
          /\ Range(delayed') \subseteq Range(delayed) \cup N
      BY <1>t, <2>5
    <3>2. \A u \in N : u = back
      OBVIOUS
    <3> HIDE DEF N
    <3>3. \A u \in Pending' : u \in N \/ (u \in Pending /\ u.slot # NextTask.slot)
      BY <1>1, <1>2, <2>6, <3>1, <1>t, Remaining DEF s
    <3> QED BY <1>t, <3>2, <3>3 DEF s
  <2>9. Due(back)'
    BY <1>1, <1>3, <2>1, <2>2 DEF Due
  <2>10. Kept(stream[st], slot')
    <3> DEFINE x == stream[st]
    <3>1. /\ \A r \in x.slots \ {s} : slot'[r] = slot[r]
          /\ Kept(x, slot) /\ slot[s].state = "queued" /\ slot'[s].state = "reclaim"
      BY <1>0, <1>3, <2>1 DEF UploadTypes, UploadStreams
    <3> HIDE DEF x
    <3>2. Holds(x.free, x.slots, slot', "free") /\ Holds(x.ready, x.slots, slot', "ready")
      BY <3>1, HeldWithout DEF Kept
    <3> QED BY <1>3, <3>1, <3>2, KeptMoves DEF x
  <2>11. /\ Apart(stream)' /\ \A su \in Streams : Kept(stream[su], slot)'
         /\ DueInv' /\ DrawInv' /\ WriteInv'
    <3>1. /\ stream'[st].made = stream[st].made /\ stream'[st].active = stream[st].active
          /\ stream'[st].slots = stream[st].slots /\ stream'[st].current = stream[st].current
          /\ \A su \in Streams \ {st} : stream'[su] = stream[su]
          /\ Kept(stream'[st], slot')
          /\ \A r \in Slots \ {s} : slot'[r] = slot[r] /\ fence'[r] = fence[r] /\ lease'[r] = lease[r]
          /\ lease'[s] = "writing" => slot'[s].state = "cpu_writing"
      BY <1>1, <1>3, <2>1, <2>10
    <3> QED BY <1>1, <1>3, <2>8, <2>9, <3>1, OneSlot
  <2> QED BY <2>6, <2>7, <2>11 DEF UploadInv
<1> QED BY <1>6, <1>7, <1>8

LEMMA Enqueueing ==
    ASSUME UploadTypes, NEW t \in Tasks, tasks' = Enqueued(tasks, <<t>>),
           Once(tasks), t \notin About(tasks)
    PROVE  /\ tasks' \in Seq(Tasks) /\ Once(tasks')
           /\ About(tasks') \subseteq About(tasks) \cup {t}
           /\ Range(tasks') \subseteq Range(tasks) \cup {t}
<1>1. CASE tasks' = tasks
  BY <1>1 DEF UploadTypes
<1>2. CASE Extends(tasks', tasks, t)
  <2>1. tasks \in Seq(Tasks)
    BY DEF UploadTypes
  <2>2. /\ tasks' \in Seq(Tasks) /\ Once(tasks')
        /\ \A u : u \in Range(tasks') <=> u \in Range(tasks) \/ u = t
        /\ \A u : u \in About(tasks') <=> u \in About(tasks) \/ (u = t /\ t.slot # None)
    BY <1>2, <2>1, Adding
  <2> QED BY <2>2
<1>3. tasks' = tasks \/ Extends(tasks', tasks, t)
  BY DEF Enqueued, Extends, UploadTypes
<1> QED BY <1>1, <1>2, <1>3

LEMMA FinishUploadKeeps ==
    ASSUME UploadInv, NEW success \in BOOLEAN, FinishUpload(success)
    PROVE  UploadInv'
<1>t. PICK t : t = working
  OBVIOUS
<1> DEFINE s == t.slot  st == t.stream  x == stream[st]
<1>0. /\ UploadTypes /\ Apart(stream) /\ \A su \in Streams : Kept(stream[su], slot)
      /\ DueInv /\ PlacesInv /\ OnceInv /\ DrawInv /\ WriteInv
  BY DEF UploadInv
<1>1. /\ t # None /\ working' = None
      /\ UNCHANGED <<delayed, posts, lease, rendering, fence, gpu>>
  BY <1>t DEF FinishUpload, render
<1>2. t \in Tasks /\ t \in Pending /\ s # None /\ t.type = "upload" /\ Hand = {t} /\ Hand' = {}
  <2>1. Hand = {t} /\ Hand' = {} /\ t.type = "upload"
    BY <1>t, <1>0, <1>1 DEF Hand, PlacesInv
  <2> QED BY <1>0, <2>1, PendingTasks DEF Pending
<1>3. /\ st \in Streams /\ s \in Slots /\ s \in stream[st].slots /\ slot[s].state = "queued"
      /\ lease[s] # "writing" /\ ~gpu[s]
  BY <1>2, SlotOfTask
<1>4. slot[s] \in UploadSlots /\ x \in UploadStreams /\ Kept(x, slot) /\ x.made
  <2>1. slot[s] \in UploadSlots /\ x \in UploadStreams /\ Kept(x, slot)
    BY <1>0, <1>3 DEF UploadTypes
  <2> QED BY <1>3, <2>1 DEF Kept
<1>5. Posted' = Posted
  BY <1>1 DEF Posted
<1>6. \/ /\ slot' = [slot EXCEPT ![s].state = "ready", ![s].gl = TRUE]
         /\ stream' = [stream EXCEPT ![st].ready = Append(@, s)]
         /\ UNCHANGED tasks
      \/ /\ slot' = [slot EXCEPT ![s].state = "reclaim", ![s].gl = success]
         /\ tasks' = Enqueued(tasks, <<Task("reclaim", st, s)>>)
         /\ UNCHANGED stream
  BY <1>t DEF FinishUpload
<1> HIDE DEF st, s
<1>7. \A u \in Range(tasks) \cup Range(delayed) \cup Posted : u \in Pending /\ u.slot # s
  <2> SUFFICES ASSUME NEW u \in Range(tasks) \cup Range(delayed) \cup Posted, u.slot = s
               PROVE  FALSE
    BY DEF Pending
  <2>1. u = t
    BY <1>0, <1>2, OneTask DEF s, Pending
  <2>2. t \in Range(tasks) \cup Range(delayed) =>
          t \in About(tasks) \cup About(delayed)
    BY <1>2 DEF About, s
  <2>3. t \in Posted => \E su \in Streams, th \in Threads : t \in About(posts[su][th])
    BY <1>2 DEF Posted, About, s
  <2> QED BY <1>0, <1>2, <2>1, <2>2, <2>3 DEF OnceInv
<1>8. CASE /\ slot' = [slot EXCEPT ![s].state = "ready", ![s].gl = TRUE]
           /\ stream' = [stream EXCEPT ![st].ready = Append(@, s)]
           /\ UNCHANGED tasks
  <2>1. /\ slot' \in [Slots -> UploadSlots] /\ slot'[s].state = "ready" /\ slot'[s].gl
        /\ \A r \in Slots \ {s} : slot'[r] = slot[r]
    BY <1>0, <1>3, <1>4, <1>8 DEF UploadTypes, UploadSlots, States
  <2> DEFINE q == Append(x.ready, s)  y == [x EXCEPT !.ready = q]
  <2>2. x.ready \in Seq(Slots) /\ Extends(q, x.ready, s) /\ stream' = [stream EXCEPT ![st] = y]
    BY <1>4, <1>8 DEF UploadStreams, Extends
  <2> HIDE DEF q
  <2>3. Holds(x.ready, x.slots, slot, "ready") /\ Holds(x.free, x.slots, slot, "free")
    BY <1>4 DEF Kept
  <2>4. \A r \in x.slots \ {s} : slot'[r] = slot[r]
    BY <1>4, <2>1 DEF UploadStreams
  <2> HIDE DEF x
  <2>5. q \in Seq(Slots) /\ Holds(q, x.slots, slot', "ready")
    <3>1. s \in x.slots
      BY <1>3 DEF x
    <3> QED BY <1>3, <2>1, <2>2, <2>3, <2>4, <3>1, HeldJoin, SMTT(30)
  <2>6. /\ y \in UploadStreams /\ y.made = x.made /\ y.active = x.active /\ y.slots = x.slots
        /\ y.current = x.current /\ y.ready = q /\ y.free = x.free
    BY <1>4, <2>5 DEF UploadStreams
  <2> HIDE DEF y
  <2>7. /\ stream' \in [Streams -> UploadStreams] /\ stream'[st] = y
        /\ \A su \in Streams \ {st} : stream'[su] = stream[su]
    BY <1>0, <1>3, <2>2, <2>6, OneStream
  <2>8. UploadTypes'
    BY <1>0, <1>1, <1>8, <2>1, <2>7 DEF UploadTypes
  <2>9. Kept(y, slot')
    <3>1. Holds(x.free, x.slots, slot', "free")
      BY <1>3, <2>3, <2>4, HeldWithout
    <3> QED BY <1>3, <1>4, <2>1, <2>4, <2>5, <2>6, <3>1, KeptMoves DEF x
  <2>10. \A u \in Pending' : u \in Pending /\ u.slot # s
    BY <1>1, <1>2, <1>5, <1>7, <1>8 DEF Pending
  <2>11. OnceInv' /\ PlacesInv'
    BY <1>0, <1>1, <1>2, <1>8 DEF OnceInv, PlacesInv
  <2>12. /\ Apart(stream)' /\ \A su \in Streams : Kept(stream[su], slot)'
         /\ DueInv' /\ DrawInv' /\ WriteInv'
    <3>1. /\ stream'[st].made = stream[st].made /\ stream'[st].active = stream[st].active
          /\ stream'[st].slots = stream[st].slots /\ stream'[st].current = stream[st].current
          /\ \A su \in Streams \ {st} : stream'[su] = stream[su]
          /\ Kept(stream'[st], slot')
          /\ \A r \in Slots \ {s} : slot'[r] = slot[r] /\ fence'[r] = fence[r] /\ lease'[r] = lease[r]
          /\ lease'[s] = "writing" => slot'[s].state = "cpu_writing"
      BY <1>1, <1>3, <2>1, <2>6, <2>7, <2>9 DEF x
    <3> QED BY <1>1, <1>3, <2>10, <3>1, OneSlot
  <2> QED BY <2>8, <2>11, <2>12 DEF UploadInv
<1> DEFINE back == Task("reclaim", st, s)
<1>9. CASE /\ slot' = [slot EXCEPT ![s].state = "reclaim", ![s].gl = success]
           /\ tasks' = Enqueued(tasks, <<back>>)
           /\ UNCHANGED stream
  <2>1. /\ slot' \in [Slots -> UploadSlots] /\ slot'[s].state = "reclaim"
        /\ \A r \in Slots \ {s} : slot'[r] = slot[r]
    BY <1>0, <1>3, <1>4, <1>9 DEF UploadTypes, UploadSlots, States
  <2>2. back \in Tasks /\ back.slot = s /\ back.type = "reclaim" /\ back.stream = st
    BY <1>3 DEF Tasks, Task
  <2>3. tasks' = Enqueued(tasks, <<back>>)
    BY <1>9
  <2> HIDE DEF back
  <2>4. back \notin Pending
    BY <1>0, <1>2, <2>2, OneTask DEF s
  <2>5. back \notin About(tasks) \cup About(delayed)
    BY <1>0, <2>4, PendingTasks
  <2>6. /\ tasks' \in Seq(Tasks) /\ Once(tasks')
        /\ About(tasks') \subseteq About(tasks) \cup {back}
        /\ Range(tasks') \subseteq Range(tasks) \cup {back}
    BY <1>0, <2>2, <2>3, <2>5, Enqueueing DEF OnceInv, Apiece
  <2>7. UploadTypes'
    BY <1>0, <1>1, <1>9, <2>1, <2>6 DEF UploadTypes
  <2>8. OnceInv'
    <3>1. Apiece(tasks', delayed')
      BY <1>0, <1>1, <2>5, <2>6 DEF OnceInv, Apiece
    <3>2. ASSUME NEW su \in Streams, NEW th \in Threads
          PROVE  /\ Once(posts[su][th])
                 /\ About(posts[su][th]) \cap (About(tasks') \cup About(delayed)) = {}
      <4>1. back \notin About(posts[su][th])
        BY <2>4 DEF Pending, Posted, About
      <4> QED BY <1>0, <2>6, <4>1 DEF OnceInv
    <3> QED BY <1>1, <1>2, <3>1, <3>2 DEF OnceInv
  <2>9. PlacesInv'
    BY <1>0, <1>1 DEF PlacesInv
  <2>10. \A u \in Pending' : u = back \/ (u \in Pending /\ u.slot # s)
    BY <1>1, <1>2, <1>5, <1>7, <2>6 DEF Pending
  <2>11. Due(back)'
    BY <1>3, <1>9, <2>1, <2>2 DEF Due
  <2>12. Kept(x, slot')
    <3>1. \A r \in x.slots \ {s} : slot'[r] = slot[r]
      BY <1>4, <2>1 DEF UploadStreams
    <3>2. Kept(x, slot) /\ s \in x.slots
      BY <1>3, <1>4
    <3> HIDE DEF x
    <3>3. Holds(x.free, x.slots, slot', "free") /\ Holds(x.ready, x.slots, slot', "ready")
      BY <1>3, <3>1, <3>2, HeldWithout DEF Kept
    <3> QED BY <1>3, <2>1, <3>1, <3>2, <3>3, KeptMoves
  <2>13. /\ Apart(stream)' /\ \A su \in Streams : Kept(stream[su], slot)'
         /\ DueInv' /\ DrawInv' /\ WriteInv'
    <3>1. /\ stream'[st].made = stream[st].made /\ stream'[st].active = stream[st].active
          /\ stream'[st].slots = stream[st].slots /\ stream'[st].current = stream[st].current
          /\ \A su \in Streams \ {st} : stream'[su] = stream[su]
          /\ Kept(stream'[st], slot')
          /\ \A r \in Slots \ {s} : slot'[r] = slot[r] /\ fence'[r] = fence[r] /\ lease'[r] = lease[r]
          /\ lease'[s] = "writing" => slot'[s].state = "cpu_writing"
      BY <1>1, <1>3, <1>9, <2>1, <2>12
    <3> QED BY <1>1, <1>3, <2>10, <2>11, <3>1, OneSlot
  <2> QED BY <2>7, <2>8, <2>9, <2>13 DEF UploadInv
<1> QED BY <1>6, <1>8, <1>9

\* Only the queues change, and not what they are about.
LEMMA QueuesOnly ==
    ASSUME UploadInv, UNCHANGED <<stream, slot, lease, rendering, fence, gpu>>,
           Pending' \subseteq Pending
    PROVE  /\ Apart(stream)' /\ \A su \in Streams : Kept(stream[su], slot)'
           /\ DueInv' /\ DrawInv' /\ WriteInv'
<1> DEFINE W == {}
<1>0. UploadTypes /\ DueInv
  BY DEF UploadInv
<1>1. \A u \in Pending' : Due(u)' \/ (u \in Pending /\ u.slot \notin W)
  OBVIOUS
<1> HIDE DEF W
<1>2. DueInv'
  BY <1>0, <1>1, DueBut
<1> QED BY <1>2 DEF UploadInv, Apart, Kept, DrawInv, WriteInv

\* A task that is tried again later.
LEMMA RetryKeeps ==
    ASSUME UploadInv, tasks \o delayed # <<>>, NextTask.type # "upload",
           Take(<<>>, <<NextTask>>),
           UNCHANGED <<stream, slot, working, posts, lease, rendering, fence, gpu>>
    PROVE  UploadInv'
<1>0. /\ UploadTypes /\ Apart(stream) /\ \A su \in Streams : Kept(stream[su], slot)
      /\ DueInv /\ PlacesInv /\ OnceInv /\ DrawInv /\ WriteInv
  BY DEF UploadInv
<1>1. /\ tasks' \in Seq(Tasks) /\ delayed' \in Seq(Tasks) /\ Apiece(tasks', delayed')
      /\ About(tasks') \cup About(delayed') = About(tasks) \cup About(delayed)
      /\ Range(tasks') \subseteq Range(tasks)
      /\ Range(delayed') \subseteq Range(delayed) \cup {NextTask}
  BY <1>0, TakeAndKeep
<1>2. OnceInv' /\ PlacesInv' /\ Hand' = Hand /\ Posted' = Posted
  <2> DEFINE N == {}
  <2>1. /\ About(tasks') \cup About(delayed') \subseteq About(tasks) \cup About(delayed) \cup N
        /\ N \cap (Hand \cup Posted) = {}
        /\ \A t \in Range(delayed') : t.type # "upload"
    BY <1>0, <1>1 DEF PlacesInv
  <2> HIDE DEF N
  <2> QED BY <1>0, <1>1, <2>1, QueuesStep
<1>3. Pending' \subseteq Pending
  BY <1>0, <1>1, <1>2, Nexts DEF Pending
<1>4. UploadTypes'
  BY <1>0, <1>1 DEF UploadTypes
<1>5. /\ Apart(stream)' /\ \A su \in Streams : Kept(stream[su], slot)'
      /\ DueInv' /\ DrawInv' /\ WriteInv'
  BY <1>3, QueuesOnly
<1> QED BY <1>2, <1>4, <1>5 DEF UploadInv

LEMMA ReclaimKeeps ==
    ASSUME UploadInv, ReclaimSlot
    PROVE  UploadInv'
<1>t. PICK t : t = NextTask
  OBVIOUS
<1> DEFINE s == t.slot  st == t.stream  x == stream[st]
<1>0. /\ UploadTypes /\ Apart(stream) /\ \A su \in Streams : Kept(stream[su], slot)
      /\ DueInv /\ PlacesInv /\ OnceInv /\ DrawInv /\ WriteInv
  BY DEF UploadInv
<1>1. /\ tasks \o delayed # <<>> /\ t.type = "reclaim"
      /\ UNCHANGED <<working, posts, lease, rendering, gpu>>
  BY <1>t DEF ReclaimSlot, Reclaiming, IsNext
<1>2. t \in Tasks /\ t \in Pending /\ s # None
  <2>1. t \in Tasks /\ t \in Range(tasks) \cup Range(delayed)
    BY <1>0, <1>1, <1>t, Nexts
  <2> QED BY <1>0, <1>1, <2>1, PendingTasks DEF Pending
<1>3. /\ st \in Streams /\ s \in Slots /\ s \in x.slots /\ slot[s].state = "reclaim"
      /\ lease[s] # "writing" /\ (gpu[s] => fence[s])
  BY <1>1, <1>2, SlotOfTask
<1>4. slot[s] \in UploadSlots /\ x \in UploadStreams /\ Kept(x, slot)
  BY <1>0, <1>3 DEF UploadTypes
<1>5. \/ /\ Take(<<>>, <<t>>) /\ UNCHANGED <<stream, slot, fence>>
      \/ /\ Take(<<>>, <<>>) /\ (fence[s] => ~gpu[s])
         /\ fence' = [fence EXCEPT ![s] = FALSE]
         /\ slot' = [slot EXCEPT ![s].state = "free"]
         /\ stream' = IF stream[st].active
                        THEN [stream EXCEPT ![st].free = Append(@, s)]
                        ELSE stream
  BY <1>t DEF ReclaimSlot, Reclaiming
<1>6. CASE Take(<<>>, <<t>>) /\ UNCHANGED <<stream, slot, fence>>
  BY <1>1, <1>6, <1>t, RetryKeeps
<1>7. CASE /\ Take(<<>>, <<>>) /\ (fence[s] => ~gpu[s])
           /\ fence' = [fence EXCEPT ![s] = FALSE]
           /\ slot' = [slot EXCEPT ![s].state = "free"]
           /\ stream' = IF stream[st].active
                          THEN [stream EXCEPT ![st].free = Append(@, s)]
                          ELSE stream
  <2>1. /\ slot' \in [Slots -> UploadSlots] /\ slot'[s].state = "free"
        /\ \A r \in Slots \ {s} : slot'[r] = slot[r]
        /\ fence' \in [Slots -> BOOLEAN] /\ \A r \in Slots \ {s} : fence'[r] = fence[r]
    BY <1>0, <1>3, <1>4, <1>7 DEF UploadTypes, UploadSlots, States
  <2> DEFINE q == IF x.active THEN Append(x.free, s) ELSE x.free
             y == [x EXCEPT !.free = q]
  <2>2. x.free \in Seq(Slots) /\ (q = x.free \/ Extends(q, x.free, s))
    BY <1>4 DEF UploadStreams, Extends
  <2>3. stream' = [stream EXCEPT ![st] = y] \/ (stream' = stream /\ q = x.free)
    BY <1>7
  <2> HIDE DEF q
  <2>4. Holds(x.ready, x.slots, slot, "ready") /\ Holds(x.free, x.slots, slot, "free")
    BY <1>4 DEF Kept
  <2>5. \A r \in x.slots \ {s} : slot'[r] = slot[r]
    BY <1>4, <2>1 DEF UploadStreams
  <2> HIDE DEF x
  <2>6. q \in Seq(Slots) /\ Holds(q, x.slots, slot', "free")
    <3>1. CASE q = x.free
      <4>1. Holds(x.free, x.slots, slot', "free")
        BY <1>3, <2>4, <2>5, HeldWithout
      <4> QED BY <2>2, <3>1, <4>1
    <3>2. CASE Extends(q, x.free, s)
      <4>1. /\ s \in x.slots /\ s \in Slots /\ slot[s].state # "free" /\ slot'[s].state = "free"
            /\ x.free \in Seq(Slots) /\ Holds(x.free, x.slots, slot, "free")
        BY <1>3, <2>1, <2>2, <2>4
      <4> QED BY <4>1, <2>5, <3>2, HeldJoin
    <3> QED BY <2>2, <3>1, <3>2
  <2>7. /\ y \in UploadStreams /\ y.made = x.made /\ y.active = x.active /\ y.slots = x.slots
        /\ y.current = x.current /\ y.ready = x.ready /\ y.free = q
    BY <1>4, <2>6 DEF UploadStreams
  <2> HIDE DEF y
  <2>8. /\ stream' \in [Streams -> UploadStreams]
        /\ stream'[st].made = x.made /\ stream'[st].active = x.active
        /\ stream'[st].slots = x.slots /\ stream'[st].current = x.current
        /\ stream'[st].ready = x.ready /\ stream'[st].free = q
        /\ \A su \in Streams \ {st} : stream'[su] = stream[su]
    <3>1. CASE stream' = [stream EXCEPT ![st] = y]
      BY <1>0, <1>3, <2>7, <3>1, OneStream
    <3>2. CASE stream' = stream /\ q = x.free
      BY <1>0, <3>2 DEF UploadTypes, x
    <3> QED BY <2>3, <3>1, <3>2
  <2>9. Kept(stream'[st], slot')
    <3>1. Holds(x.ready, x.slots, slot', "ready")
      BY <1>3, <2>4, <2>5, HeldWithout
    <3> QED BY <1>3, <1>4, <2>1, <2>5, <2>6, <2>8, <3>1, KeptMoves
  <2>10. /\ tasks' \in Seq(Tasks) /\ delayed' \in Seq(Tasks) /\ Apiece(tasks', delayed')
         /\ About(tasks') \cup About(delayed') = (About(tasks) \cup About(delayed)) \ {t}
         /\ Range(tasks') \subseteq Range(tasks) /\ Range(delayed') \subseteq Range(delayed)
    BY <1>0, <1>1, <1>7, <1>t, TakeOne
  <2>11. UploadTypes'
    BY <1>0, <1>1, <2>1, <2>8, <2>10 DEF UploadTypes
  <2>12. /\ OnceInv' /\ PlacesInv' /\ Hand' = Hand /\ Posted' = Posted
         /\ \A u \in Pending' : u \in Pending /\ u.slot # s
    <3> DEFINE N == {}
    <3>1. /\ About(tasks') \cup About(delayed') \subseteq About(tasks) \cup About(delayed) \cup N
          /\ N \cap (Hand \cup Posted) = {}
          /\ \A u \in Range(delayed') : u.type # "upload"
      BY <1>0, <2>10 DEF PlacesInv
    <3>2. /\ About(tasks') \cup About(delayed') \subseteq
               ((About(tasks) \cup About(delayed)) \ {NextTask}) \cup N
          /\ Range(tasks') \subseteq Range(tasks) \cup N
          /\ Range(delayed') \subseteq Range(delayed) \cup N
      BY <2>10, <1>t
    <3>3. \A u : u \notin N
      OBVIOUS
    <3> HIDE DEF N
    <3>4. OnceInv' /\ PlacesInv' /\ Hand' = Hand /\ Posted' = Posted
      BY <1>0, <1>1, <2>10, <3>1, QueuesStep
    <3>5. \A u \in Pending' : u \in N \/ (u \in Pending /\ u.slot # NextTask.slot)
      BY <1>1, <1>2, <1>t, <3>2, <3>4, Remaining DEF s
    <3> QED BY <1>t, <3>3, <3>4, <3>5 DEF s
  <2>13. /\ Apart(stream)' /\ \A su \in Streams : Kept(stream[su], slot)'
         /\ DueInv' /\ DrawInv' /\ WriteInv'
    <3>1. /\ stream'[st].made = stream[st].made /\ stream'[st].active = stream[st].active
          /\ stream'[st].slots = stream[st].slots /\ stream'[st].current = stream[st].current
          /\ \A r \in Slots \ {s} : slot'[r] = slot[r] /\ fence'[r] = fence[r] /\ lease'[r] = lease[r]
          /\ lease'[s] = "writing" => slot'[s].state = "cpu_writing"
          /\ ~gpu[s] /\ s \in stream[st].slots
      BY <1>1, <1>3, <1>7, <2>1, <2>8 DEF x
    <3> QED BY <1>1, <1>3, <2>8, <2>9, <2>12, <3>1, OneSlot
  <2> QED BY <2>11, <2>12, <2>13 DEF UploadInv
<1> QED BY <1>5, <1>6, <1>7

LEMMA DestroyKeeps ==
    ASSUME UploadInv, DestroyStream
    PROVE  UploadInv'
<1>t. PICK t : t = NextTask
  OBVIOUS
<1> DEFINE st == t.stream  x == stream[st]
<1>0. /\ UploadTypes /\ Apart(stream) /\ \A su \in Streams : Kept(stream[su], slot)
      /\ DueInv /\ PlacesInv /\ OnceInv /\ DrawInv /\ WriteInv
  BY DEF UploadInv
<1>1. /\ tasks \o delayed # <<>> /\ t.type = "destroy_stream"
      /\ UNCHANGED <<slot, working, posts, lease, rendering, fence, gpu>>
  BY <1>t DEF DestroyStream, IsNext, render
<1>2. t \in Pending /\ t \in Tasks
  BY <1>0, <1>1, <1>t, Nexts DEF Pending
<1>3. st \in Streams /\ x.made /\ ~x.active /\ x \in UploadStreams /\ x.current = None
  <2>1. st \in Streams /\ Due(t)
    BY <1>0, <1>2, PendingTasks DEF DueInv
  <2> QED BY <1>0, <1>1, <2>1 DEF Due, UploadTypes, Kept
<1>4. \/ Take(<<>>, <<t>>) /\ UNCHANGED stream
      \/ /\ Take(<<>>, <<>>)
         /\ stream' = [stream EXCEPT ![st].slots = {}, ![st].free = <<>>,
                                      ![st].ready = <<>>, ![st].current = None]
         /\ \A s \in x.slots : slot[s].state \notin {"cpu_writing", "queued", "reclaim"}
  BY <1>t DEF DestroyStream
<1>5. CASE Take(<<>>, <<t>>) /\ UNCHANGED stream
  BY <1>1, <1>5, <1>t, RetryKeeps
<1>6. CASE /\ Take(<<>>, <<>>)
           /\ stream' = [stream EXCEPT ![st].slots = {}, ![st].free = <<>>,
                                       ![st].ready = <<>>, ![st].current = None]
           /\ \A s \in x.slots : slot[s].state \notin {"cpu_writing", "queued", "reclaim"}
  <2> DEFINE y == [x EXCEPT !.slots = {}, !.free = <<>>, !.ready = <<>>, !.current = None]
  <2>1. stream' = [stream EXCEPT ![st] = y]
    BY <1>6
  <2> HIDE DEF x
  <2>2. /\ y \in UploadStreams /\ y.made = x.made /\ y.active = x.active /\ y.slots = {}
        /\ y.current = None /\ y.ready = <<>> /\ y.free = <<>>
    <3> DEFINE no == {}  q == <<>>  c == None
    <3>1. y = [x EXCEPT !.slots = no, !.free = q, !.ready = q, !.current = c]
      OBVIOUS
    <3>2. no \in SUBSET Slots /\ q \in Seq(Slots) /\ c \in Slots \cup {None}
      OBVIOUS
    <3> HIDE DEF no, q, c, y
    <3>3. /\ y \in UploadStreams /\ y.made = x.made /\ y.active = x.active /\ y.slots = no
          /\ y.current = c /\ y.ready = q /\ y.free = q
      BY <1>3, <3>1, <3>2 DEF UploadStreams
    <3> QED BY <3>3 DEF no, q, c
  <2> HIDE DEF y
  <2>3. /\ stream' \in [Streams -> UploadStreams] /\ stream'[st] = y
        /\ \A su \in Streams \ {st} : stream'[su] = stream[su]
    BY <1>0, <1>3, <2>1, <2>2, OneStream
  <2>4. /\ tasks' \in Seq(Tasks) /\ delayed' \in Seq(Tasks) /\ Apiece(tasks', delayed')
        /\ About(tasks') \cup About(delayed') \subseteq About(tasks) \cup About(delayed)
        /\ Range(tasks') \subseteq Range(tasks) /\ Range(delayed') \subseteq Range(delayed)
    BY <1>0, <1>1, <1>6, TakeOne
  <2>5. UploadTypes'
    BY <1>0, <1>1, <2>3, <2>4 DEF UploadTypes
  <2>6. OnceInv' /\ PlacesInv' /\ Hand' = Hand /\ Posted' = Posted
    <3> DEFINE N == {}
    <3>1. /\ About(tasks') \cup About(delayed') \subseteq About(tasks) \cup About(delayed) \cup N
          /\ N \cap (Hand \cup Posted) = {}
          /\ \A u \in Range(delayed') : u.type # "upload"
      BY <1>0, <2>4 DEF PlacesInv
    <3> HIDE DEF N
    <3> QED BY <1>0, <1>1, <2>4, <3>1, QueuesStep
  <2>7. Pending' \subseteq Pending
    BY <2>4, <2>6 DEF Pending
  <2>8. Kept(y, slot)
    BY <1>3, <2>2, NoSlot, \A s : s \in x.slots => s \in Slots DEF Kept, Holds, UploadStreams
  <2>9. Apart(stream)' /\ \A su \in Streams : Kept(stream[su], slot)'
    BY <1>0, <1>1, <2>2, <2>3, <2>8 DEF Apart
  <2>10. DueInv'
    <3> SUFFICES ASSUME NEW u \in Pending PROVE Due(u)'
      BY <2>7 DEF DueInv
    <3>1. Due(u) /\ u.stream \in Streams
      BY <1>0, PendingTasks DEF DueInv
    <3>2. CASE u.stream # st
      BY <1>1, <2>3, <3>1, <3>2 DEF Due
    <3>3. CASE u.stream = st
      BY <1>1, <1>3, <1>6, <2>2, <2>3, <3>1, <3>3 DEF Due, x
    <3> QED BY <3>2, <3>3
  <2>11. \A s \in x.slots : ~gpu[s] /\ lease[s] # "writing"
    <3> SUFFICES ASSUME NEW s \in x.slots PROVE ~gpu[s] /\ lease[s] # "writing"
      OBVIOUS
    <3>1. s \in Slots /\ Kept(x, slot) /\ s # None
      BY <1>0, <1>3, NoSlot DEF UploadStreams, x
    <3>2. slot[s].state # "current"
      BY <1>3, <3>1 DEF Kept
    <3> QED BY <1>0, <1>6, <3>1, <3>2 DEF DrawInv, WriteInv
  <2>12. DrawInv'
    BY <1>0, <1>1, <1>3, <2>2, <2>3, <2>11 DEF DrawInv, x
  <2>13. WriteInv'
    BY <1>0, <1>1, <2>3, <2>11 DEF WriteInv, x
  <2> QED BY <2>5, <2>6, <2>9, <2>10, <2>12, <2>13 DEF UploadInv
<1> QED BY <1>4, <1>5, <1>6

-----------------------------------------------------------------------------
(* Uploads: the steps of the producers *)

LEMMA PostKeeps ==
    ASSUME UploadInv, NEW st \in Streams, NEW th \in Threads, Post(st, th)
    PROVE  UploadInv'
<1> DEFINE q == posts[st][th]  t == Head(q)
<1>0. /\ UploadTypes /\ Apart(stream) /\ \A su \in Streams : Kept(stream[su], slot)
      /\ DueInv /\ PlacesInv /\ OnceInv /\ DrawInv /\ WriteInv
  BY DEF UploadInv
<1>1. /\ q # <<>> /\ tasks' = Enqueued(tasks, <<t>>)
      /\ posts' = [posts EXCEPT ![st][th] = Tail(q)]
      /\ UNCHANGED <<stream, slot, delayed, working, lease, rendering, fence, gpu>>
  BY DEF Post, render
<1>2. q \in Seq(Tasks) /\ Once(q)
  BY <1>0 DEF UploadTypes, OnceInv
<1>3. /\ Tail(q) \in Seq(Tasks) /\ t \in Range(q) /\ t \in Tasks
      /\ Range(q) = Range(Tail(q)) \cup {t}
      /\ Once(Tail(q)) /\ About(Tail(q)) = About(q) \ {t}
  BY <1>1, <1>2, Taking
<1>4. t \notin About(tasks) \cup About(delayed) /\ (t.slot # None => t \notin Hand)
  <2>1. CASE t.slot = None
    BY <2>1 DEF About
  <2>2. CASE t.slot # None
    <3>1. t \in About(posts[st][th])
      BY <1>3, <2>2 DEF About
    <3> QED BY <1>0, <3>1 DEF OnceInv
  <2> QED BY <2>1, <2>2
<1>5. /\ tasks' \in Seq(Tasks) /\ Once(tasks')
      /\ About(tasks') \subseteq About(tasks) \cup {t}
      /\ Range(tasks') \subseteq Range(tasks) \cup {t}
  BY <1>0, <1>1, <1>3, <1>4, Enqueueing DEF OnceInv, Apiece
<1>6. \A su \in Streams, tu \in Threads :
        posts'[su][tu] = IF su = st /\ tu = th THEN Tail(q) ELSE posts[su][tu]
  BY <1>0, <1>1 DEF UploadTypes
<1>7. posts' \in [Streams -> [Threads -> Seq(Tasks)]]
  BY <1>0, <1>1, <1>3 DEF UploadTypes
<1>8. UploadTypes'
  BY <1>0, <1>1, <1>5, <1>7 DEF UploadTypes
<1>9. \A su \in Streams, tu \in Threads : t \notin About(posts'[su][tu])
  <2> SUFFICES ASSUME NEW su \in Streams, NEW tu \in Threads, t \in About(posts[su][tu]),
                      ~(su = st /\ tu = th)
               PROVE  FALSE
    BY <1>3, <1>6
  <2>1. t.slot # None /\ t \in Range(posts[su][tu])
    BY DEF About
  <2>2. t \in Pending /\ t.type \in {"upload", "reclaim"}
    <3>1. t \in Pending
      BY <1>3 DEF Pending, Posted
    <3> QED BY <1>0, <2>1, <3>1, PendingTasks
  <2>3. su = st
    BY <1>0, <1>3, <2>1 DEF PlacesInv
  <2> QED BY <1>0, <1>3, <2>1, <2>2, <2>3 DEF PlacesInv, Threads
<1>10. Hand' = Hand
  BY <1>1 DEF Hand
<1>11. OnceInv'
  <2>1. Apiece(tasks', delayed')
    BY <1>0, <1>1, <1>4, <1>5 DEF OnceInv, Apiece
  <2>2. Hand' \cap (About(tasks') \cup About(delayed')) = {}
    <3>1. \A u \in About(tasks') : u.slot # None
      BY DEF About
    <3> QED BY <1>0, <1>1, <1>4, <1>5, <1>10, <3>1 DEF OnceInv
  <2>3. ASSUME NEW su \in Streams, NEW tu \in Threads
        PROVE  /\ Once(posts'[su][tu])
               /\ About(posts'[su][tu]) \cap (About(tasks') \cup About(delayed') \cup Hand') = {}
    <3>1. Once(posts'[su][tu]) /\ About(posts'[su][tu]) \subseteq About(posts[su][tu])
      BY <1>0, <1>3, <1>6 DEF OnceInv
    <3> QED BY <1>0, <1>1, <1>5, <1>9, <1>10, <3>1 DEF OnceInv
  <2> QED BY <2>1, <2>2, <2>3 DEF OnceInv
<1>12. \A su \in Streams, tu \in Threads : Range(posts'[su][tu]) \subseteq Range(posts[su][tu])
  BY <1>3, <1>6
<1>13. PlacesInv'
  BY <1>0, <1>1, <1>12 DEF PlacesInv
<1>14. Pending' \subseteq Pending
  <2>1. Posted' \subseteq Posted /\ t \in Posted
    <3>1. t \in Posted
      <4>1. Range(posts[st][th]) \subseteq Posted
        BY DEF Posted
      <4>2. t \in Range(posts[st][th])
        BY <1>3
      <4> QED BY <4>1, <4>2
    <3> HIDE DEF t, q
    <3> QED BY <1>12, <3>1 DEF Posted
  <2> QED BY <1>1, <1>5, <1>10, <2>1 DEF Pending
<1>15. /\ Apart(stream)' /\ \A su \in Streams : Kept(stream[su], slot)'
       /\ DueInv' /\ DrawInv' /\ WriteInv'
  BY <1>1, <1>14, QueuesOnly
<1> QED BY <1>8, <1>11, <1>13, <1>15 DEF UploadInv

\* A thread is about to post tasks that are about no slot.
LEMMA PostingSlotless ==
    ASSUME UploadInv, NEW st \in Streams, NEW th \in Threads, NEW q \in Seq(Tasks),
           posts' = [posts EXCEPT ![st][th] = q],
           UNCHANGED <<tasks, delayed, working>>,
           \A t \in Range(q) : t.stream = st /\ t.slot = None /\ t.type = "allocate"
    PROVE  /\ posts' \in [Streams -> [Threads -> Seq(Tasks)]] /\ OnceInv' /\ PlacesInv'
           /\ \A u \in Pending' : Due(u)' \/ u \in Pending
<1>1. UploadTypes /\ OnceInv /\ PlacesInv
  BY DEF UploadInv
<1>2. \A t \in Range(q) : t.type # IF th = "owner" THEN "upload" ELSE "reclaim"
  OBVIOUS
<1>3. /\ posts' \in [Streams -> [Threads -> Seq(Tasks)]] /\ PlacesInv'
      /\ Pending' \subseteq Pending \cup Range(q)
  BY <1>1, <1>2, Posting
<1>4. \A i \in DOMAIN q : q[i].slot = None
  BY DEF Range
<1>5. Once(q) /\ About(q) = {}
  BY <1>4 DEF Once, About
<1>6. OnceInv'
  BY <1>1, <1>5, PostingKeepsOnce
<1>7. \A u \in Range(q) : Due(u)'
  BY DEF Due
<1> QED BY <1>3, <1>6, <1>7

\* A thread is about to post a task on a slot that had none.
LEMMA PostingOne ==
    ASSUME UploadInv, NEW st \in Streams, NEW th \in Threads, NEW t \in Tasks,
           posts' = [posts EXCEPT ![st][th] = <<t>>],
           UNCHANGED <<tasks, delayed, working>>,
           t.stream = st, t.type = IF th = "owner" THEN "reclaim" ELSE "upload",
           \A u \in Pending : u.slot # t.slot
    PROVE  /\ posts' \in [Streams -> [Threads -> Seq(Tasks)]] /\ OnceInv' /\ PlacesInv'
           /\ \A u \in Pending' : u = t \/ (u \in Pending /\ u.slot # t.slot)
<1> DEFINE q == <<t>>
<1>1. UploadTypes /\ OnceInv /\ PlacesInv
  BY DEF UploadInv
<1>2. /\ posts' = [posts EXCEPT ![st][th] = q] /\ q \in Seq(Tasks) /\ Once(q)
      /\ Range(q) = {t}
  BY DEF Once, Range
<1> HIDE DEF q
<1>3. \A u \in Range(q) : u.stream = st /\ u.type # IF th = "owner" THEN "upload" ELSE "reclaim"
  BY <1>2
<1>4. /\ posts' \in [Streams -> [Threads -> Seq(Tasks)]] /\ PlacesInv'
      /\ Pending' \subseteq Pending \cup Range(q)
  BY <1>1, <1>2, <1>3, Posting
<1>5. About(q) \cap Pending = {}
  BY <1>2 DEF About
<1>6. OnceInv'
  BY <1>1, <1>2, <1>5, PostingKeepsOnce
<1> QED BY <1>2, <1>4, <1>6

LEMMA QueuesStay ==
    ASSUME UploadInv, UNCHANGED <<tasks, delayed, working, posts>>
    PROVE  OnceInv' /\ PlacesInv' /\ Pending' = Pending
<1>1. OnceInv /\ PlacesInv
  BY DEF UploadInv
<1>2. Hand' = Hand /\ Posted' = Posted
  BY DEF Hand, Posted
<1> QED BY <1>1, <1>2 DEF OnceInv, PlacesInv, Pending, Apiece, Once, About, Range

\* A slot that is free, leased, ready or current has no task; only a current one or
\* one that is being reclaimed is drawn from.
LEMMA SlotWithoutTask ==
    ASSUME UploadInv, NEW s, slot[s].state \notin {"queued", "reclaim"}
    PROVE  \A u \in Pending : u.slot # s \/ s = None
BY SlotOfTask

LEMMA NotDrawn ==
    ASSUME UploadInv, NEW s \in Slots, slot[s].state \notin {"current", "reclaim"}
    PROVE  ~gpu[s]
BY DEF UploadInv, DrawInv

LEMMA TryAcquireKeeps ==
    ASSUME UploadInv, NEW st \in Streams, TryAcquireUploadBuffer(st)
    PROVE  UploadInv'
<1> DEFINE x == stream[st]  s == Head(x.free)
<1>0. /\ UploadTypes /\ Apart(stream) /\ \A su \in Streams : Kept(stream[su], slot)
      /\ DueInv /\ PlacesInv /\ OnceInv /\ DrawInv /\ WriteInv
  BY DEF UploadInv
<1>1. UNCHANGED <<tasks, delayed, working, rendering, fence, gpu>>
  BY DEF TryAcquireUploadBuffer, worker, render
<1>2. x \in UploadStreams /\ Kept(x, slot)
  BY <1>0 DEF UploadTypes
<1>3. CASE /\ x.free # <<>>
           /\ stream' = [stream EXCEPT ![st].free = Tail(@), ![st].nextId = @ + 1,
                                       ![st].leases = @ + 1]
           /\ slot' = [slot EXCEPT ![s].state = "cpu_writing", ![s].released = FALSE,
                         ![s].discard = FALSE, ![s].id = stream[st].nextId + 1]
           /\ lease' = [lease EXCEPT ![s] = "writing"]
           /\ UNCHANGED posts
  <2>1. /\ x.free \in Seq(Slots) /\ Holds(x.free, x.slots, slot, "free")
        /\ Holds(x.ready, x.slots, slot, "ready")
    BY <1>2 DEF UploadStreams, Kept
  <2>2. /\ Tail(x.free) \in Seq(Slots) /\ s \in x.slots /\ s \in Slots /\ slot[s].state = "free"
        /\ Holds(Tail(x.free), x.slots \ {s}, slot, "free")
    <3> DEFINE f == x.free
    <3>1. f \in Seq(Slots) /\ f # <<>> /\ Holds(f, x.slots, slot, "free")
      BY <1>3, <2>1
    <3> HIDE DEF f
    <3>2. /\ Tail(f) \in Seq(Slots) /\ Head(f) \in x.slots /\ Head(f) \in Slots
          /\ slot[Head(f)].state = "free" /\ Holds(Tail(f), x.slots \ {Head(f)}, slot, "free")
      BY <3>1, HeldTail
    <3> QED BY <3>2 DEF f
  <2> HIDE DEF s
  <2> DEFINE v == x.nextId + 1  w == x.leases + 1  q == Tail(x.free)
             y == [x EXCEPT !.free = q, !.nextId = v, !.leases = w]
  <2>3. v \in Int /\ w \in Int /\ q \in Seq(Slots)
    BY <1>2, <2>2 DEF UploadStreams
  <2>4. stream' = [stream EXCEPT ![st] = y]
    BY <1>3
  <2>5. slot' = [slot EXCEPT ![s].state = "cpu_writing", ![s].released = FALSE,
                         ![s].discard = FALSE, ![s].id = v]
    BY <1>3
  <2> HIDE DEF v, w
  <2>6. /\ slot' \in [Slots -> UploadSlots] /\ slot'[s].state = "cpu_writing"
        /\ \A r \in Slots \ {s} : slot'[r] = slot[r]
    <3> DEFINE z == [slot[s] EXCEPT !.state = "cpu_writing", !.released = FALSE,
                                    !.discard = FALSE, !.id = v]
    <3>1. slot[s] \in UploadSlots
      BY <1>0, <2>2 DEF UploadTypes
    <3>2. z \in UploadSlots /\ z.state = "cpu_writing"
      BY <2>3, <3>1 DEF UploadSlots, States
    <3>3. slot' = [slot EXCEPT ![s] = z]
      BY <2>5
    <3> HIDE DEF z
    <3> QED BY <1>0, <2>2, <3>2, <3>3 DEF UploadTypes
  <2>7. /\ lease' \in [Slots -> {"none", "writing", "submitted"}]
        /\ \A r \in Slots \ {s} : lease'[r] = lease[r]
    BY <1>0, <1>3, <2>2 DEF UploadTypes
  <2> HIDE DEF x, q
  <2>8. /\ y \in UploadStreams /\ y.made = x.made /\ y.active = x.active /\ y.slots = x.slots
        /\ y.current = x.current /\ y.ready = x.ready /\ y.free = q
    BY <1>2, <2>3 DEF UploadStreams
  <2> HIDE DEF y
  <2>9. /\ stream' \in [Streams -> UploadStreams] /\ stream'[st] = y
        /\ \A su \in Streams \ {st} : stream'[su] = stream[su]
    BY <1>0, <2>4, <2>8, OneStream
  <2>10. UploadTypes'
    BY <1>0, <1>1, <1>3, <2>6, <2>7, <2>9 DEF UploadTypes
  <2>11. Kept(y, slot')
    <3>1. \A r \in x.slots \ {s} : slot'[r] = slot[r]
      BY <1>2, <2>6 DEF UploadStreams
    <3>2. Holds(x.ready, x.slots, slot', "ready")
      BY <2>1, <2>2, <3>1, HeldWithout
    <3>3. Holds(q, x.slots, slot', "free")
      BY <2>2, <3>1, HeldLeave DEF q
    <3> QED BY <1>2, <2>2, <2>6, <2>8, <3>1, <3>2, <3>3, KeptMoves
  <2>12. OnceInv' /\ PlacesInv' /\ Pending' = Pending
    BY <1>1, <1>3, QueuesStay
  <2>13. \A u \in Pending : u.slot # s
    BY <2>2, NoSlot, SlotWithoutTask
  <2>14. /\ Apart(stream)' /\ \A su \in Streams : Kept(stream[su], slot)'
         /\ DueInv' /\ DrawInv' /\ WriteInv'
    <3>1. /\ stream'[st].made = stream[st].made /\ stream'[st].active = stream[st].active
          /\ stream'[st].slots = stream[st].slots /\ stream'[st].current = stream[st].current
          /\ Kept(stream'[st], slot')
          /\ \A r \in Slots \ {s} : slot'[r] = slot[r] /\ fence'[r] = fence[r] /\ lease'[r] = lease[r]
          /\ lease'[s] = "writing" => slot'[s].state = "cpu_writing"
          /\ ~gpu[s] /\ s \in stream[st].slots
      BY <1>1, <2>2, <2>6, <2>7, <2>8, <2>9, <2>11, NotDrawn DEF x
    <3> QED BY <1>1, <2>9, <2>12, <2>13, <3>1, OneSlot
  <2> QED BY <2>10, <2>12, <2>14 DEF UploadInv
<1>4. CASE /\ stream' = [stream EXCEPT ![st].pending = @ + 1]
           /\ posts' = [posts EXCEPT ![st].producer = <<Task("allocate", st, None)>>]
           /\ UNCHANGED <<slot, lease>>
  <2> DEFINE v == x.pending + 1  y == [x EXCEPT !.pending = v]
  <2>1. v \in Int /\ stream' = [stream EXCEPT ![st] = y]
    BY <1>2, <1>4 DEF UploadStreams
  <2> HIDE DEF v, x
  <2>2. /\ y \in UploadStreams /\ y.made = x.made /\ y.active = x.active /\ y.slots = x.slots
        /\ y.current = x.current /\ y.ready = x.ready /\ y.free = x.free
    BY <1>2, <2>1 DEF UploadStreams
  <2> HIDE DEF y
  <2>3. /\ stream' \in [Streams -> UploadStreams] /\ stream'[st] = y
        /\ \A su \in Streams \ {st} : stream'[su] = stream[su]
    BY <1>0, <2>1, <2>2, OneStream
  <2>4. /\ Apart(stream') /\ \A su \in Streams : Kept(stream'[su], slot)
    BY <2>2, <2>3, StreamsAlike DEF x
  <2> DEFINE t == Task("allocate", st, None)  q == <<t>>
  <2>5. t \in Tasks /\ t.stream = st /\ t.slot = None /\ t.type = "allocate"
    BY DEF Tasks, Task
  <2>6. posts' = [posts EXCEPT ![st]["producer"] = q] /\ "producer" \in Threads
    BY <1>4 DEF Threads
  <2> HIDE DEF t
  <2>7. q \in Seq(Tasks) /\ Range(q) = {t}
    BY <2>5 DEF Range
  <2> HIDE DEF q
  <2>8. /\ posts' \in [Streams -> [Threads -> Seq(Tasks)]] /\ OnceInv' /\ PlacesInv'
        /\ \A u \in Pending' : Due(u)' \/ u \in Pending
    BY <1>1, <2>5, <2>6, <2>7, PostingSlotless
  <2>9. UploadTypes'
    BY <1>0, <1>1, <1>4, <2>3, <2>8 DEF UploadTypes
  <2>10. \A su \in Streams : /\ stream'[su].slots = stream[su].slots
                             /\ stream'[su].current = stream[su].current
                             /\ stream'[su].made = stream[su].made
                             /\ stream'[su].active = stream[su].active
    BY <2>2, <2>3 DEF x
  <2>11. DueInv' /\ DrawInv' /\ WriteInv'
    <3>1. \A u \in Pending : Due(u)'
      BY <1>0, <1>4, <2>10, PendingTasks DEF DueInv, Due
    <3> QED BY <1>0, <1>1, <1>4, <2>8, <2>10, <3>1, ZenonT(60) DEF DueInv, DrawInv, WriteInv
  <2> QED BY <1>4, <2>4, <2>8, <2>9, <2>11 DEF UploadInv
<1> QED BY <1>3, <1>4 DEF TryAcquireUploadBuffer

\* A step that changes only what no invariant is about.
LEMMA Alike ==
    ASSUME UploadInv, stream' \in [Streams -> UploadStreams], slot' \in [Slots -> UploadSlots],
           lease' \in [Slots -> {"none", "writing", "submitted"}],
           \A su \in Streams :
             /\ stream'[su].made = stream[su].made /\ stream'[su].active = stream[su].active
             /\ stream'[su].slots = stream[su].slots /\ stream'[su].free = stream[su].free
             /\ stream'[su].ready = stream[su].ready
             /\ stream'[su].current = stream[su].current,
           \A s \in Slots : /\ slot'[s].state = slot[s].state /\ slot'[s].gl = slot[s].gl
                            /\ lease'[s] = "writing" => lease[s] = "writing",
           UNCHANGED <<tasks, delayed, working, posts, rendering, fence, gpu>>
    PROVE  UploadInv'
<1>0. /\ UploadTypes /\ DueInv /\ DrawInv /\ WriteInv
  BY DEF UploadInv
<1>1. OnceInv' /\ PlacesInv' /\ Pending' = Pending
  BY QueuesStay
<1>2. UploadTypes'
  BY <1>0 DEF UploadTypes
<1>3. Apart(stream') /\ \A su \in Streams : Kept(stream'[su], slot)
  BY StreamsAlike
<1>4. \A su \in Streams : Kept(stream'[su], slot')
  <2> SUFFICES ASSUME NEW su \in Streams PROVE Kept(stream'[su], slot')
    OBVIOUS
  <2>1. stream'[su].slots \subseteq Slots
    BY DEF UploadStreams
  <2> QED BY <1>3, <2>1 DEF Kept, Holds
<1>5. DueInv'
  <2> SUFFICES ASSUME NEW u \in Pending PROVE Due(u)'
    BY <1>1 DEF DueInv
  <2>1. /\ Due(u) /\ u.stream \in Streams
        /\ u.type \in {"upload", "reclaim"} => u.slot \in Slots
    BY <1>0, PendingTasks DEF DueInv
  <2> QED BY <2>1 DEF Due
<1>6. DrawInv' /\ WriteInv'
  BY <1>0 DEF DrawInv, WriteInv
<1> QED BY <1>1, <1>2, <1>3, <1>4, <1>5, <1>6 DEF UploadInv

LEMMA RetryElapsesKeeps ==
    ASSUME UploadInv, NEW st \in Streams, RetryElapses(st)
    PROVE  UploadInv'
<1> DEFINE x == stream[st]  y == [x EXCEPT !.waiting = FALSE]
<1>0. UploadTypes /\ x \in UploadStreams
  BY DEF UploadInv, UploadTypes
<1>1. /\ stream' = [stream EXCEPT ![st] = y]
      /\ UNCHANGED <<slot, tasks, delayed, working, posts, lease, rendering, fence, gpu>>
  BY DEF RetryElapses, worker, render
<1> HIDE DEF x
<1>2. /\ y \in UploadStreams /\ y.made = x.made /\ y.active = x.active /\ y.slots = x.slots
      /\ y.current = x.current /\ y.ready = x.ready /\ y.free = x.free
  BY <1>0 DEF UploadStreams
<1> HIDE DEF y
<1>3. /\ stream' \in [Streams -> UploadStreams] /\ stream'[st] = y
      /\ \A su \in Streams \ {st} : stream'[su] = stream[su]
  BY <1>0, <1>1, <1>2, OneStream
<1> QED BY <1>0, <1>1, <1>2, <1>3, Alike DEF x, UploadTypes

LEMMA StreamOfOwned ==
    ASSUME Apart(stream), NEW st \in Streams, NEW s \in stream[st].slots
    PROVE  StreamOf(s) = st
BY DEF Apart, StreamOf

LEMMA SubmitKeeps ==
    ASSUME UploadInv, NEW s \in Slots, Submit(s)
    PROVE  UploadInv'
<1>0. /\ UploadTypes /\ Apart(stream) /\ \A su \in Streams : Kept(stream[su], slot)
      /\ DueInv /\ PlacesInv /\ OnceInv /\ DrawInv /\ WriteInv
  BY DEF UploadInv
<1>1. PICK st \in Streams : s \in stream[st].slots
  BY <1>0 DEF WriteInv, Submit, SubmitSlot
<1>2. StreamOf(s) = st
  BY <1>0, <1>1, StreamOfOwned
<1> DEFINE x == stream[st]  t == Task("upload", st, s)
<1>3. /\ slot[s].state = "cpu_writing"
      /\ slot' = [slot EXCEPT ![s].state = "queued"]
      /\ lease' = [lease EXCEPT ![s] = "submitted"]
      /\ posts' = [posts EXCEPT ![st]["producer"] = <<t>>]
      /\ UNCHANGED <<stream, tasks, delayed, working, rendering, fence, gpu>>
  BY <1>2 DEF Submit, SubmitSlot, worker, render
<1>4. x \in UploadStreams /\ Kept(x, slot) /\ slot[s] \in UploadSlots
  BY <1>0 DEF UploadTypes
<1>5. /\ slot' \in [Slots -> UploadSlots] /\ slot'[s].state = "queued"
      /\ \A r \in Slots \ {s} : slot'[r] = slot[r]
  BY <1>0, <1>3, <1>4 DEF UploadTypes, UploadSlots, States
<1>6. /\ lease' \in [Slots -> {"none", "writing", "submitted"}] /\ lease'[s] = "submitted"
      /\ \A r \in Slots \ {s} : lease'[r] = lease[r]
  BY <1>0, <1>3 DEF UploadTypes
<1>7. t \in Tasks /\ t.stream = st /\ t.slot = s /\ t.type = "upload" /\ "producer" \in Threads
  BY DEF Tasks, Task, Threads
<1> HIDE DEF t
<1>8. \A u \in Pending : u.slot # s
  BY <1>3, NoSlot, SlotWithoutTask
<1>9. /\ posts' \in [Streams -> [Threads -> Seq(Tasks)]] /\ OnceInv' /\ PlacesInv'
      /\ \A u \in Pending' : u = t \/ (u \in Pending /\ u.slot # s)
  <2>1. PICK th \in Threads : th = "producer"
    BY <1>7
  <2>2. /\ posts' = [posts EXCEPT ![st][th] = <<t>>]
        /\ t.type = IF th = "owner" THEN "reclaim" ELSE "upload"
        /\ UNCHANGED <<tasks, delayed, working>>
        /\ \A u \in Pending : u.slot # t.slot
    BY <1>3, <1>7, <1>8, <2>1
  <2>3. /\ posts' \in [Streams -> [Threads -> Seq(Tasks)]] /\ OnceInv' /\ PlacesInv'
        /\ \A u \in Pending' : u = t \/ (u \in Pending /\ u.slot # t.slot)
    BY <1>7, <2>2, PostingOne
  <2> QED BY <1>7, <2>3
<1>10. UploadTypes'
  BY <1>0, <1>3, <1>5, <1>6, <1>9 DEF UploadTypes
<1>11. Due(t)'
  BY <1>1, <1>3, <1>5, <1>7 DEF Due
<1>12. Kept(x, slot')
  <2>1. \A r \in x.slots \ {s} : slot'[r] = slot[r]
    BY <1>4, <1>5 DEF UploadStreams
  <2>2. s \in x.slots
    BY <1>1
  <2> HIDE DEF x
  <2>3. Holds(x.free, x.slots, slot', "free") /\ Holds(x.ready, x.slots, slot', "ready")
    BY <1>3, <1>4, <2>1, <2>2, HeldWithout DEF Kept
  <2> QED BY <1>3, <1>4, <1>5, <2>1, <2>2, <2>3, KeptMoves
<1>13. /\ Apart(stream)' /\ \A su \in Streams : Kept(stream[su], slot)'
       /\ DueInv' /\ DrawInv' /\ WriteInv'
  <2>1. /\ stream'[st].made = stream[st].made /\ stream'[st].active = stream[st].active
        /\ stream'[st].slots = stream[st].slots /\ stream'[st].current = stream[st].current
        /\ \A su \in Streams \ {st} : stream'[su] = stream[su]
        /\ Kept(stream'[st], slot')
        /\ \A r \in Slots \ {s} : slot'[r] = slot[r] /\ fence'[r] = fence[r] /\ lease'[r] = lease[r]
        /\ lease'[s] = "writing" => slot'[s].state = "cpu_writing"
        /\ ~gpu[s] /\ s \in stream[st].slots
    BY <1>1, <1>3, <1>5, <1>6, <1>12, NotDrawn
  <2>2. \A u \in Pending' : Due(u)' \/ (u \in Pending /\ u.slot # s)
    BY <1>9, <1>11
  <2> QED BY <1>3, <2>1, <2>2, OneSlot
<1> QED BY <1>9, <1>10, <1>13 DEF UploadInv

LEMMA ReleaseKeeps ==
    ASSUME UploadInv, NEW s \in Slots, ReleaseLease(s)
    PROVE  UploadInv'
<1>0. /\ UploadTypes /\ Apart(stream) /\ \A su \in Streams : Kept(stream[su], slot)
      /\ DueInv /\ PlacesInv /\ OnceInv /\ DrawInv /\ WriteInv
  BY DEF UploadInv
<1>s. PICK st : st = StreamOf(s)
  OBVIOUS
<1> DEFINE x == stream[st]
<1>1. /\ lease' = [lease EXCEPT ![s] = "none"]
      /\ UNCHANGED <<tasks, delayed, working, posts, rendering, fence, gpu>>
  BY DEF ReleaseLease, DropLease, worker, render
<1>2. \/ /\ stream' = [stream EXCEPT ![st].leases = @ - 1]
         /\ slot' = [slot EXCEPT ![s].released = TRUE]
      \/ /\ lease[s] = "writing" /\ slot[s].state = "cpu_writing"
         /\ stream' = [stream EXCEPT ![st].leases = @ - 1,
                         ![st].free = IF stream[st].active THEN Append(@, s) ELSE @]
         /\ slot' = [slot EXCEPT ![s].state = "free", ![s].released = TRUE]
  BY <1>s DEF ReleaseLease, DropLease
<1>3. /\ lease' \in [Slots -> {"none", "writing", "submitted"}] /\ lease'[s] = "none"
      /\ \A r \in Slots \ {s} : lease'[r] = lease[r]
  BY <1>0, <1>1 DEF UploadTypes
<1>4. slot[s] \in UploadSlots
  BY <1>0 DEF UploadTypes
<1>5. CASE /\ stream' = [stream EXCEPT ![st].leases = @ - 1]
           /\ slot' = [slot EXCEPT ![s].released = TRUE]
  <2>1. /\ slot' \in [Slots -> UploadSlots]
        /\ \A r \in Slots : slot'[r].state = slot[r].state /\ slot'[r].gl = slot[r].gl
    BY <1>0, <1>4, <1>5 DEF UploadTypes, UploadSlots
  <2>2. CASE st \in Streams
    <3> DEFINE v == x.leases - 1  y == [x EXCEPT !.leases = v]
    <3>1. x \in UploadStreams /\ v \in Int /\ stream' = [stream EXCEPT ![st] = y]
      BY <1>0, <1>5, <2>2 DEF UploadTypes, UploadStreams
    <3> HIDE DEF v, x
    <3>2. /\ y \in UploadStreams /\ y.made = x.made /\ y.active = x.active /\ y.slots = x.slots
          /\ y.current = x.current /\ y.ready = x.ready /\ y.free = x.free
      BY <3>1 DEF UploadStreams
    <3> HIDE DEF y
    <3>3. /\ stream' \in [Streams -> UploadStreams] /\ stream'[st] = y
          /\ \A su \in Streams \ {st} : stream'[su] = stream[su]
      BY <1>0, <2>2, <3>1, <3>2, OneStream
    <3> QED BY <1>1, <1>3, <2>1, <3>2, <3>3, Alike DEF x
  <2>3. CASE st \notin Streams
    <3>1. stream' = stream /\ stream \in [Streams -> UploadStreams]
      BY <1>0, <1>5, <2>3 DEF UploadTypes
    <3> QED BY <1>1, <1>3, <2>1, <3>1, Alike
  <2> QED BY <2>2, <2>3
<1>6. CASE /\ lease[s] = "writing" /\ slot[s].state = "cpu_writing"
           /\ stream' = [stream EXCEPT ![st].leases = @ - 1,
                           ![st].free = IF stream[st].active THEN Append(@, s) ELSE @]
           /\ slot' = [slot EXCEPT ![s].state = "free", ![s].released = TRUE]
  <2>1. st \in Streams /\ s \in x.slots
    <3>1. PICK su \in Streams : s \in stream[su].slots
      BY <1>0, <1>6 DEF WriteInv
    <3> QED BY <1>0, <1>s, <3>1, StreamOfOwned
  <2>2. x \in UploadStreams /\ Kept(x, slot)
    BY <1>0, <2>1 DEF UploadTypes
  <2>3. /\ slot' \in [Slots -> UploadSlots] /\ slot'[s].state = "free"
        /\ \A r \in Slots \ {s} : slot'[r] = slot[r]
    BY <1>0, <1>4, <1>6 DEF UploadTypes, UploadSlots, States
  <2> DEFINE v == x.leases - 1  q == IF x.active THEN Append(x.free, s) ELSE x.free
             y == [x EXCEPT !.leases = v, !.free = q]
  <2>4. v \in Int /\ x.free \in Seq(Slots) /\ (q = x.free \/ Extends(q, x.free, s))
    BY <2>2 DEF UploadStreams, Extends
  <2>5. stream' = [stream EXCEPT ![st] = y]
    BY <1>6
  <2> HIDE DEF q, v
  <2>6. Holds(x.ready, x.slots, slot, "ready") /\ Holds(x.free, x.slots, slot, "free")
    BY <2>2 DEF Kept
  <2>7. \A r \in x.slots \ {s} : slot'[r] = slot[r]
    BY <2>2, <2>3 DEF UploadStreams
  <2> HIDE DEF x
  <2>8. q \in Seq(Slots) /\ Holds(q, x.slots, slot', "free")
    <3>0. /\ s \in x.slots /\ s \in Slots /\ slot[s].state # "free" /\ slot'[s].state = "free"
          /\ x.free \in Seq(Slots) /\ Holds(x.free, x.slots, slot, "free")
      BY <1>6, <2>1, <2>3, <2>4, <2>6
    <3>1. CASE q = x.free
      <4>1. Holds(x.free, x.slots, slot', "free")
        BY <2>7, <3>0, HeldWithout
      <4> QED BY <3>0, <3>1, <4>1
    <3>2. CASE Extends(q, x.free, s)
      BY <2>7, <3>0, <3>2, HeldJoin
    <3> QED BY <2>4, <3>1, <3>2
  <2>9. /\ y \in UploadStreams /\ y.made = x.made /\ y.active = x.active /\ y.slots = x.slots
        /\ y.current = x.current /\ y.ready = x.ready /\ y.free = q
    BY <2>2, <2>4, <2>8 DEF UploadStreams
  <2> HIDE DEF y
  <2>10. /\ stream' \in [Streams -> UploadStreams] /\ stream'[st] = y
         /\ \A su \in Streams \ {st} : stream'[su] = stream[su]
    BY <1>0, <2>1, <2>5, <2>9, OneStream
  <2>11. Kept(y, slot')
    <3>1. Holds(x.ready, x.slots, slot', "ready")
      BY <1>6, <2>6, <2>7, HeldWithout
    <3> QED BY <1>6, <2>1, <2>2, <2>3, <2>7, <2>8, <2>9, <3>1, KeptMoves, ZenonT(60)
  <2>12. OnceInv' /\ PlacesInv' /\ Pending' = Pending
    BY <1>1, QueuesStay
  <2>13. \A u \in Pending : u.slot # s
    BY <1>6, NoSlot, SlotWithoutTask
  <2>14. UploadTypes'
    BY <1>0, <1>1, <1>3, <2>3, <2>10 DEF UploadTypes
  <2>15. /\ Apart(stream)' /\ \A su \in Streams : Kept(stream[su], slot)'
         /\ DueInv' /\ DrawInv' /\ WriteInv'
    <3>1. /\ stream'[st].made = stream[st].made /\ stream'[st].active = stream[st].active
          /\ stream'[st].slots = stream[st].slots /\ stream'[st].current = stream[st].current
          /\ Kept(stream'[st], slot')
          /\ \A r \in Slots \ {s} : slot'[r] = slot[r] /\ fence'[r] = fence[r] /\ lease'[r] = lease[r]
          /\ lease'[s] = "writing" => slot'[s].state = "cpu_writing"
          /\ ~gpu[s] /\ s \in stream[st].slots
      BY <1>1, <1>3, <1>6, <2>1, <2>3, <2>9, <2>10, <2>11, NotDrawn DEF x
    <3> QED BY <1>1, <2>1, <2>10, <2>12, <2>13, <3>1, OneSlot
  <2> QED BY <2>12, <2>14, <2>15 DEF UploadInv
<1> QED BY <1>2, <1>5, <1>6

-----------------------------------------------------------------------------
(* Uploads: the steps of the owners *)

LEMMA RendersCurrent ==
    ASSUME UploadInv, NEW st \in Streams, Renders(st, stream[st].current),
           UNCHANGED <<stream, slot, tasks, delayed, working, posts, lease>>
    PROVE  UploadInv'
<1> DEFINE c == stream[st].current
<1>0. /\ UploadTypes /\ Apart(stream) /\ \A su \in Streams : Kept(stream[su], slot)
      /\ DueInv /\ DrawInv /\ WriteInv
  BY DEF UploadInv
<1>1. OnceInv' /\ PlacesInv' /\ Pending' = Pending
  BY QueuesStay
<1>2. /\ rendering' = [rendering EXCEPT ![st] = c] /\ fence' = fence
      /\ gpu' = IF c = None THEN gpu ELSE [gpu EXCEPT ![c] = TRUE]
  BY DEF Renders
<1>3. c \in Slots \cup {None} /\ Kept(stream[st], slot)
  BY <1>0 DEF UploadTypes, UploadStreams
<1>4. c # None => /\ c \in stream[st].slots /\ slot[c].state = "current" /\ slot[c].gl
  BY <1>3 DEF Kept
<1> HIDE DEF c
<1>5. UploadTypes'
  BY <1>0, <1>2, <1>3 DEF UploadTypes
<1>6. DrawInv'
  <2>1. \A su \in Streams : rendering'[su] # None => rendering'[su] = stream[su].current
    BY <1>0, <1>2 DEF DrawInv, UploadTypes, c
  <2>2. ASSUME NEW s \in Slots, gpu'[s]
        PROVE  \E su \in Streams :
                 /\ s \in stream[su].slots /\ slot[s].gl
                 /\ slot[s].state \in {"current", "reclaim"}
                 /\ fence[s] \/ rendering'[su] = s
    <3>1. CASE s = c
      <4>1. rendering'[st] = c /\ c # None
        BY <1>0, <1>2, <3>1, NoSlot DEF UploadTypes
      <4> QED BY <1>4, <3>1, <4>1
    <3>2. CASE s # c
      <4>1. gpu[s]
        BY <1>0, <1>2, <1>3, <2>2, <3>2 DEF UploadTypes
      <4>2. PICK su \in Streams :
               /\ s \in stream[su].slots /\ slot[s].gl
               /\ slot[s].state \in {"current", "reclaim"}
               /\ fence[s] \/ rendering[su] = s
        BY <1>0, <4>1 DEF DrawInv
      <4>3. rendering[su] = s => su # st
        BY <1>0, <3>2, NoSlot DEF DrawInv, c
      <4> QED BY <1>0, <1>2, <4>2, <4>3 DEF UploadTypes
    <3> QED BY <3>1, <3>2
  <2> QED BY <1>2, <2>1, <2>2 DEF DrawInv
<1>7. DueInv'
  BY <1>0, <1>1 DEF DueInv, Due
<1> QED BY <1>0, <1>1, <1>5, <1>6, <1>7 DEF UploadInv, Apart, Kept, WriteInv

LEMMA CompleteKeeps ==
    ASSUME UploadInv, NEW st \in Streams, Complete(st)
    PROVE  UploadInv'
<1>0. /\ UploadTypes /\ Apart(stream) /\ \A su \in Streams : Kept(stream[su], slot)
      /\ DueInv /\ DrawInv /\ WriteInv
  BY DEF UploadInv
<1>1. /\ rendering[st] # None /\ fence' = [fence EXCEPT ![rendering[st]] = TRUE]
      /\ rendering' = [rendering EXCEPT ![st] = None]
      /\ UNCHANGED <<stream, slot, tasks, delayed, working, posts, lease, gpu>>
  BY DEF Complete, worker
<1>2. OnceInv' /\ PlacesInv' /\ Pending' = Pending
  BY <1>1, QueuesStay
<1>3. UploadTypes'
  BY <1>0, <1>1 DEF UploadTypes
<1>4. DrawInv'
  <2>1. \A su \in Streams : rendering'[su] # None => rendering'[su] = stream[su].current
    BY <1>0, <1>1 DEF DrawInv, UploadTypes
  <2>2. ASSUME NEW s \in Slots, gpu[s]
        PROVE  \E su \in Streams :
                 /\ s \in stream[su].slots /\ slot[s].gl
                 /\ slot[s].state \in {"current", "reclaim"}
                 /\ fence'[s] \/ rendering'[su] = s
    BY <1>0, <1>1, <2>2 DEF DrawInv, UploadTypes
  <2> QED BY <1>1, <2>1, <2>2 DEF DrawInv
<1>5. DueInv'
  BY <1>0, <1>1, <1>2 DEF DueInv, Due
<1> QED BY <1>0, <1>1, <1>2, <1>3, <1>4, <1>5 DEF UploadInv, Apart, Kept, WriteInv

LEMMA GpuFinishesKeeps ==
    ASSUME UploadInv, NEW s \in Slots, GpuFinishes(s)
    PROVE  UploadInv'
<1>0. /\ UploadTypes /\ Apart(stream) /\ \A su \in Streams : Kept(stream[su], slot)
      /\ DueInv /\ DrawInv /\ WriteInv
  BY DEF UploadInv
<1>1. /\ gpu' = [gpu EXCEPT ![s] = FALSE]
      /\ UNCHANGED <<stream, slot, tasks, delayed, working, posts, lease, rendering, fence>>
  BY DEF GpuFinishes, worker
<1>2. OnceInv' /\ PlacesInv' /\ Pending' = Pending
  BY <1>1, QueuesStay
<1>3. UploadTypes'
  BY <1>0, <1>1 DEF UploadTypes
<1>4. DrawInv'
  BY <1>0, <1>1 DEF DrawInv, UploadTypes
<1>5. DueInv'
  BY <1>0, <1>1, <1>2 DEF DueInv, Due
<1> QED BY <1>0, <1>1, <1>2, <1>3, <1>4, <1>5 DEF UploadInv, Apart, Kept, WriteInv

LEMMA StopKeeps ==
    ASSUME UploadInv, Stop \/ UNCHANGED vars
    PROVE  UploadInv'
<1>1. UNCHANGED <<stream, slot, tasks, delayed, working, posts, lease, rendering, fence, gpu>>
  BY DEF Stop, render, vars
<1>2. OnceInv' /\ PlacesInv' /\ Pending' = Pending
  BY <1>1, QueuesStay
<1>3. UploadTypes'
  BY <1>1 DEF UploadTypes, UploadInv
<1>4. /\ Apart(stream)' /\ \A su \in Streams : Kept(stream[su], slot)'
      /\ DueInv' /\ DrawInv' /\ WriteInv'
  BY <1>1, <1>2, QueuesOnly
<1> QED BY <1>2, <1>3, <1>4 DEF UploadInv

LEMMA NewStreamTyped ==
    /\ NewStream \in UploadStreams /\ ~NewStream.made /\ ~NewStream.active
    /\ NewStream.slots = {} /\ NewStream.current = None
    /\ NewStream.free = <<>> /\ NewStream.ready = <<>>
<1>1. {} \in SUBSET Slots /\ <<>> \in Seq(Slots) /\ None \in Slots \cup {None} /\ 0 \in Int
  OBVIOUS
<1> QED BY <1>1 DEF NewStream, UploadStreams

LEMMA CreateKeeps ==
    ASSUME UploadInv, NEW st \in Streams, CreateStream(st)
    PROVE  UploadInv'
<1> DEFINE x == stream[st]
           y == [NewStream EXCEPT !.made = TRUE, !.active = TRUE, !.pending = InitialSlots]
           t == Task("allocate", st, None)
           q == [i \in 1 .. InitialSlots |-> t]
<1>0. /\ UploadTypes /\ Apart(stream) /\ \A su \in Streams : Kept(stream[su], slot)
      /\ DueInv /\ DrawInv /\ WriteInv
  BY DEF UploadInv
<1>1. /\ ~x.made /\ stream' = [stream EXCEPT ![st] = y]
      /\ posts' = [posts EXCEPT ![st]["owner"] = q]
      /\ UNCHANGED <<slot, tasks, delayed, working, lease, rendering, fence, gpu>>
  BY DEF CreateStream, worker, render
<1>2. x.slots = {} /\ x.current = None
  BY <1>0, <1>1 DEF Kept
<1>3. /\ y \in UploadStreams /\ y.made /\ y.active /\ y.slots = {} /\ y.current = None
      /\ y.free = <<>> /\ y.ready = <<>>
  <2> DEFINE z == NewStream  v == InitialSlots
  <2>1. y = [z EXCEPT !.made = TRUE, !.active = TRUE, !.pending = v] /\ v \in Int
    BY BoundsAssumption
  <2>2. /\ z \in UploadStreams /\ z.slots = {} /\ z.current = None
        /\ z.free = <<>> /\ z.ready = <<>>
    BY NewStreamTyped
  <2> HIDE DEF z, v, y
  <2>3. /\ y \in UploadStreams /\ y.made /\ y.active /\ y.slots = z.slots
        /\ y.current = z.current /\ y.free = z.free /\ y.ready = z.ready
    BY <2>1, <2>2 DEF UploadStreams
  <2> QED BY <2>2, <2>3
<1> HIDE DEF y
<1>4. /\ stream' \in [Streams -> UploadStreams] /\ stream'[st] = y
      /\ \A su \in Streams \ {st} : stream'[su] = stream[su]
  BY <1>0, <1>1, <1>3, OneStream
<1>5. t \in Tasks /\ t.stream = st /\ t.slot = None /\ t.type = "allocate"
  BY DEF Tasks, Task
<1> HIDE DEF t
<1>6. q \in Seq(Tasks) /\ \A u \in Range(q) : u.stream = st /\ u.slot = None /\ u.type = "allocate"
  <2>1. InitialSlots \in Nat
    BY BoundsAssumption
  <2> QED BY <1>5, <2>1 DEF Range
<1> HIDE DEF q
<1>7. /\ posts' \in [Streams -> [Threads -> Seq(Tasks)]] /\ OnceInv' /\ PlacesInv'
      /\ \A u \in Pending' : Due(u)' \/ u \in Pending
  <2>1. PICK th \in Threads : th = "owner"
    BY DEF Threads
  <2>2. posts' = [posts EXCEPT ![st][th] = q] /\ UNCHANGED <<tasks, delayed, working>>
    BY <1>1, <2>1
  <2> QED BY <1>6, <2>2, PostingSlotless
<1>8. UploadTypes'
  BY <1>0, <1>1, <1>4, <1>7 DEF UploadTypes
<1>9. Kept(y, slot)
  BY <1>3, NoSlot DEF Kept, Holds
<1>10. Apart(stream)' /\ \A su \in Streams : Kept(stream[su], slot)'
  BY <1>0, <1>1, <1>3, <1>4, <1>9 DEF Apart
<1>11. DueInv'
  <2> SUFFICES ASSUME NEW u \in Pending PROVE Due(u)'
    BY <1>7 DEF DueInv
  <2>1. Due(u) /\ u.stream \in Streams
    BY <1>0, PendingTasks DEF DueInv
  <2> QED BY <1>1, <1>2, <1>4, <2>1 DEF Due
<1>12. DrawInv' /\ WriteInv'
  BY <1>0, <1>1, <1>2, <1>3, <1>4 DEF DrawInv, WriteInv
<1> QED BY <1>7, <1>8, <1>10, <1>11, <1>12 DEF UploadInv

\* The owner is about to post tasks on slots that had none.
LEMMA PostingMany ==
    ASSUME UploadInv, NEW st \in Streams, NEW q \in Seq(Tasks),
           posts' = [posts EXCEPT ![st]["owner"] = q],
           UNCHANGED <<tasks, delayed, working>>, Once(q),
           \A u \in Range(q) : u.stream = st /\ u.type # "upload",
           \A u \in About(q) : \A w \in Pending : w.slot # u.slot
    PROVE  /\ posts' \in [Streams -> [Threads -> Seq(Tasks)]] /\ OnceInv' /\ PlacesInv'
           /\ \A u \in Pending' : u \in Range(q) \/ u \in Pending
<1>1. UploadTypes /\ OnceInv /\ PlacesInv
  BY DEF UploadInv
<1>2. PICK th \in Threads : th = "owner"
  BY DEF Threads
<1>3. /\ posts' = [posts EXCEPT ![st][th] = q]
      /\ \A u \in Range(q) : u.stream = st /\ u.type # IF th = "owner" THEN "upload" ELSE "reclaim"
  BY <1>2
<1>4. /\ posts' \in [Streams -> [Threads -> Seq(Tasks)]] /\ PlacesInv'
      /\ Pending' \subseteq Pending \cup Range(q)
  BY <1>1, <1>3, Posting
<1>5. About(q) \cap Pending = {}
  OBVIOUS
<1>6. OnceInv'
  BY <1>1, <1>3, <1>5, PostingKeepsOnce
<1> QED BY <1>4, <1>6

Distinct(q) == \A i, j \in DOMAIN q : q[i] = q[j] => i = j

LEMMA DistinctMore ==
    ASSUME NEW S, NEW q \in Seq(S), NEW s \in S, Distinct(q), s \notin Range(q),
           NEW r, Extends(r, q, s)
    PROVE  r \in Seq(S) /\ Distinct(r) /\ \A u : u \in Range(r) <=> u \in Range(q) \/ u = s
<1>1. /\ r \in Seq(S) /\ r[Len(q) + 1] = s /\ Len(q) \in Nat
      /\ DOMAIN q = 1 .. Len(q) /\ DOMAIN r = 1 .. Len(q) + 1
      /\ \A i \in DOMAIN q : r[i] = q[i]
  BY DEF Extends
<1>2. \A i \in DOMAIN r : i \in DOMAIN q \/ i = Len(q) + 1
  BY <1>1
<1>3. \A u : u \in Range(r) <=> u \in Range(q) \/ u = s
  BY <1>1, <1>2 DEF Range
<1>4. \A i \in DOMAIN q : r[i] # s
  BY <1>1 DEF Range
<1> QED BY <1>1, <1>2, <1>3, <1>4 DEF Distinct

\* The tasks to reclaim slots.
Reclaims(st, r) == [i \in DOMAIN r |-> Task("reclaim", st, r[i])]

LEMMA ReclaimTasks ==
    ASSUME UploadInv, NEW st \in Streams, NEW r \in Seq(Slots), Distinct(r), NEW q,
           q = Reclaims(st, r),
           \A s \in Range(r) : slot[s].state \notin {"queued", "reclaim"}
    PROVE  /\ q \in Seq(Tasks) /\ Once(q)
           /\ \A u \in Range(q) : u.stream = st /\ u.type = "reclaim" /\ u.slot \in Range(r)
           /\ \A u \in About(q) : \A w \in Pending : w.slot # u.slot
<1>1. Len(r) \in Nat /\ DOMAIN r = 1 .. Len(r) /\ \A i \in DOMAIN r : r[i] \in Slots
  OBVIOUS
<1>2. \A i \in DOMAIN r : /\ q[i] \in Tasks /\ q[i].stream = st /\ q[i].type = "reclaim"
                          /\ q[i].slot = r[i]
  BY <1>1 DEF Reclaims, Task, Tasks
<1>3. DOMAIN q = DOMAIN r
  BY DEF Reclaims
<1>4. q \in Seq(Tasks)
  BY <1>1, <1>2 DEF Reclaims
<1>5. Once(q)
  BY <1>2, <1>3 DEF Once, Distinct
<1>6. \A u \in Range(q) : u.stream = st /\ u.type = "reclaim" /\ u.slot \in Range(r)
  BY <1>2, <1>3 DEF Range
<1>7. \A s \in Range(r) : s \in Slots
  BY <1>1 DEF Range
<1>8. ASSUME NEW u \in About(q), NEW w \in Pending PROVE w.slot # u.slot
  <2>1. u.slot \in Range(r) /\ u.slot # None
    BY <1>6, <1>7, NoSlot DEF About
  <2> QED BY <2>1, SlotWithoutTask
<1> QED BY <1>4, <1>5, <1>6, <1>8

LEMMA MakeCurrentKeeps ==
    ASSUME UploadInv, NEW st \in Streams, NEW next, NEW obsolete \in Seq(Slots),
           NEW ready \in Seq(Slots), MaySelect(st), MakeCurrent(st, next, obsolete, ready),
           UNCHANGED <<tasks, delayed, working, lease>>,
           next \in stream[st].slots, slot[next].state = "ready",
           Holds(obsolete, stream[st].slots \ {next}, slot, "ready"),
           Holds(ready, stream[st].slots \ {next}, slot, "ready"),
           Range(obsolete) \cap Range(ready) = {}
    PROVE  UploadInv'
<1> DEFINE x == stream[st]
<1>c. PICK c : c = x.current
  OBVIOUS
<1>r. PICK r : r = obsolete \o (IF c = None THEN <<>> ELSE <<c>>)
  OBVIOUS
<1>0. /\ UploadTypes /\ Apart(stream) /\ \A su \in Streams : Kept(stream[su], slot)
      /\ DueInv /\ DrawInv /\ WriteInv
  BY DEF UploadInv
<1>1. x \in UploadStreams /\ Kept(x, slot) /\ x.slots \subseteq Slots
  BY <1>0 DEF UploadTypes, UploadStreams
<1>2. c # None => c \in x.slots /\ c \in Slots /\ slot[c].state = "current"
  BY <1>1, <1>c DEF Kept
<1>3. \A s \in Range(obsolete) : s \in x.slots /\ s # next /\ slot[s].state = "ready"
  BY DEF Holds, Range
<1>4. /\ r \in Seq(Slots) /\ Distinct(r)
      /\ \A u : u \in Range(r) <=> u \in Range(obsolete) \/ (c # None /\ u = c)
  <2>1. Distinct(obsolete)
    BY DEF Holds, Distinct
  <2>2. CASE c = None
    BY <1>r, <2>1, <2>2
  <2>3. CASE c # None
    <3>1. Extends(r, obsolete, c)
      BY <1>r, <2>3, <1>2 DEF Extends
    <3>2. c \notin Range(obsolete) /\ c \in Slots
      BY <1>2, <1>3, <2>3
    <3>3. /\ r \in Seq(Slots) /\ Distinct(r)
          /\ \A u : u \in Range(r) <=> u \in Range(obsolete) \/ u = c
      BY <2>1, <3>1, <3>2, DistinctMore
    <3> QED BY <2>3, <3>3
  <2> QED BY <2>2, <2>3
<1>5. \A s \in Range(r) : /\ s \in x.slots /\ s \in Slots /\ s # next
                          /\ slot[s].state \in {"ready", "current"}
  BY <1>1, <1>2, <1>3, <1>4
<1>6. /\ stream' = [stream EXCEPT ![st].ready = ready, ![st].current = next,
                                  ![st].retained = slot[next].id]
      /\ slot' = [s \in Slots |->
                    IF s = next THEN [slot[s] EXCEPT !.state = "current"]
                    ELSE IF s \in Range(r) THEN [slot[s] EXCEPT !.state = "reclaim"]
                    ELSE slot[s]]
      /\ posts' = [posts EXCEPT ![st]["owner"] =
                     [i \in DOMAIN r |-> Task("reclaim", st, r[i])]]
      /\ rendering' = [rendering EXCEPT ![st] = next] /\ fence' = fence
      /\ gpu' = IF next = None THEN gpu ELSE [gpu EXCEPT ![next] = TRUE]
      /\ rendering[st] = None
  BY <1>c, <1>r DEF MakeCurrent, Renders, MaySelect
<1>q. PICK q : q = Reclaims(st, r)
  OBVIOUS
<1>7. /\ q \in Seq(Tasks) /\ Once(q)
      /\ \A u \in Range(q) : u.stream = st /\ u.type = "reclaim" /\ u.slot \in Range(r)
      /\ \A u \in About(q) : \A w \in Pending : w.slot # u.slot
  <2>1. \A s \in Range(r) : slot[s].state \notin {"queued", "reclaim"}
    BY <1>5
  <2> QED BY <1>4, <1>q, <2>1, ReclaimTasks
<1>8. /\ posts' \in [Streams -> [Threads -> Seq(Tasks)]] /\ OnceInv' /\ PlacesInv'
      /\ \A u \in Pending' : u \in Range(q) \/ u \in Pending
  <2>1. posts' = [posts EXCEPT ![st]["owner"] = q]
    BY <1>6, <1>q DEF Reclaims
  <2>2. \A u \in Range(q) : u.stream = st /\ u.type # "upload"
    BY <1>7
  <2> QED BY <1>7, <2>1, <2>2, PostingMany
<1>9. next \in Slots /\ next # None /\ slot[next].gl
  BY <1>1, NoSlot DEF Kept
<1>10. /\ slot' \in [Slots -> UploadSlots]
       /\ slot'[next].state = "current" /\ slot'[next].gl
       /\ \A s \in Range(r) : slot'[s].state = "reclaim" /\ slot'[s].gl = slot[s].gl
       /\ \A s \in Slots : s # next /\ s \notin Range(r) => slot'[s] = slot[s]
  <2>1. \A s \in Slots : slot[s] \in UploadSlots
    BY <1>0 DEF UploadTypes
  <2>2. \A s \in Slots : /\ [slot[s] EXCEPT !.state = "current"] \in UploadSlots
                         /\ [slot[s] EXCEPT !.state = "reclaim"] \in UploadSlots
    BY <2>1 DEF UploadSlots, States
  <2>3. \A s \in Slots : slot'[s] = IF s = next THEN [slot[s] EXCEPT !.state = "current"]
                    ELSE IF s \in Range(r) THEN [slot[s] EXCEPT !.state = "reclaim"]
                    ELSE slot[s]
    BY <1>6
  <2>4. slot' \in [Slots -> UploadSlots]
    BY <1>6, <2>1, <2>2
  <2> QED BY <1>5, <1>9, <2>1, <2>3, <2>4 DEF UploadSlots
<1>11. /\ stream' \in [Streams -> UploadStreams]
       /\ stream'[st].made = x.made /\ stream'[st].active = x.active
       /\ stream'[st].slots = x.slots /\ stream'[st].free = x.free
       /\ stream'[st].ready = ready /\ stream'[st].current = next
       /\ \A su \in Streams \ {st} : stream'[su] = stream[su]
  <2> DEFINE v == slot[next].id  y == [x EXCEPT !.ready = ready, !.current = next, !.retained = v]
  <2>1. v \in Int
    BY <1>0, <1>9 DEF UploadTypes, UploadSlots
  <2>2. stream' = [stream EXCEPT ![st] = y]
    BY <1>6
  <2> HIDE DEF v, x
  <2>3. /\ y \in UploadStreams /\ y.made = x.made /\ y.active = x.active /\ y.slots = x.slots
        /\ y.current = next /\ y.ready = ready /\ y.free = x.free
    BY <1>1, <1>9, <2>1 DEF UploadStreams
  <2> HIDE DEF y
  <2> QED BY <1>0, <2>2, <2>3, OneStream
<1>12. UploadTypes'
  BY <1>0, <1>6, <1>8, <1>9, <1>10, <1>11 DEF UploadTypes
<1>13. Apart(stream)'
  BY <1>0, <1>11 DEF Apart
<1>14. Kept(stream'[st], slot')
  <2> HIDE DEF x
  <2>1. Holds(x.free, x.slots, slot', "free")
    BY <1>1, <1>5, <1>10 DEF Kept, Holds
  <2>2. \A s \in Range(ready) : s \in x.slots /\ s # next /\ slot[s].state = "ready"
    BY DEF Holds, Range, x
  <2>3. \A s \in Range(ready) : s \notin Range(r)
    BY <1>2, <1>4, <2>2
  <2>4. Holds(ready, x.slots, slot', "ready")
    <3>1. \A i \in DOMAIN ready : ready[i] \in Range(ready)
      BY DEF Range
    <3>2. \A i \in DOMAIN ready : ready[i] \in x.slots /\ slot'[ready[i]].state = "ready"
      BY <1>1, <1>10, <2>2, <2>3, <3>1
    <3> QED BY <3>2 DEF Holds
  <2>5. ASSUME NEW s \in x.slots
        PROVE  /\ slot'[s].state = "current" <=> s = next
               /\ slot'[s].state \in {"ready", "current"} => slot'[s].gl
    <3>1. CASE s = next
      BY <1>10, <3>1
    <3>2. CASE s \in Range(r)
      BY <1>5, <1>10, <3>2
    <3>3. CASE s # next /\ s \notin Range(r)
      <4>1. s \in Slots /\ slot'[s] = slot[s] /\ s # None
        BY <1>1, <1>10, <3>3, NoSlot
      <4>2. s # c
        BY <1>4, <3>3, <4>1
      <4> QED BY <1>1, <1>c, <3>3, <4>1, <4>2 DEF Kept, x
    <3> QED BY <3>1, <3>2, <3>3
  <2>6. x.active /\ x.made /\ next \in x.slots
    BY <1>1 DEF MaySelect, Kept, x
  <2> QED BY <1>11, <2>1, <2>4, <2>5, <2>6 DEF Kept
<1> DEFINE W == {next} \cup Range(r)
<1>15. /\ \A s \in Slots \ W : slot'[s] = slot[s]
       /\ \A su \in Streams \ {st} : W \cap stream[su].slots = {}
       /\ \A s \in W : s \in x.slots /\ slot[s].state \in {"ready", "current"}
  BY <1>0, <1>5, <1>10 DEF Apart
<1>16. \A su \in Streams : Kept(stream[su], slot)'
  <2>1. /\ \A su \in Streams \ {st} : stream'[su] = stream[su] /\ W \cap stream[su].slots = {}
        /\ \A s \in Slots \ W : slot'[s] = slot[s]
    BY <1>11, <1>15
  <2> HIDE DEF W, x
  <2> QED BY <1>0, <1>14, <2>1, KeptBut
<1>17. DueInv'
  <2>1. \A u \in Pending : u.slot \notin W
    <3> SUFFICES ASSUME NEW u \in Pending, u.slot \in W PROVE FALSE
      OBVIOUS
    <3>1. u.slot # None /\ slot[u.slot].state \in {"ready", "current"}
      BY <1>1, <1>15, NoSlot
    <3> QED BY <3>1, SlotOfTask
  <2>2. \A u \in Range(q) : Due(u)'
    BY <1>5, <1>7, <1>10, <1>11 DEF Due
  <2>3. \A u \in Pending' : Due(u)' \/ (u \in Pending /\ u.slot \notin W)
    BY <1>8, <2>1, <2>2
  <2>4. \A su \in Streams : /\ stream[su].slots \subseteq stream'[su].slots
                            /\ stream'[su].made = stream[su].made
                            /\ stream'[su].active = stream[su].active
    BY <1>11
  <2>5. \A s \in Slots \ W : slot'[s].state = slot[s].state
    BY <1>15
  <2> HIDE DEF W
  <2> QED BY <1>0, <2>3, <2>4, <2>5, DueBut
<1>18. DrawInv'
  <2>1. \A su \in Streams : rendering'[su] # None => rendering'[su] = stream'[su].current
    BY <1>0, <1>6, <1>11 DEF DrawInv, UploadTypes
  <2>2. ASSUME NEW s \in Slots, gpu'[s]
        PROVE  \E su \in Streams :
                 /\ s \in stream'[su].slots /\ slot'[s].gl
                 /\ slot'[s].state \in {"current", "reclaim"}
                 /\ fence'[s] \/ rendering'[su] = s
    <3>1. CASE s = next
      BY <1>0, <1>6, <1>10, <1>11, <3>1 DEF UploadTypes
    <3>2. CASE s # next
      <4>1. gpu[s]
        BY <1>0, <1>6, <1>9, <2>2, <3>2 DEF UploadTypes
      <4>2. PICK su \in Streams :
               /\ s \in stream[su].slots /\ slot[s].gl
               /\ slot[s].state \in {"current", "reclaim"}
               /\ fence[s] \/ rendering[su] = s
        BY <1>0, <4>1 DEF DrawInv
      <4>3. rendering[su] = s => su # st
        BY <1>6, <4>2, NoSlot
      <4>4. fence'[s] \/ rendering'[su] = s
        BY <1>0, <1>6, <4>2, <4>3 DEF UploadTypes
      <4>5. slot'[s].gl /\ slot'[s].state \in {"current", "reclaim"}
        BY <1>10, <3>2, <4>2
      <4> QED BY <1>11, <4>2, <4>4, <4>5
    <3> QED BY <3>1, <3>2
  <2> QED BY <2>1, <2>2 DEF DrawInv
<1>19. WriteInv'
  <2> SUFFICES ASSUME NEW s \in Slots, lease[s] = "writing"
               PROVE  slot'[s].state = "cpu_writing" /\ \E su \in Streams : s \in stream'[su].slots
    BY DEF WriteInv
  <2>1. slot[s].state = "cpu_writing" /\ \E su \in Streams : s \in stream[su].slots
    BY <1>0 DEF WriteInv
  <2>2. s \notin W
    BY <1>15, <2>1
  <2> QED BY <1>11, <1>15, <2>1, <2>2
<1> QED BY <1>8, <1>12, <1>13, <1>16, <1>17, <1>18, <1>19 DEF UploadInv

\* What is before and after an element of a queue.
Parts(p, r, q, n) == p = SubSeq(q, 1, n - 1) /\ r = SubSeq(q, n + 1, Len(q))

LEMMA HeldParts ==
    ASSUME NEW S, NEW q \in Seq(S), NEW n \in 1 .. Len(q), NEW owned, NEW slots, NEW state,
           Holds(q, owned, slots, state), NEW p, NEW r,
           Parts(p, r, q, n)
    PROVE  /\ p \in Seq(S) /\ r \in Seq(S) /\ q[n] \in owned /\ slots[q[n]].state = state
           /\ Holds(p, owned \ {q[n]}, slots, state) /\ Holds(r, owned \ {q[n]}, slots, state)
           /\ Range(p) \cap Range(r) = {}
<1>l. PICK L : L = Len(q)
  OBVIOUS
<1>1. L \in Nat /\ DOMAIN q = 1 .. L /\ n \in Nat /\ n <= L /\ 1 <= n
  BY <1>l
<1>2. p \in Seq(S) /\ DOMAIN p = 1 .. (n - 1) /\ \A i \in 1 .. (n - 1) : p[i] = q[i]
  BY DEF Parts
<1>3. /\ r \in Seq(S) /\ DOMAIN r = 1 .. (L - n) /\ \A i \in 1 .. (L - n) : r[i] = q[i + n]
  <2>1. r \in Seq(S)
    BY DEF Parts
  <2>2. Len(r) = L - n /\ \A i \in 1 .. (L - n) : r[i] = q[i + n]
    BY <1>l DEF Parts
  <2> QED BY <2>1, <2>2
<1>4. \A i \in DOMAIN p : i \in DOMAIN q /\ i < n /\ i \in Nat /\ p[i] = q[i]
  BY <1>1, <1>2
<1>5. \A i \in DOMAIN r : i + n \in DOMAIN q /\ i + n > n /\ i \in Nat /\ r[i] = q[i + n]
  <2> SUFFICES ASSUME NEW i \in 1 .. (L - n)
               PROVE  i + n \in 1 .. L /\ i + n > n /\ i \in Nat /\ r[i] = q[i + n]
    BY <1>1, <1>3
  <2> QED BY <1>1, <1>3
<1>6. n \in DOMAIN q /\ q[n] \in owned /\ slots[q[n]].state = state
  BY <1>1 DEF Holds
<1>10. \A i, j \in DOMAIN q : q[i] = q[j] => i = j
  BY DEF Holds
<1>11. \A i \in DOMAIN q : q[i] \in owned /\ slots[q[i]].state = state
  BY DEF Holds
<1>7. Holds(p, owned \ {q[n]}, slots, state)
  <2>1. \A i \in DOMAIN p : p[i] \in owned \ {q[n]} /\ slots[p[i]].state = state
    <3> SUFFICES ASSUME NEW i \in DOMAIN p
                 PROVE  p[i] \in owned /\ p[i] # q[n] /\ slots[p[i]].state = state
      OBVIOUS
    <3>1. i \in DOMAIN q /\ i # n /\ p[i] = q[i]
      BY <1>1, <1>4
    <3> QED BY <1>6, <1>10, <1>11, <3>1
  <2>2. \A i, j \in DOMAIN p : p[i] = p[j] => i = j
    BY <1>4, <1>10
  <2> QED BY <2>1, <2>2 DEF Holds
<1>8. Holds(r, owned \ {q[n]}, slots, state)
  <2>1. \A i \in DOMAIN r : r[i] \in owned \ {q[n]} /\ slots[r[i]].state = state
    <3> SUFFICES ASSUME NEW i \in DOMAIN r
                 PROVE  r[i] \in owned /\ r[i] # q[n] /\ slots[r[i]].state = state
      OBVIOUS
    <3>1. i + n \in DOMAIN q /\ i + n # n /\ r[i] = q[i + n]
      BY <1>1, <1>5
    <3> QED BY <1>6, <1>10, <1>11, <3>1
  <2>2. ASSUME NEW i \in DOMAIN r, NEW j \in DOMAIN r, r[i] = r[j] PROVE i = j
    <3>1. i + n = j + n
      BY <1>5, <1>10, <2>2
    <3> QED BY <1>1, <1>5, <3>1
  <2> QED BY <2>1, <2>2 DEF Holds
<1>9. Range(p) \cap Range(r) = {}
  <2> SUFFICES ASSUME NEW i \in DOMAIN p, NEW j \in DOMAIN r, p[i] = r[j] PROVE FALSE
    BY DEF Range
  <2>1. q[i] = q[j + n] /\ i \in DOMAIN q /\ j + n \in DOMAIN q /\ i < j + n
    BY <1>1, <1>4, <1>5
  <2>2. i = j + n
    BY <2>1 DEF Holds
  <2> QED BY <1>1, <1>4, <1>5, <2>1, <2>2
<1> QED BY <1>2, <1>3, <1>6, <1>7, <1>8, <1>9

\* A queue without one of its elements.
LEMMA HeldRemoved ==
    ASSUME NEW S, NEW q \in Seq(S), NEW n \in 1 .. Len(q), NEW owned, NEW slots, NEW state,
           Holds(q, owned, slots, state), NEW r, r = RemoveAt(q, n)
    PROVE  /\ r \in Seq(S) /\ q[n] \in owned /\ slots[q[n]].state = state
           /\ Holds(r, owned \ {q[n]}, slots, state)
<1> DEFINE a == SubSeq(q, 1, n - 1)  b == SubSeq(q, n + 1, Len(q))
<1>1. /\ a \in Seq(S) /\ b \in Seq(S) /\ q[n] \in owned /\ slots[q[n]].state = state
      /\ Holds(a, owned \ {q[n]}, slots, state) /\ Holds(b, owned \ {q[n]}, slots, state)
      /\ Range(a) \cap Range(b) = {}
  <2>1. Parts(a, b, q, n)
    BY DEF Parts
  <2> HIDE DEF a, b
  <2> QED BY <2>1, HeldParts
<1>2. r = a \o b
  BY DEF RemoveAt
<1> HIDE DEF a, b
<1>3. /\ r \in Seq(S) /\ Len(a) \in Nat /\ Len(b) \in Nat /\ DOMAIN a = 1 .. Len(a)
      /\ DOMAIN b = 1 .. Len(b) /\ DOMAIN r = 1 .. (Len(a) + Len(b))
      /\ \A i \in 1 .. (Len(a) + Len(b)) : r[i] = IF i <= Len(a) THEN a[i] ELSE b[i - Len(a)]
  BY <1>1, <1>2
<1>4. \A i \in DOMAIN r : \/ i \in DOMAIN a /\ r[i] = a[i]
                          \/ i - Len(a) \in DOMAIN b /\ i \notin DOMAIN a /\ r[i] = b[i - Len(a)]
  BY <1>3
<1>5. \A i \in DOMAIN r : r[i] \in owned \ {q[n]} /\ slots[r[i]].state = state
  BY <1>1, <1>4 DEF Holds
<1>6. \A i \in DOMAIN a, j \in DOMAIN b : a[i] # b[j]
  BY <1>1 DEF Range
<1>7. ASSUME NEW i \in DOMAIN r, NEW j \in DOMAIN r, r[i] = r[j] PROVE i = j
  <2>1. CASE i \in DOMAIN a /\ j \in DOMAIN a
    BY <1>1, <1>4, <1>7, <2>1, <1>3 DEF Holds
  <2>2. CASE i \notin DOMAIN a /\ j \notin DOMAIN a
    <3>1. i - Len(a) = j - Len(a)
      BY <1>1, <1>4, <1>7, <2>2 DEF Holds
    <3> QED BY <1>3, <3>1
  <2> QED BY <1>4, <1>6, <1>7, <2>1, <2>2
<1> QED BY <1>1, <1>3, <1>5, <1>7 DEF Holds

LEMMA SelectThroughKeeps ==
    ASSUME UploadInv, NEW st \in Streams, NEW id, SelectThrough(st, id)
    PROVE  UploadInv'
<1> DEFINE x == stream[st]
<1>q. PICK q : q = x.ready
  OBVIOUS
<1>1. UNCHANGED <<tasks, delayed, working, lease>> /\ MaySelect(st)
  BY DEF SelectThrough, worker
<1>2. q \in Seq(Slots) /\ Holds(q, x.slots, slot, "ready")
  BY <1>q DEF UploadInv, UploadTypes, UploadStreams, Kept
<1>3. PICK n \in 0 .. Len(q) :
        \/ /\ n = 0 /\ Renders(st, x.current) /\ UNCHANGED <<stream, slot, posts>>
        \/ /\ n > 0
           /\ MakeCurrent(st, q[n], SubSeq(q, 1, n - 1), SubSeq(q, n + 1, Len(q)))
  BY <1>q DEF SelectThrough
<1>4. CASE n = 0 /\ Renders(st, x.current) /\ UNCHANGED <<stream, slot, posts>>
  BY <1>1, <1>4, RendersCurrent
<1>5. CASE n > 0 /\ MakeCurrent(st, q[n], SubSeq(q, 1, n - 1), SubSeq(q, n + 1, Len(q)))
  <2>1. PICK p, r : Parts(p, r, q, n)
    BY DEF Parts
  <2>2. MakeCurrent(st, q[n], p, r)
    BY <1>5, <2>1 DEF Parts
  <2>3. n \in 1 .. Len(q)
    BY <1>2, <1>5
  <2>4. /\ p \in Seq(Slots) /\ r \in Seq(Slots) /\ q[n] \in x.slots /\ slot[q[n]].state = "ready"
        /\ Holds(p, x.slots \ {q[n]}, slot, "ready") /\ Holds(r, x.slots \ {q[n]}, slot, "ready")
        /\ Range(p) \cap Range(r) = {}
    <3>1. PICK o : o = x.slots
      OBVIOUS
    <3>2. PICK f : f = slot
      OBVIOUS
    <3>3. PICK ready : ready = "ready"
      OBVIOUS
    <3>4. q \in Seq(Slots) /\ Holds(q, o, f, ready) /\ n \in 1 .. Len(q) /\ Parts(p, r, q, n)
      BY <1>2, <2>1, <2>3, <3>1, <3>2, <3>3
    <3>5. /\ p \in Seq(Slots) /\ r \in Seq(Slots) /\ q[n] \in o /\ f[q[n]].state = ready
          /\ Holds(p, o \ {q[n]}, f, ready) /\ Holds(r, o \ {q[n]}, f, ready)
          /\ Range(p) \cap Range(r) = {}
      BY <3>4, HeldParts
    <3> QED BY <3>1, <3>2, <3>3, <3>5
  <2> QED BY <1>1, <2>2, <2>4, MakeCurrentKeeps
<1> QED BY <1>3, <1>4, <1>5

LEMMA SelectCompletedKeeps ==
    ASSUME UploadInv, NEW st \in Streams, NEW id, SelectCompleted(st, id)
    PROVE  UploadInv'
<1> DEFINE x == stream[st]
<1>q. PICK q : q = x.ready
  OBVIOUS
<1>1. UNCHANGED <<tasks, delayed, working, lease>> /\ MaySelect(st)
  BY DEF SelectCompleted, ExactlySelect, worker
<1>2. q \in Seq(Slots) /\ Holds(q, x.slots, slot, "ready")
  BY <1>q DEF UploadInv, UploadTypes, UploadStreams, Kept
<1>3. PICK n \in DOMAIN q : MakeCurrent(st, q[n], RemoveAt(q, n), <<>>)
  BY <1>q DEF SelectCompleted, ExactlySelect, Others
<1>4. PICK r : r = RemoveAt(q, n)
  OBVIOUS
<1>5. PICK e : e = <<>>
  OBVIOUS
<1>6. MakeCurrent(st, q[n], r, e) /\ n \in 1 .. Len(q)
  BY <1>2, <1>3, <1>4, <1>5
<1>7. /\ r \in Seq(Slots) /\ q[n] \in x.slots /\ slot[q[n]].state = "ready"
      /\ Holds(r, x.slots \ {q[n]}, slot, "ready")
  BY <1>2, <1>4, <1>6, HeldRemoved
<1>8. /\ e \in Seq(Slots) /\ Holds(e, x.slots \ {q[n]}, slot, "ready")
      /\ Range(r) \cap Range(e) = {}
  BY <1>5 DEF Holds, Range
<1> QED BY <1>1, <1>6, <1>7, <1>8, MakeCurrentKeeps

LEMMA DiscardKeeps ==
    ASSUME UploadInv, NEW st \in Streams, NEW s \in Slots, Discard(st, s)
    PROVE  UploadInv'
<1> DEFINE x == stream[st]
<1>q. PICK q : q = x.ready
  OBVIOUS
<1>0. UploadTypes /\ Apart(stream)
  BY DEF UploadInv
<1>1. /\ UNCHANGED <<tasks, delayed, working, lease, rendering, fence, gpu>>
      /\ s \in x.slots
  BY DEF Discard, worker, render
<1>2. x \in UploadStreams /\ Kept(x, slot) /\ slot[s] \in UploadSlots
  BY DEF UploadInv, UploadTypes
<1>3. CASE /\ slot[s].state = "queued" /\ slot' = [slot EXCEPT ![s].discard = TRUE]
           /\ UNCHANGED <<stream, posts>>
  <2>1. /\ slot' \in [Slots -> UploadSlots]
        /\ \A r \in Slots : slot'[r].state = slot[r].state /\ slot'[r].gl = slot[r].gl
    BY <1>0, <1>2, <1>3 DEF UploadTypes, UploadSlots
  <2> QED BY <1>0, <1>1, <1>3, <2>1, Alike DEF UploadTypes
<1> DEFINE t == Task("reclaim", st, s)
<1>4. CASE /\ slot[s].state = "ready"
           /\ slot' = [slot EXCEPT ![s].discard = TRUE, ![s].state = "reclaim"]
           /\ \E i \in DOMAIN q :
                q[i] = s /\ stream' = [stream EXCEPT ![st].ready = RemoveAt(q, i)]
           /\ posts' = [posts EXCEPT ![st]["owner"] = <<t>>]
  <2>1. PICK i \in DOMAIN q : q[i] = s /\ stream' = [stream EXCEPT ![st].ready = RemoveAt(q, i)]
    BY <1>4
  <2>2. PICK r : r = RemoveAt(q, i)
    OBVIOUS
  <2>3. q \in Seq(Slots) /\ Holds(q, x.slots, slot, "ready") /\ i \in 1 .. Len(q)
    BY <1>2, <1>q DEF UploadStreams, Kept
  <2>4. r \in Seq(Slots) /\ Holds(r, x.slots \ {q[i]}, slot, "ready")
    BY <2>2, <2>3, HeldRemoved
  <2> DEFINE y == [x EXCEPT !.ready = r]
  <2>5. stream' = [stream EXCEPT ![st] = y]
    BY <2>1, <2>2
  <2>6. /\ slot' \in [Slots -> UploadSlots] /\ slot'[s].state = "reclaim"
        /\ \A u \in Slots \ {s} : slot'[u] = slot[u]
    <3> DEFINE z == [slot[s] EXCEPT !.discard = TRUE, !.state = "reclaim"]
    <3>1. z \in UploadSlots /\ z.state = "reclaim"
      BY <1>2 DEF UploadSlots, States
    <3>2. slot' = [slot EXCEPT ![s] = z]
      BY <1>4
    <3> HIDE DEF z
    <3> QED BY <1>0, <3>1, <3>2 DEF UploadTypes
  <2>7. \A u \in x.slots \ {s} : slot'[u] = slot[u]
    BY <1>2, <2>6 DEF UploadStreams
  <2> HIDE DEF x
  <2>8. /\ y \in UploadStreams /\ y.made = x.made /\ y.active = x.active /\ y.slots = x.slots
        /\ y.current = x.current /\ y.ready = r /\ y.free = x.free
    BY <1>2, <2>4 DEF UploadStreams
  <2> HIDE DEF y
  <2>9. /\ stream' \in [Streams -> UploadStreams] /\ stream'[st] = y
        /\ \A su \in Streams \ {st} : stream'[su] = stream[su]
    BY <1>0, <2>5, <2>8, OneStream
  <2>10. Kept(y, slot')
    <3>1. Holds(x.free, x.slots, slot, "free")
      BY <1>2 DEF Kept
    <3>2. Holds(x.free, x.slots, slot', "free")
      BY <1>4, <2>7, <3>1, HeldWithout
    <3>3. Holds(r, x.slots, slot', "ready")
      BY <2>1, <2>4, <2>7, HeldLeave
    <3> QED BY <1>1, <1>2, <1>4, <2>6, <2>7, <2>8, <3>2, <3>3, KeptMoves, ZenonT(60)
  <2>11. t \in Tasks /\ t.stream = st /\ t.slot = s /\ t.type = "reclaim" /\ "owner" \in Threads
    BY <1>1 DEF Tasks, Task, Threads
  <2>12. posts' = [posts EXCEPT ![st]["owner"] = <<t>>]
    BY <1>4
  <2> HIDE DEF t
  <2>13. \A u \in Pending : u.slot # s
    BY <1>4, NoSlot, SlotWithoutTask
  <2>14. /\ posts' \in [Streams -> [Threads -> Seq(Tasks)]] /\ OnceInv' /\ PlacesInv'
         /\ \A u \in Pending' : u = t \/ (u \in Pending /\ u.slot # s)
    <3>1. PICK th \in Threads : th = "owner"
      BY <2>11
    <3>2. /\ posts' = [posts EXCEPT ![st][th] = <<t>>]
          /\ t.type = IF th = "owner" THEN "reclaim" ELSE "upload"
          /\ UNCHANGED <<tasks, delayed, working>>
          /\ \A u \in Pending : u.slot # t.slot
      BY <1>1, <2>11, <2>12, <2>13, <3>1
    <3>3. /\ posts' \in [Streams -> [Threads -> Seq(Tasks)]] /\ OnceInv' /\ PlacesInv'
          /\ \A u \in Pending' : u = t \/ (u \in Pending /\ u.slot # t.slot)
      BY <2>11, <3>2, PostingOne
    <3> QED BY <2>11, <3>3
  <2>15. Due(t)'
    BY <1>1, <2>6, <2>8, <2>9, <2>11 DEF Due
  <2>16. UploadTypes'
    BY <1>0, <1>1, <2>6, <2>9, <2>14 DEF UploadTypes
  <2>17. /\ Apart(stream)' /\ \A su \in Streams : Kept(stream[su], slot)'
         /\ DueInv' /\ DrawInv' /\ WriteInv'
    <3>1. /\ stream'[st].made = stream[st].made /\ stream'[st].active = stream[st].active
          /\ stream'[st].slots = stream[st].slots /\ stream'[st].current = stream[st].current
          /\ Kept(stream'[st], slot')
          /\ \A u \in Slots \ {s} : slot'[u] = slot[u] /\ fence'[u] = fence[u] /\ lease'[u] = lease[u]
          /\ ~gpu[s] /\ s \in stream[st].slots
      BY <1>1, <1>4, <2>6, <2>8, <2>9, <2>10, NotDrawn DEF x
    <3>2. \A u \in Pending' : Due(u)' \/ (u \in Pending /\ u.slot # s)
      BY <2>14, <2>15
    <3>3. lease'[s] = "writing" => slot'[s].state = "cpu_writing"
      BY <1>1, <1>4 DEF UploadInv, WriteInv
    <3> QED BY <1>1, <2>9, <3>1, <3>2, <3>3, OneSlot
  <2> QED BY <2>14, <2>16, <2>17 DEF UploadInv
<1> QED BY <1>q, <1>3, <1>4 DEF Discard

LEMMA CloseKeeps ==
    ASSUME UploadInv, NEW st \in Streams, CloseStream(st)
    PROVE  UploadInv'
<1> DEFINE x == stream[st]
<1>c. PICK c : c = x.current
  OBVIOUS
<1>0. /\ UploadTypes /\ Apart(stream) /\ \A su \in Streams : Kept(stream[su], slot)
      /\ DueInv /\ DrawInv /\ WriteInv
  BY DEF UploadInv
<1>1. x \in UploadStreams /\ Kept(x, slot) /\ x.slots \subseteq Slots
  BY <1>0 DEF UploadTypes, UploadStreams
<1>2. /\ x.active /\ x.made /\ rendering[st] = None
      /\ c # None => c \in x.slots /\ c \in Slots /\ slot[c].state = "current"
  BY <1>1, <1>c DEF CloseStream, MaySelect, Kept
<1> DEFINE d == Task("destroy_stream", st, None)  t == Task("reclaim", st, c)
           q == (IF c = None THEN <<>> ELSE <<t>>) \o <<d>>
<1>3. /\ stream' = [stream EXCEPT ![st].active = FALSE, ![st].current = None]
      /\ slot' = IF c = None THEN slot ELSE [slot EXCEPT ![c].state = "reclaim"]
      /\ posts' = [posts EXCEPT ![st]["owner"] = q]
      /\ UNCHANGED <<tasks, delayed, working, lease, rendering, fence, gpu>>
  BY <1>c DEF CloseStream, worker, render
<1>4. d \in Tasks /\ d.stream = st /\ d.slot = None /\ d.type = "destroy_stream"
  BY DEF Tasks, Task
<1>5. c # None => t \in Tasks /\ t.stream = st /\ t.slot = c /\ t.type = "reclaim"
  BY <1>2 DEF Tasks, Task
<1> HIDE DEF d, t
<1>6. /\ q \in Seq(Tasks) /\ Once(q)
      /\ \A u \in Range(q) : u = d \/ (c # None /\ u = t)
  <2>1. CASE c = None
    <3>1. q = <<d>>
      BY <2>1
    <3> HIDE DEF q
    <3>2. q \in Seq(Tasks) /\ Once(q) /\ Range(q) = {d}
      BY <1>4, <3>1 DEF Once, Range
    <3> QED BY <2>1, <3>2
  <2>2. CASE c # None
    <3> DEFINE p == <<t>>
    <3>1. q = p \o <<d>> /\ p \in Seq(Tasks) /\ Once(p) /\ Range(p) = {t}
      BY <1>5, <2>2 DEF Once, Range
    <3> HIDE DEF q, p
    <3>2. Extends(q, p, d) /\ d \notin About(p)
      BY <1>4, <3>1 DEF Extends, About
    <3>3. /\ q \in Seq(Tasks) /\ Once(q)
          /\ \A u : u \in Range(q) <=> u \in Range(p) \/ u = d
      BY <1>4, <3>1, <3>2, Adding
    <3> QED BY <2>2, <3>1, <3>3
  <2> QED BY <2>1, <2>2
<1> HIDE DEF q
<1>7. c # None => \A u \in Pending : u.slot # c
  BY <1>2, SlotWithoutTask
<1>8. /\ posts' \in [Streams -> [Threads -> Seq(Tasks)]] /\ OnceInv' /\ PlacesInv'
      /\ \A u \in Pending' : u \in Range(q) \/ u \in Pending
  <2>1. \A u \in Range(q) : u.stream = st /\ u.type # "upload"
    BY <1>4, <1>5, <1>6
  <2>2. \A u \in About(q) : \A w \in Pending : w.slot # u.slot
    BY <1>4, <1>5, <1>6, <1>7 DEF About
  <2> QED BY <1>3, <1>6, <2>1, <2>2, PostingMany
<1>9. /\ stream' \in [Streams -> UploadStreams]
      /\ stream'[st].made = x.made /\ ~stream'[st].active
      /\ stream'[st].slots = x.slots /\ stream'[st].free = x.free
      /\ stream'[st].ready = x.ready /\ stream'[st].current = None
      /\ \A su \in Streams \ {st} : stream'[su] = stream[su]
  <2> DEFINE y == [x EXCEPT !.active = FALSE, !.current = None]
  <2>1. stream' = [stream EXCEPT ![st] = y]
    BY <1>3
  <2> HIDE DEF x
  <2>2. /\ y \in UploadStreams /\ y.made = x.made /\ ~y.active /\ y.slots = x.slots
        /\ y.current = None /\ y.ready = x.ready /\ y.free = x.free
    BY <1>1 DEF UploadStreams
  <2> HIDE DEF y
  <2> QED BY <1>0, <2>1, <2>2, OneStream
<1>10. /\ slot' \in [Slots -> UploadSlots]
       /\ c # None => slot'[c].state = "reclaim" /\ slot'[c].gl = slot[c].gl
       /\ \A s \in Slots : s # c => slot'[s] = slot[s]
  <2>1. CASE c = None
    BY <1>0, <1>3, <2>1 DEF UploadTypes
  <2>2. CASE c # None
    <3>1. slot[c] \in UploadSlots /\ slot' = [slot EXCEPT ![c].state = "reclaim"]
      BY <1>0, <1>2, <1>3, <2>2 DEF UploadTypes
    <3> QED BY <1>0, <1>2, <2>2, <3>1 DEF UploadTypes, UploadSlots, States
  <2> QED BY <2>1, <2>2
<1>11. UploadTypes'
  BY <1>0, <1>3, <1>8, <1>9, <1>10 DEF UploadTypes
<1>12. Apart(stream)'
  BY <1>0, <1>9 DEF Apart
<1>13. Kept(stream'[st], slot')
  <2> HIDE DEF x
  <2>1. \A s \in x.slots : s # c => slot'[s] = slot[s]
    BY <1>1, <1>10
  <2>2. Holds(x.free, x.slots, slot', "free") /\ Holds(x.ready, x.slots, slot', "ready")
    BY <1>1, <1>2, <2>1, NoSlot DEF Kept, Holds
  <2>3. ASSUME NEW s \in x.slots
        PROVE  /\ slot'[s].state # "current" /\ s # None
               /\ slot'[s].state = "ready" => slot'[s].gl
    <3>1. s # None /\ s \in Slots
      BY <1>1, NoSlot
    <3>2. CASE s = c
      BY <1>10, <3>1, <3>2
    <3>3. CASE s # c
      BY <1>1, <1>c, <2>1, <3>1, <3>3 DEF Kept, x
    <3> QED BY <3>1, <3>2, <3>3
  <2> QED BY <1>2, <1>9, <2>2, <2>3 DEF Kept
<1> DEFINE W == {c} \ {None}
<1>14. /\ \A s \in Slots \ W : slot'[s] = slot[s]
       /\ \A su \in Streams \ {st} : stream'[su] = stream[su] /\ W \cap stream[su].slots = {}
       /\ \A s \in W : s = c /\ c # None
       /\ c # None => c \in W
  BY <1>0, <1>2, <1>9, <1>10, NoSlot DEF Apart
<1> HIDE DEF W
<1>15. \A su \in Streams : Kept(stream[su], slot)'
  <2> HIDE DEF x
  <2> QED BY <1>0, <1>13, <1>14, KeptBut
<1>16. DueInv'
  <2> SUFFICES ASSUME NEW u \in Pending' PROVE Due(u)'
    BY DEF DueInv
  <2>1. CASE u \in Range(q)
    <3>1. Due(d)'
      BY <1>2, <1>4, <1>9 DEF Due
    <3>2. c # None => Due(t)'
      BY <1>2, <1>5, <1>9, <1>10 DEF Due
    <3> QED BY <1>6, <2>1, <3>1, <3>2
  <2>2. CASE u \in Pending
    <3>1. Due(u) /\ u.stream \in Streams /\ u.slot \in Slots \cup {None}
      BY <1>0, <2>2, PendingTasks DEF DueInv
    <3>2. u.type \in {"upload", "reclaim"} => u.slot \in Slots /\ u.slot # c
      BY <1>0, <1>7, <2>2, PendingTasks
    <3>3. /\ stream'[u.stream].slots = stream[u.stream].slots
          /\ stream'[u.stream].made = stream[u.stream].made
          /\ stream'[u.stream].active => stream[u.stream].active
      BY <1>9, <3>1
    <3> QED BY <1>10, <3>1, <3>2, <3>3 DEF Due
  <2> QED BY <1>8, <2>1, <2>2
<1>17. DrawInv'
  <2>1. \A su \in Streams : rendering'[su] # None => rendering'[su] = stream'[su].current
    BY <1>0, <1>2, <1>3, <1>9 DEF DrawInv, UploadTypes
  <2>2. ASSUME NEW s \in Slots, gpu[s]
        PROVE  \E su \in Streams :
                 /\ s \in stream'[su].slots /\ slot'[s].gl
                 /\ slot'[s].state \in {"current", "reclaim"}
                 /\ fence[s] \/ rendering[su] = s
    <3>1. PICK su \in Streams :
            /\ s \in stream[su].slots /\ slot[s].gl
            /\ slot[s].state \in {"current", "reclaim"}
            /\ fence[s] \/ rendering[su] = s
      BY <1>0, <2>2 DEF DrawInv
    <3>2. slot'[s].gl /\ slot'[s].state \in {"current", "reclaim"}
      BY <1>10, <3>1, NoSlot
    <3> QED BY <1>9, <3>1, <3>2
  <2> QED BY <1>3, <2>1, <2>2 DEF DrawInv
<1>18. WriteInv'
  <2> SUFFICES ASSUME NEW s \in Slots, lease[s] = "writing"
               PROVE  slot'[s].state = "cpu_writing" /\ \E su \in Streams : s \in stream'[su].slots
    BY <1>3 DEF WriteInv
  <2>1. slot[s].state = "cpu_writing" /\ \E su \in Streams : s \in stream[su].slots
    BY <1>0 DEF WriteInv
  <2>2. s # c
    BY <1>2, <2>1, NoSlot
  <2> QED BY <1>9, <1>10, <2>1, <2>2
<1> QED BY <1>8, <1>11, <1>12, <1>15, <1>16, <1>17, <1>18 DEF UploadInv

-----------------------------------------------------------------------------
(* Uploads: the invariant *)

LEMMA UploadInit == Init => UploadInv
<1> SUFFICES ASSUME Init PROVE UploadInv
  OBVIOUS
<1>1. /\ \A st \in Streams : stream[st] = NewStream /\ rendering[st] = None
      /\ \A st \in Streams, th \in Threads : posts[st][th] = <<>>
      /\ \A s \in Slots : ~gpu[s] /\ lease[s] = "none"
      /\ tasks = <<>> /\ delayed = <<>> /\ working = None
  BY DEF Init
<1>2. UploadTypes
  <2>1. NewSlot(0) \in UploadSlots /\ <<>> \in Seq(Tasks)
    BY DEF NewSlot, UploadSlots, States
  <2> QED BY <2>1, NewStreamTyped DEF Init, UploadTypes
<1>3. \A st \in Streams : Kept(stream[st], slot)
  <2>1. Holds(<<>>, {}, slot, "free") /\ Holds(<<>>, {}, slot, "ready")
    BY DEF Holds
  <2> QED BY <1>1, <2>1, NewStreamTyped DEF Kept
<1>4. Pending = {}
  BY <1>1, Nothing DEF Pending, Posted, Hand
<1>5. OnceInv /\ PlacesInv
  BY <1>1, Nothing DEF OnceInv, PlacesInv, Apiece, Hand
<1> QED BY <1>1, <1>2, <1>3, <1>4, <1>5, NewStreamTyped
        DEF UploadInv, DueInv, DrawInv, WriteInv, Apart

LEMMA UploadStep ==
    ASSUME UploadInv, Next \/ UNCHANGED vars
    PROVE  UploadInv'
<1>1. CASE Worker
  BY <1>1, AllocateKeeps, BeginUploadKeeps, FinishUploadKeeps, ReclaimKeeps, DestroyKeeps
     DEF Worker
<1>2. ASSUME NEW st \in Streams, Owner(st) PROVE UploadInv'
  <2>1. CASE Repeat(st)
    BY <2>1, RendersCurrent DEF Repeat, worker
  <2> QED BY <1>2, <2>1, CreateKeeps, CloseKeeps, CompleteKeeps, SelectThroughKeeps,
             SelectCompletedKeeps, DiscardKeeps DEF Owner
<1>3. ASSUME NEW st \in Streams,
             TryAcquireUploadBuffer(st) \/ RetryElapses(st)
               \/ \E thread \in Threads : Post(st, thread)
      PROVE  UploadInv'
  BY <1>3, TryAcquireKeeps, RetryElapsesKeeps, PostKeeps
<1>4. ASSUME NEW s \in Slots, Submit(s) \/ ReleaseLease(s) \/ GpuFinishes(s)
      PROVE  UploadInv'
  BY <1>4, SubmitKeeps, ReleaseKeeps, GpuFinishesKeeps
<1> QED BY <1>1, <1>2, <1>3, <1>4, StopKeeps DEF Next

\* What is drawn from is current or waits to be taken back, so the worker's task is
\* not about it.
LEMMA SamplingUndisturbed == UploadInv => SamplingIsUndisturbed
<1> SUFFICES ASSUME UploadInv, NEW s \in Slots, gpu[s] \/ s \in Range(rendering)
             PROVE  /\ s \in InUse
                    /\ slot[s].state \in {"current", "reclaim"}
                    /\ slot[s].gl
                    /\ working # None => working.slot # s
  BY DEF SamplingIsUndisturbed
<1>1. UploadTypes /\ DrawInv /\ PlacesInv /\ \A st \in Streams : Kept(stream[st], slot)
  BY DEF UploadInv
<1>2. PICK st \in Streams : /\ s \in stream[st].slots /\ slot[s].gl
                            /\ slot[s].state \in {"current", "reclaim"}
  <2>1. CASE gpu[s]
    BY <1>1, <2>1 DEF DrawInv
  <2>2. CASE s \in Range(rendering)
    <3>1. PICK su \in Streams : rendering[su] = s
      BY <1>1, <2>2 DEF UploadTypes, Range
    <3>2. stream[su].current = s /\ s # None /\ Kept(stream[su], slot)
      BY <1>1, <3>1, NoSlot DEF DrawInv
    <3> QED BY <3>2 DEF Kept
  <2> QED BY <2>1, <2>2
<1>3. working # None => working.slot # s
  <2> SUFFICES ASSUME working # None, working.slot = s PROVE FALSE
    OBVIOUS
  <2>1. working \in Pending /\ working.slot # None /\ working.type = "upload"
    BY <1>1, NoSlot DEF Pending, Hand, PlacesInv
  <2> QED BY <1>2, <2>1, SlotOfTask
<1> QED BY <1>2, <1>3 DEF InUse

-----------------------------------------------------------------------------
(* Readbacks: what a step leaves alone *)

LEMMA Wants ==
    ASSUME ReadTypes
    PROVE  /\ \A t \in Carried \cup Range(rDelayed) :
                /\ t \in Readback!Tasks /\ t.stream \in Streams
                /\ t.type \in {"readback", "allocate", "destroy_stream"}
                /\ t.type = "readback" =>
                     /\ t.slot \in ReadbackSlots
                     /\ t = Readback!Task("readback", t.stream, t.slot)
<1>1. Range(rTasks) \subseteq Readback!Tasks /\ Range(rDelayed) \subseteq Readback!Tasks
  BY DEF ReadTypes, Range
<1>2. InHand(rWorking) \subseteq Readback!Tasks
  BY DEF ReadTypes, InHand
<1>3. \A st \in Streams : Range(rPosts[st]) \subseteq Readback!Tasks
  BY DEF ReadTypes, Range
<1>4. Carried \subseteq Readback!Tasks
  BY <1>1, <1>2, <1>3 DEF Carried, InPosts
<1>5. \A t \in Readback!Tasks :
        /\ t.stream \in Streams /\ t.type \in {"readback", "allocate", "destroy_stream"}
        /\ t.type = "readback" => /\ t.slot \in ReadbackSlots
                                  /\ t = Readback!Task("readback", t.stream, t.slot)
  BY DEF Readback!Tasks, Readback!Task
<1> QED BY <1>1, <1>4, <1>5

\* A stream of which nothing changes.
LEMMA DeliveredStill ==
    ASSUME NEW x \in ReadStreams, NEW slots, NEW slots2, NEW last, Delivered(x, slots, last),
           \A s \in x.slots : slots2[s] = slots[s]
    PROVE  Delivered(x, slots2, last)
<1>1. Holds(x.free, x.slots, slots2, "free") /\ Holds(x.ready, x.slots, slots2, "ready")
  BY DEF Delivered, Holds
<1>2. Rising(x.ready, slots2)
  BY DEF Delivered, Holds, Rising
<1>3. \A s \in x.slots : Frame(s, x, slots2, last)
  BY DEF Delivered, Frame
<1>4. \A r, s \in x.slots : r # s => InOrder(r, s, slots2)
  BY DEF Delivered, InOrder
<1> QED BY <1>1, <1>2, <1>3, <1>4 DEF Delivered

\* One stream and some slots, which are not another stream's, change, and the queues
\* keep the tasks that are about them in step.
LEMMA ReadStep ==
    ASSUME ReadInv, ReadTypes', NEW st \in Streams, NEW W,
           \A su \in Streams \ {st} : /\ rStream'[su] = rStream[su]
                                      /\ rConsumed'[su] = rConsumed[su]
                                      /\ W \cap rStream[su].slots = {},
           \A s \in ReadbackSlots \ W : /\ rSlot'[s] = rSlot[s] /\ rFence'[s] = rFence[s]
                                        /\ rGpu'[s] => rGpu[s],
           rStream[st].slots \subseteq rStream'[st].slots,
           rStream'[st].slots \subseteq rStream[st].slots \cup W,
           Delivered(rStream'[st], rSlot', rConsumed'[st]),
           \A s \in W : rGpu'[s] =>
             /\ s \in rStream'[st].slots
             /\ rSlot'[s].state = "rendering" \/ (rSlot'[s].state = "queued" /\ rFence'[s]),
           \A t \in Carried' \cup Range(rDelayed') :
             \/ Wanted(t, rStream', rSlot')
             \/ /\ t \in Carried \cup Range(rDelayed)
                /\ t.type = "readback" => t.slot \notin W
                /\ t.type = "destroy_stream" /\ t.stream = st =>
                     rStream'[st].made /\ ~rStream'[st].active,
           \A t \in Carried' : t.type = "readback" =>
             rSlot'[t.slot].time = rSlot[t.slot].time,
           \A t \in Carried : t.type = "readback" => t \in Carried' \/ t.slot \in W,
           \A s \in W : s \in rStream'[st].slots /\ rSlot'[s].state = "queued" =>
             Readback!Task("readback", st, s) \in Carried',
           InLine(InHand(rWorking'), rTasks', InPosts(rPosts'), rSlot),
           SpotInv', StopInv'
    PROVE  ReadInv'
<1>0. /\ ReadTypes /\ Apart(rStream)
      /\ \A su \in Streams : Delivered(rStream[su], rSlot, rConsumed[su])
      /\ WantedInv /\ SpotInv /\ OrderInv /\ QueuedInv /\ GpuInv /\ StopInv
  BY DEF ReadInv
<1>t. \A su \in Streams : rStream[su] \in ReadStreams /\ rStream[su].slots \subseteq ReadbackSlots
  BY <1>0 DEF ReadTypes, ReadStreams
<1>1. Apart(rStream')
  BY <1>0 DEF Apart
<1>2. \A su \in Streams : Delivered(rStream'[su], rSlot', rConsumed'[su])
  <2> SUFFICES ASSUME NEW su \in Streams \ {st}
               PROVE  Delivered(rStream'[su], rSlot', rConsumed'[su])
    OBVIOUS
  <2>1. \A s \in rStream[su].slots : rSlot'[s] = rSlot[s]
    BY <1>t
  <2> QED BY <1>0, <1>t, <2>1, DeliveredStill
<1>3. WantedInv'
  <2> SUFFICES ASSUME NEW t \in Carried' \cup Range(rDelayed'),
                      t \in Carried \cup Range(rDelayed),
                      t.type = "readback" => t.slot \notin W,
                      t.type = "destroy_stream" /\ t.stream = st =>
                        rStream'[st].made /\ ~rStream'[st].active
               PROVE  Wanted(t, rStream', rSlot')
    BY DEF WantedInv
  <2>1. Wanted(t, rStream, rSlot) /\ t.stream \in Streams
    BY <1>0, Wants DEF WantedInv
  <2>2. t.type = "readback" => rSlot'[t.slot] = rSlot[t.slot]
    BY <1>0, Wants
  <2>3. rStream[t.stream].slots \subseteq rStream'[t.stream].slots
    BY <2>1
  <2>4. t.stream # st => rStream'[t.stream] = rStream[t.stream]
    BY <2>1
  <2> QED BY <2>1, <2>2, <2>3, <2>4 DEF Wanted
<1>4. OrderInv'
  <2>1. InHand(rWorking') \subseteq Carried' /\ Range(rTasks') \subseteq Carried'
        /\ InPosts(rPosts') \subseteq Carried'
    BY DEF Carried
  <2>2. \A i \in DOMAIN rTasks' : rTasks'[i] \in Range(rTasks')
    BY DEF Range
  <2>3. \A t, u \in Carried' : Before(t, u, rSlot) => Before(t, u, rSlot')
    BY DEF Before
  <2>4. Line(rTasks', rSlot')
    BY <2>1, <2>2, <2>3 DEF InLine, Line
  <2> QED BY <2>1, <2>3, <2>4 DEF OrderInv, InLine
<1>5. QueuedInv'
  <2> SUFFICES ASSUME NEW su \in Streams, NEW s \in rStream'[su].slots,
                      rSlot'[s].state = "queued"
               PROVE  Readback!Task("readback", su, s) \in Carried'
    BY DEF QueuedInv
  <2>1. CASE s \in W
    <3>1. su = st
      BY <1>t, <2>1
    <3> QED BY <2>1, <3>1
  <2>2. CASE s \notin W
    <3>1. s \in rStream[su].slots /\ s \in ReadbackSlots
      BY <1>t, <2>2
    <3>2. rSlot[s].state = "queued"
      BY <2>2, <3>1
    <3>3. PICK t : t = Readback!Task("readback", su, s)
      OBVIOUS
    <3>4. t \in Carried /\ t.type = "readback" /\ t.slot = s
      BY <1>0, <3>1, <3>2, <3>3 DEF QueuedInv, Readback!Task
    <3> QED BY <2>2, <3>3, <3>4
  <2> QED BY <2>1, <2>2
<1>6. GpuInv'
  <2> SUFFICES ASSUME NEW s \in ReadbackSlots \ W, rGpu'[s]
               PROVE  /\ \E su \in Streams : s \in rStream'[su].slots
                      /\ \/ rSlot'[s].state = "rendering"
                         \/ rSlot'[s].state = "queued" /\ rFence'[s]
    BY DEF GpuInv
  <2>1. rGpu[s] /\ rSlot'[s] = rSlot[s] /\ rFence'[s] = rFence[s]
    OBVIOUS
  <2>2. PICK su \in Streams : s \in rStream[su].slots
    BY <1>0, <2>1 DEF GpuInv
  <2> QED BY <1>0, <2>1, <2>2 DEF GpuInv
<1> QED BY <1>1, <1>2, <1>3, <1>4, <1>5, <1>6 DEF ReadInv

-----------------------------------------------------------------------------
(* Readbacks: what a step does to the queues *)

LEMMA LineTail ==
    ASSUME NEW S, NEW q \in Seq(S), q # <<>>, NEW slots, Line(q, slots)
    PROVE  Line(Tail(q), slots) /\ \A u \in Range(Tail(q)) : Before(Head(q), u, slots)
<1>1. /\ Head(q) = q[1] /\ 1 \in DOMAIN q /\ DOMAIN Tail(q) \subseteq Nat
      /\ Len(Tail(q)) = Len(q) - 1 /\ Len(q) \in Nat /\ DOMAIN q = 1 .. Len(q)
      /\ DOMAIN Tail(q) = 1 .. Len(q) - 1
  OBVIOUS
<1>2. \A i \in DOMAIN Tail(q) : i + 1 \in DOMAIN q /\ Tail(q)[i] = q[i + 1] /\ 1 < i + 1
  BY <1>1
<1>3. \A i, j \in DOMAIN Tail(q) : i < j => i + 1 < j + 1
  BY <1>1
<1>4. Line(Tail(q), slots)
  BY <1>2, <1>3 DEF Line
<1>5. \A i \in DOMAIN Tail(q) : Before(Head(q), Tail(q)[i], slots)
  BY <1>1, <1>2 DEF Line
<1> QED BY <1>4, <1>5 DEF Range

LEMMA LineAppend ==
    ASSUME NEW S, NEW q \in Seq(S), NEW t \in S, NEW slots, Line(q, slots),
           \A u \in Range(q) : Before(u, t, slots), NEW r, Extends(r, q, t)
    PROVE  Line(r, slots)
<1>1. /\ r[Len(q) + 1] = t /\ Len(r) = Len(q) + 1 /\ Len(q) \in Nat
      /\ DOMAIN q = 1 .. Len(q) /\ DOMAIN r = 1 .. Len(q) + 1
      /\ \A i \in DOMAIN q : r[i] = q[i]
  BY DEF Extends
<1>2. \A i, j \in DOMAIN r : i < j => i \in DOMAIN q /\ (j \in DOMAIN q \/ j = Len(q) + 1)
  BY <1>1
<1>3. \A i \in DOMAIN q : q[i] \in Range(q)
  BY DEF Range
<1> QED BY <1>1, <1>2, <1>3 DEF Line

LEMMA ReadNexts ==
    ASSUME ReadTypes, rTasks \o rDelayed # <<>>
    PROVE  /\ Readback!NextTask \in Readback!Tasks
           /\ Readback!NextTask \in Range(rTasks) \cup Range(rDelayed)
           /\ rTasks # <<>> => Readback!NextTask = Head(rTasks)
           /\ rTasks = <<>> => rDelayed # <<>> /\ Readback!NextTask = Head(rDelayed)
<1> USE DEF ReadTypes, Readback!NextTask
<1>1. CASE rTasks # <<>>
  <2>1. Head(rTasks \o rDelayed) = Head(rTasks)
    BY <1>1
  <2> QED BY <1>1, <2>1, Taking
<1>2. CASE rTasks = <<>>
  <2>1. rTasks \o rDelayed = rDelayed
    BY <1>2
  <2> QED BY <1>2, <2>1, Taking
<1> QED BY <1>1, <1>2

\* The worker takes a task; a task that is delayed is not a readback.
LEMMA ReadTake ==
    ASSUME ReadTypes, SpotInv, OrderInv, rTasks \o rDelayed # <<>>,
           NEW t, t = Readback!NextTask,
           \/ Readback!Take(<<>>, <<>>)
           \/ Readback!Take(<<>>, <<t>>) /\ t.type # "readback"
    PROVE  /\ rTasks' \in Seq(Readback!Tasks) /\ rDelayed' \in Seq(Readback!Tasks)
           /\ Range(rTasks') \subseteq Range(rTasks)
           /\ Range(rTasks) \subseteq Range(rTasks') \cup {t}
           /\ Range(rDelayed') \subseteq Range(rDelayed) \cup {t}
           /\ \A u \in Range(rDelayed') : u.type # "readback"
           /\ Line(rTasks', rSlot)
           /\ t.type = "readback" =>
                t \in Range(rTasks) /\ \A u \in Range(rTasks') : Before(t, u, rSlot)
<1> USE DEF ReadTypes
<1>0. /\ t \in Readback!Tasks /\ Line(rTasks, rSlot)
      /\ \A u \in Range(rDelayed) : u.type # "readback"
  BY ReadNexts DEF SpotInv, OrderInv, InLine
<1>1. CASE rTasks # <<>>
  <2>1. rTasks' = Tail(rTasks) /\ t = Head(rTasks)
    BY <1>1, ReadNexts, Nothing, Taking DEF Readback!Take, Readback!Enqueued
  <2>2. rDelayed' = rDelayed \o <<>> \/ (rDelayed' = rDelayed \o <<t>> /\ t.type # "readback")
    BY <1>1 DEF Readback!Take
  <2>3. /\ rDelayed' \in Seq(Readback!Tasks)
        /\ Range(rDelayed') \subseteq Range(rDelayed) \cup {t}
        /\ \A u \in Range(rDelayed') : u.type # "readback"
    <3>1. CASE rDelayed' = rDelayed \o <<>>
      BY <1>0, <3>1, Nothing
    <3>2. CASE rDelayed' = rDelayed \o <<t>> /\ t.type # "readback"
      <4>1. Extends(rDelayed', rDelayed, t)
        BY <1>0, <3>2 DEF Extends
      <4> QED BY <1>0, <3>2, <4>1, Adding
    <3> QED BY <2>2, <3>1, <3>2
  <2> QED BY <1>0, <1>1, <2>1, <2>3, Taking, LineTail
<1>2. CASE rTasks = <<>>
  <2>1. rTasks' = <<>> /\ rDelayed # <<>> /\ t = Head(rDelayed)
    BY <1>2, ReadNexts, Nothing DEF Readback!Take, Readback!Enqueued
  <2> DEFINE rest == Tail(rDelayed)
  <2>2. /\ rest \in Seq(Readback!Tasks) /\ Range(rest) \subseteq Range(rDelayed)
        /\ t \in Range(rDelayed)
    BY <2>1, Taking
  <2>3. rDelayed' = rest \o <<>> \/ rDelayed' = rest \o <<t>>
    BY <1>2 DEF Readback!Take
  <2>4. /\ rDelayed' \in Seq(Readback!Tasks)
        /\ Range(rDelayed') \subseteq Range(rDelayed) \cup {t}
    <3> HIDE DEF rest
    <3>1. CASE rDelayed' = rest \o <<>>
      BY <2>2, <3>1, Nothing
    <3>2. CASE rDelayed' = rest \o <<t>>
      <4>1. Extends(rDelayed', rest, t)
        BY <1>0, <2>2, <3>2 DEF Extends
      <4> QED BY <1>0, <2>2, <4>1, Adding
    <3> QED BY <2>3, <3>1, <3>2
  <2>5. Line(rTasks', rSlot) /\ rTasks' \in Seq(Readback!Tasks)
    BY <2>1 DEF Line
  <2> QED BY <1>0, <1>2, <2>1, <2>2, <2>4, <2>5
<1> QED BY <1>1, <1>2

\* What the worker takes and does not begin to read.
LEMMA ReadTakeOther ==
    ASSUME ReadInv, rTasks \o rDelayed # <<>>, NEW t, t = Readback!NextTask,
           t.type # "readback",
           Readback!Take(<<>>, <<>>) \/ Readback!Take(<<>>, <<t>>),
           UNCHANGED <<rWorking, rPosts, rGpu>>
    PROVE  /\ rTasks' \in Seq(Readback!Tasks) /\ rDelayed' \in Seq(Readback!Tasks)
           /\ t \in Carried \cup Range(rDelayed)
           /\ Carried' \cup Range(rDelayed') \subseteq Carried \cup Range(rDelayed)
           /\ Carried' \subseteq Carried
           /\ \A u \in Carried : u.type = "readback" => u \in Carried'
           /\ InLine(InHand(rWorking'), rTasks', InPosts(rPosts'), rSlot)
           /\ SpotInv'
<1>0. ReadTypes /\ SpotInv /\ OrderInv
  BY DEF ReadInv
<1>1. /\ rTasks' \in Seq(Readback!Tasks) /\ rDelayed' \in Seq(Readback!Tasks)
      /\ Range(rTasks') \subseteq Range(rTasks)
      /\ Range(rTasks) \subseteq Range(rTasks') \cup {t}
      /\ Range(rDelayed') \subseteq Range(rDelayed) \cup {t}
      /\ \A u \in Range(rDelayed') : u.type # "readback"
      /\ Line(rTasks', rSlot)
  BY <1>0, ReadTake
<1>2. t \in Carried \cup Range(rDelayed)
  BY <1>0, ReadNexts DEF Carried
<1>3. InLine(InHand(rWorking'), rTasks', InPosts(rPosts'), rSlot)
  BY <1>0, <1>1 DEF OrderInv, InLine
<1>4. SpotInv'
  BY <1>0, <1>1 DEF SpotInv
<1> QED BY <1>1, <1>2, <1>3, <1>4 DEF Carried

\* Nothing happens to the queues.
LEMMA ReadQueuesStay ==
    ASSUME ReadInv, UNCHANGED <<rTasks, rDelayed, rWorking, rPosts>>,
           \A s \in ReadbackSlots : rGpu'[s] => rGpu[s] \/ rSlot[s].state # "queued"
    PROVE  /\ Carried' = Carried /\ Range(rDelayed') = Range(rDelayed)
           /\ InLine(InHand(rWorking'), rTasks', InPosts(rPosts'), rSlot)
           /\ SpotInv'
<1>0. ReadTypes /\ SpotInv /\ OrderInv /\ WantedInv
  BY DEF ReadInv
<1>1. rWorking # None => ~rGpu'[rWorking.slot]
  <2> SUFFICES ASSUME rWorking # None PROVE ~rGpu'[rWorking.slot]
    OBVIOUS
  <2>1. rWorking \in Carried /\ rWorking.type = "readback" /\ ~rGpu[rWorking.slot]
    BY <1>0 DEF Carried, InHand, SpotInv
  <2> QED BY <1>0, <2>1, Wants DEF WantedInv, Wanted
<1> QED BY <1>0, <1>1 DEF Carried, OrderInv, SpotInv

\* The render thread is about to post, and had nothing to post before.
LEMMA ReadPosting ==
    ASSUME ReadInv, NEW st \in Streams, NEW q \in Seq(Readback!Tasks), rPosts[st] = <<>>,
           rPosts' = [rPosts EXCEPT ![st] = q], UNCHANGED <<rTasks, rDelayed, rWorking>>,
           \A s \in ReadbackSlots : rGpu'[s] => rGpu[s] \/ rSlot[s].state # "queued",
           Single(q), \A t \in Range(q) : t.stream = st,
           \A t \in Range(q), u \in Carried : Before(u, t, rSlot)
    PROVE  /\ rPosts' \in [Streams -> Seq(Readback!Tasks)]
           /\ Carried' = Carried \cup Range(q) /\ Range(rDelayed') = Range(rDelayed)
           /\ InLine(InHand(rWorking'), rTasks', InPosts(rPosts'), rSlot)
           /\ SpotInv'
<1>0. ReadTypes /\ SpotInv /\ OrderInv /\ WantedInv
  BY DEF ReadInv
<1>1. rPosts' \in [Streams -> Seq(Readback!Tasks)]
  BY <1>0 DEF ReadTypes
<1>2. \A su \in Streams : rPosts'[su] = IF su = st THEN q ELSE rPosts[su]
  BY <1>0 DEF ReadTypes
<1>3. InPosts(rPosts') = InPosts(rPosts) \cup Range(q)
  <2>1. Range(rPosts[st]) = {}
    BY Nothing
  <2> QED BY <1>2, <2>1 DEF InPosts
<1>4. InLine(InHand(rWorking'), rTasks', InPosts(rPosts'), rSlot)
  <2>1. InHand(rWorking) \cup Range(rTasks) \subseteq Carried
    BY DEF Carried
  <2> QED BY <1>0, <1>3, <2>1 DEF OrderInv, InLine
<1>5. rWorking # None => ~rGpu'[rWorking.slot]
  <2> SUFFICES ASSUME rWorking # None PROVE ~rGpu'[rWorking.slot]
    OBVIOUS
  <2>1. rWorking \in Carried /\ rWorking.type = "readback" /\ ~rGpu[rWorking.slot]
    BY <1>0 DEF Carried, InHand, SpotInv
  <2> QED BY <1>0, <2>1, Wants DEF WantedInv, Wanted
<1>6. SpotInv'
  BY <1>0, <1>2, <1>5 DEF SpotInv
<1> QED BY <1>1, <1>3, <1>4, <1>6 DEF Carried

-----------------------------------------------------------------------------
(* Readbacks: the steps of the worker *)

LEMMA ReadOneStream ==
    ASSUME ReadTypes, NEW st \in Streams, NEW y \in ReadStreams,
           rStream' = [rStream EXCEPT ![st] = y]
    PROVE  /\ rStream' \in [Streams -> ReadStreams] /\ rStream'[st] = y
           /\ \A su \in Streams \ {st} : rStream'[su] = rStream[su]
BY DEF ReadTypes

\* A stream of which nothing changes that matters.
LEMMA DeliveredAlike ==
    ASSUME NEW x, NEW y, NEW slots, NEW last, Delivered(x, slots, last),
           y.made = x.made, y.active = x.active, y.slots = x.slots, y.time = x.time,
           y.targets = x.targets, y.free = x.free, y.ready = x.ready
    PROVE  Delivered(y, slots, last)
BY DEF Delivered, Frame

\* Some slots of a stream become free or are read, and the rest keeps its order.
Idles(x, y, slots, slots2, last2, W) ==
    /\ y.made /\ y.time = x.time /\ y.targets = x.targets
    /\ last2 <= x.time - x.targets /\ y.slots \ W \subseteq x.slots
    /\ \A r \in y.slots \ W : slots2[r] = slots[r]
    /\ \A r \in W : slots2[r].state \in {"free", "cpu_reading"}
    /\ Holds(y.free, y.slots, slots2, "free") /\ Holds(y.ready, y.slots, slots2, "ready")
    /\ Rising(y.ready, slots2)
    /\ \A r \in y.slots \ W : slots[r].state = "ready" =>
         \E i \in DOMAIN y.ready : y.ready[i] = r
    /\ \A r \in y.slots \ W : slots[r].state \in {"queued", "ready"} =>
         last2 < slots[r].time

LEMMA DeliveredIdle ==
    ASSUME NEW x, NEW y, NEW slots, NEW slots2, NEW last, NEW last2, NEW W,
           Delivered(x, slots, last), Idles(x, y, slots, slots2, last2, W)
    PROVE  Delivered(y, slots2, last2)
<1>1. \A s \in y.slots : Frame(s, y, slots2, last2)
  BY DEF Delivered, Frame, Idles
<1>2. \A r, s \in y.slots : r # s => InOrder(r, s, slots2)
  BY DEF Delivered, InOrder, Idles
<1> QED BY <1>1, <1>2 DEF Delivered, Idles

LEMMA StreamFields ==
    ASSUME ReadTypes, NEW st \in Streams
    PROVE  /\ rStream[st] \in ReadStreams /\ rStream[st].slots \subseteq ReadbackSlots
           /\ rStream[st].free \in Seq(ReadbackSlots) /\ rStream[st].ready \in Seq(ReadbackSlots)
           /\ rStream[st].pending \in Int /\ rStream[st].frames \in Int
           /\ rStream[st].targets \in {0, 1} /\ rStream[st].time \in Nat
           /\ rConsumed[st] \in Nat
BY DEF ReadTypes, ReadStreams

LEMMA ReadAllocateKeeps ==
    ASSUME ReadInv, Readback!AllocateSlot
    PROVE  ReadInv'
<1>t. PICK t : t = Readback!NextTask
  OBVIOUS
<1> DEFINE st == Readback!NextTask.stream
           x == rStream[st]
<1> DEFINE Fails == UNCHANGED rSlot /\ (\/ rStream' = [rStream EXCEPT ![st].pending = @ - 1]
                                       \/ rStream' = [rStream EXCEPT ![st].pending = @ - 1,
                                                   ![st].failed = TRUE, ![st].waiting = TRUE])
           Makes == \E bytes \in ActualBytes :
             LET s == CHOOSE s \in ReadbackSlots : s \notin Readback!InUse IN
             /\ rStream[st].active /\ Readback!InUse # ReadbackSlots
             /\ rStream' = [rStream EXCEPT ![st].pending = @ - 1,
                               ![st].failed = FALSE, ![st].waiting = FALSE,
                               ![st].slots = @ \cup {s}, ![st].free = Append(@, s)]
             /\ rSlot' = [rSlot EXCEPT ![s] = Readback!NewSlot(bytes)]
<1>6. Fails \/ Makes
  BY DEF Readback!AllocateSlot
<1>0. /\ ReadTypes /\ Apart(rStream) /\ WantedInv /\ StopInv
      /\ \A su \in Streams : Delivered(rStream[su], rSlot, rConsumed[su])
  BY DEF ReadInv
<1>1. /\ rTasks \o rDelayed # <<>> /\ t.type = "allocate" /\ Readback!Take(<<>>, <<>>)
      /\ UNCHANGED <<rWorking, rStopping, rPosts, rGpu, rFence, rConsumed>>
  BY <1>t DEF Readback!AllocateSlot, Readback!IsNext
<1>2. /\ rTasks' \in Seq(Readback!Tasks) /\ rDelayed' \in Seq(Readback!Tasks)
      /\ t \in Carried \cup Range(rDelayed)
      /\ Carried' \cup Range(rDelayed') \subseteq Carried \cup Range(rDelayed)
      /\ Carried' \subseteq Carried
      /\ \A u \in Carried : u.type = "readback" => u \in Carried'
      /\ InLine(InHand(rWorking'), rTasks', InPosts(rPosts'), rSlot)
      /\ SpotInv'
  BY <1>1, <1>t, ReadTakeOther
<1>3. st \in Streams /\ x \in ReadStreams
  BY <1>0, <1>2, <1>t, Wants, StreamFields
<1>f. /\ x.slots \subseteq ReadbackSlots /\ x.free \in Seq(ReadbackSlots)
      /\ x.ready \in Seq(ReadbackSlots) /\ x.pending \in Int
  BY <1>0, <1>3, StreamFields
<1> DEFINE v == x.pending - 1
<1>v. v \in Int
  BY <1>f
<1> HIDE DEF v, st
<1>4. CASE Fails
  <2> DEFINE z == [x EXCEPT !.pending = v]
             f == [x EXCEPT !.pending = v, !.failed = TRUE, !.waiting = TRUE]
  <2>1. PICK y \in {z, f} : rStream' = [rStream EXCEPT ![st] = y]
    BY <1>4 DEF v
  <2> HIDE DEF x
  <2>3. /\ y \in ReadStreams /\ y.made = x.made /\ y.active = x.active /\ y.slots = x.slots
        /\ y.free = x.free /\ y.ready = x.ready /\ y.time = x.time /\ y.targets = x.targets
    <3>1. /\ z \in ReadStreams /\ z.made = x.made /\ z.active = x.active /\ z.slots = x.slots
          /\ z.free = x.free /\ z.ready = x.ready /\ z.time = x.time /\ z.targets = x.targets
      BY <1>3, <1>v DEF ReadStreams
    <3>2. /\ f \in ReadStreams /\ f.made = x.made /\ f.active = x.active /\ f.slots = x.slots
          /\ f.free = x.free /\ f.ready = x.ready /\ f.time = x.time /\ f.targets = x.targets
      BY <1>3, <1>v DEF ReadStreams
    <3> QED BY <2>1, <3>1, <3>2
  <2> HIDE DEF z, f
  <2>4. /\ rStream' \in [Streams -> ReadStreams] /\ rStream'[st] = y
        /\ \A su \in Streams \ {st} : rStream'[su] = rStream[su]
    BY <1>0, <1>3, <2>1, <2>3, ReadOneStream
  <2>5. Delivered(y, rSlot, rConsumed[st])
    <3>1. Delivered(x, rSlot, rConsumed[st])
      BY <1>0, <1>3 DEF x
    <3> QED BY <2>3, <3>1, DeliveredAlike
  <2>6. ReadTypes'
    BY <1>0, <1>1, <1>2, <1>4, <2>4 DEF ReadTypes
  <2>7. StopInv'
    BY <1>0, <1>1, <1>3, <2>3, <2>4 DEF StopInv, x
  <2> DEFINE W == {}
  <2>8. /\ \A su \in Streams \ {st} : /\ rStream'[su] = rStream[su]
                                      /\ rConsumed'[su] = rConsumed[su]
                                      /\ W \cap rStream[su].slots = {}
        /\ \A s \in ReadbackSlots \ W : /\ rSlot'[s] = rSlot[s] /\ rFence'[s] = rFence[s]
                                        /\ rGpu'[s] => rGpu[s]
        /\ \A s \in W : FALSE
    BY <1>1, <1>4, <2>4
  <2>9. /\ rStream[st].slots \subseteq rStream'[st].slots
        /\ rStream'[st].slots \subseteq rStream[st].slots \cup W
    BY <2>3, <2>4 DEF x
  <2>10. Delivered(rStream'[st], rSlot', rConsumed'[st])
    BY <1>1, <1>4, <2>4, <2>5
  <2>11. \A u \in Carried' \cup Range(rDelayed') :
             \/ Wanted(u, rStream', rSlot')
             \/ /\ u \in Carried \cup Range(rDelayed)
                /\ u.type = "readback" => u.slot \notin W
                /\ u.type = "destroy_stream" /\ u.stream = st =>
                     rStream'[st].made /\ ~rStream'[st].active
    <3> SUFFICES ASSUME NEW u \in Carried' \cup Range(rDelayed')
                 PROVE  Wanted(u, rStream', rSlot')
      OBVIOUS
    <3>1. u \in Carried \cup Range(rDelayed) /\ Wanted(u, rStream, rSlot)
      BY <1>0, <1>2 DEF WantedInv
    <3>2. u.stream \in Streams
      BY <1>0, <3>1, Wants
    <3>3. /\ rStream'[u.stream].slots = rStream[u.stream].slots
          /\ rStream'[u.stream].made = rStream[u.stream].made
          /\ rStream'[u.stream].active = rStream[u.stream].active
      BY <2>3, <2>4, <3>2 DEF x
    <3> QED BY <1>4, <3>1, <3>3 DEF Wanted
  <2>12. /\ \A u \in Carried' : u.type = "readback" =>
               rSlot'[u.slot].time = rSlot[u.slot].time
         /\ \A u \in Carried : u.type = "readback" => u \in Carried' \/ u.slot \in W
    BY <1>2, <1>4
  <2> HIDE DEF W
  <2> QED BY <1>2, <1>3, <2>6, <2>7, <2>8, <2>9, <2>10, <2>11, <2>12, ReadStep
<1>5. CASE Makes
  <2> PICK s : s = CHOOSE r \in ReadbackSlots : r \notin Readback!InUse
    OBVIOUS
  <2>1. PICK bytes \in ActualBytes :
             /\ s = CHOOSE r \in ReadbackSlots : r \notin Readback!InUse
             /\ x.active /\ Readback!InUse # ReadbackSlots
             /\ rStream' = [rStream EXCEPT ![st].pending = @ - 1,
                               ![st].failed = FALSE, ![st].waiting = FALSE,
                               ![st].slots = @ \cup {s}, ![st].free = Append(@, s)]
             /\ rSlot' = [rSlot EXCEPT ![s] = Readback!NewSlot(bytes)]
    BY <1>5
  <2>2. s \in ReadbackSlots /\ \A su \in Streams : s \notin rStream[su].slots
    <3>1. Readback!InUse \subseteq ReadbackSlots
      BY <1>0, StreamFields DEF Readback!InUse
    <3>2. \E r \in ReadbackSlots : r \notin Readback!InUse
      BY <2>1, <3>1
    <3>3. s \in ReadbackSlots /\ s \notin Readback!InUse
      BY <2>1, <3>2
    <3> QED BY <3>3 DEF Readback!InUse
  <2> DEFINE free == Append(x.free, s)
             y == [x EXCEPT !.pending = v, !.failed = FALSE, !.waiting = FALSE,
                            !.slots = x.slots \cup {s}, !.free = free]
  <2>4. rStream' = [rStream EXCEPT ![st] = y]
    <3>1. rStream' = [rStream EXCEPT ![st].pending = v, ![st].failed = FALSE,
                                     ![st].waiting = FALSE, ![st].slots = x.slots \cup {s},
                                     ![st].free = free]
      BY <2>1 DEF v
    <3> HIDE DEF free
    <3> QED BY <3>1, ZenonT(60)
  <2>5. /\ rSlot' \in [ReadbackSlots -> ReadSlots] /\ rSlot'[s].state = "free"
        /\ \A r \in ReadbackSlots \ {s} : rSlot'[r] = rSlot[r]
    <3> DEFINE z == Readback!NewSlot(bytes)
    <3>1. z \in ReadSlots /\ z.state = "free"
      BY BudgetAssumption DEF Readback!NewSlot, ReadSlots, Readback!States
    <3>2. rSlot' = [rSlot EXCEPT ![s] = z]
      BY <2>1
    <3> HIDE DEF z
    <3> QED BY <1>0, <2>2, <3>1, <3>2 DEF ReadTypes
  <2>d. Delivered(x, rSlot, rConsumed[st])
    BY <1>0, <1>3
  <2>a. x.active /\ x.made /\ s \notin x.slots
    BY <1>3, <2>1, <2>2, <2>d DEF Delivered
  <2>w. \A r \in x.slots : rSlot'[r] = rSlot[r]
    BY <1>f, <2>5, <2>a
  <2>b. rStream[st] = x
    OBVIOUS
  <2> HIDE DEF x
  <2>o. PICK more : more = x.slots \cup {s}
    OBVIOUS
  <2>6. free \in Seq(ReadbackSlots) /\ Holds(free, more, rSlot', "free")
    <3>1. Holds(x.free, x.slots, rSlot, "free")
      BY <2>d DEF Delivered
    <3>2. s \notin Range(x.free) /\ Holds(x.free, more, rSlot', "free")
      BY <2>a, <2>w, <2>o, <3>1 DEF Holds, Range
    <3>3. x.free \in Seq(ReadbackSlots) /\ s \in more /\ rSlot'[s].state = "free"
      BY <1>f, <2>5, <2>o
    <3> QED BY <2>2, <3>2, <3>3, HeldMore
  <2> HIDE DEF free
  <2>7. /\ y \in ReadStreams /\ y.made = x.made /\ y.active = x.active /\ y.slots = more
        /\ y.free = free /\ y.ready = x.ready /\ y.time = x.time /\ y.targets = x.targets
    BY <1>3, <1>v, <1>f, <2>2, <2>6, <2>o DEF ReadStreams
  <2> HIDE DEF y
  <2>8. /\ rStream' \in [Streams -> ReadStreams] /\ rStream'[st] = y
        /\ \A su \in Streams \ {st} : rStream'[su] = rStream[su]
    BY <1>0, <1>3, <2>4, <2>7, ReadOneStream
  <2> DEFINE W == {s}
  <2>9. Delivered(y, rSlot', rConsumed[st])
    <3>1. Holds(x.ready, y.slots, rSlot', "ready") /\ Rising(x.ready, rSlot')
      BY <2>d, <2>w, <2>7, <2>o DEF Delivered, Holds, Rising
    <3>2. /\ y.slots \ W \subseteq x.slots /\ \A r \in W : rSlot'[r].state \in {"free", "cpu_reading"}
          /\ \A r \in y.slots \ W : rSlot'[r] = rSlot[r]
      BY <2>5, <2>7, <2>o, <2>w
    <3> HIDE DEF W
    <3>3. /\ \A r \in y.slots \ W : rSlot[r].state = "ready" =>
               \E i \in DOMAIN y.ready : y.ready[i] = r
          /\ \A r \in y.slots \ W : rSlot[r].state \in {"queued", "ready"} =>
               rConsumed[st] < rSlot[r].time
      BY <2>d, <2>7, <3>2 DEF Delivered, Frame
    <3>4. rConsumed[st] <= x.time - x.targets
      BY <2>d DEF Delivered
    <3>5. y.made /\ y.time = x.time /\ y.targets = x.targets
      BY <2>a, <2>7
    <3>6. Holds(y.free, y.slots, rSlot', "free") /\ Holds(y.ready, y.slots, rSlot', "ready")
      BY <2>6, <2>7, <3>1
    <3>7. Rising(y.ready, rSlot')
      BY <2>7, <3>1
    <3>8. Idles(x, y, rSlot, rSlot', rConsumed[st], W)
      BY <3>2, <3>3, <3>4, <3>5, <3>6, <3>7 DEF Idles
    <3> QED BY <2>d, <3>8, DeliveredIdle
  <2>10. ReadTypes'
    BY <1>0, <1>1, <1>2, <2>5, <2>8 DEF ReadTypes
  <2>11. StopInv'
    BY <1>0, <1>1, <1>3, <2>7, <2>8, <2>b DEF StopInv
  <2>12. /\ \A su \in Streams \ {st} : /\ rStream'[su] = rStream[su]
                                       /\ rConsumed'[su] = rConsumed[su]
                                       /\ W \cap rStream[su].slots = {}
         /\ \A r \in ReadbackSlots \ W : /\ rSlot'[r] = rSlot[r] /\ rFence'[r] = rFence[r]
                                         /\ rGpu'[r] => rGpu[r]
    BY <1>1, <2>2, <2>5, <2>8
  <2>13. /\ \A r \in W : rGpu'[r] =>
               /\ r \in rStream'[st].slots
               /\ rSlot'[r].state = "rendering" \/ (rSlot'[r].state = "queued" /\ rFence'[r])
         /\ \A r \in W : r \in rStream'[st].slots /\ rSlot'[r].state = "queued" =>
               Readback!Task("readback", st, r) \in Carried'
    BY <1>0, <1>1, <2>2, <2>5 DEF ReadInv, GpuInv
  <2>14. /\ rStream[st].slots \subseteq rStream'[st].slots
         /\ rStream'[st].slots \subseteq rStream[st].slots \cup W
    BY <2>7, <2>8, <2>o, <2>b
  <2>15. Delivered(rStream'[st], rSlot', rConsumed'[st])
    BY <1>1, <2>8, <2>9
  <2>16. \A u \in Carried \cup Range(rDelayed) : u.type = "readback" => u.slot # s
    BY <1>0, <2>2, Wants DEF WantedInv, Wanted
  <2>17. \A u \in Carried' \cup Range(rDelayed') :
             \/ Wanted(u, rStream', rSlot')
             \/ /\ u \in Carried \cup Range(rDelayed)
                /\ u.type = "readback" => u.slot \notin W
                /\ u.type = "destroy_stream" /\ u.stream = st =>
                     rStream'[st].made /\ ~rStream'[st].active
    <3> SUFFICES ASSUME NEW u \in Carried' \cup Range(rDelayed'),
                        u.type = "destroy_stream", u.stream = st
                 PROVE  FALSE
      BY <1>2, <2>16
    <3>1. Wanted(u, rStream, rSlot)
      BY <1>0, <1>2 DEF WantedInv
    <3> QED BY <2>a, <2>b, <3>1 DEF Wanted
  <2>18. /\ \A u \in Carried' : u.type = "readback" =>
               rSlot'[u.slot].time = rSlot[u.slot].time
         /\ \A u \in Carried : u.type = "readback" => u \in Carried' \/ u.slot \in W
    <3>1. \A u \in Carried' : u.type = "readback" => u.slot \in ReadbackSlots
      BY <1>0, <1>2, Wants
    <3> QED BY <1>2, <2>5, <2>16, <3>1
  <2> HIDE DEF W
  <2> QED BY <1>2, <1>3, <2>10, <2>11, <2>12, <2>13, <2>14, <2>15, <2>17, <2>18, ReadStep
<1> QED BY <1>4, <1>5, <1>6

\* Tasks move from queue to queue.
LEMMA ReadQueuesOnly ==
    ASSUME ReadInv, ReadTypes', UNCHANGED <<rStream, rSlot, rConsumed>>,
           \A s \in ReadbackSlots : rGpu'[s] => rGpu[s] /\ rFence'[s] = rFence[s],
           Carried' \cup Range(rDelayed') \subseteq Carried \cup Range(rDelayed),
           \A t \in Carried : t.type = "readback" => t \in Carried',
           InLine(InHand(rWorking'), rTasks', InPosts(rPosts'), rSlot),
           SpotInv', StopInv'
    PROVE  ReadInv'
<1>1. WantedInv' /\ OrderInv' /\ GpuInv'
  BY DEF ReadInv, WantedInv, OrderInv, GpuInv
<1>2. QueuedInv'
  BY DEF ReadInv, QueuedInv, Readback!Task
<1> QED BY <1>1, <1>2 DEF ReadInv

LEMMA BeginReadbackKeeps ==
    ASSUME ReadInv, Readback!BeginReadback
    PROVE  ReadInv'
<1>t. PICK t : t = Readback!NextTask
  OBVIOUS
<1>0. ReadTypes /\ WantedInv /\ StopInv /\ GpuInv /\ SpotInv /\ OrderInv
  BY DEF ReadInv
<1>1. /\ rWorking = None /\ rTasks \o rDelayed # <<>> /\ t.type = "readback"
      /\ rFence[t.slot] => ~rGpu[t.slot]
      /\ Readback!Take(<<>>, <<>>) /\ rWorking' = t
      /\ rFence' = [rFence EXCEPT ![t.slot] = FALSE]
      /\ UNCHANGED <<rStream, rSlot, rStopping, rPosts, rGpu, rConsumed>>
  BY <1>t DEF Readback!BeginReadback, Readback!Idle, Readback!IsNext
<1>2. /\ rTasks' \in Seq(Readback!Tasks) /\ rDelayed' \in Seq(Readback!Tasks)
      /\ Range(rTasks') \subseteq Range(rTasks)
      /\ Range(rTasks) \subseteq Range(rTasks') \cup {t}
      /\ Range(rDelayed') \subseteq Range(rDelayed) \cup {t}
      /\ \A u \in Range(rDelayed') : u.type # "readback"
      /\ Line(rTasks', rSlot)
      /\ t \in Range(rTasks) /\ \A u \in Range(rTasks') : Before(t, u, rSlot)
  BY <1>0, <1>1, <1>t, ReadTake
<1>3. t \in Carried /\ t \in Readback!Tasks /\ t.slot \in ReadbackSlots
      /\ rSlot[t.slot].state = "queued"
  <2>1. t \in Carried
    BY <1>2 DEF Carried
  <2> QED BY <1>0, <1>1, <2>1, Wants DEF WantedInv, Wanted
<1>4. ~rGpu[t.slot]
  BY <1>0, <1>1, <1>3 DEF GpuInv
<1>5. t # None
  BY <1>3, TransfersAssumption
<1>6. ReadTypes'
  BY <1>0, <1>1, <1>2, <1>3 DEF ReadTypes
<1>7. InLine(InHand(rWorking'), rTasks', InPosts(rPosts'), rSlot)
  BY <1>0, <1>1, <1>2 DEF OrderInv, InLine, InHand
<1>8. SpotInv'
  BY <1>0, <1>1, <1>2, <1>4 DEF SpotInv
<1>9. StopInv'
  BY <1>0, <1>1 DEF StopInv
<1>10. InHand(rWorking) = {} /\ InHand(rWorking') = {t}
  BY <1>1, <1>5 DEF InHand
<1>11. /\ Carried' \cup Range(rDelayed') \subseteq Carried \cup Range(rDelayed)
       /\ \A u \in Carried : u.type = "readback" => u \in Carried'
  BY <1>1, <1>2, <1>3, <1>10 DEF Carried
<1>12. \A s \in ReadbackSlots : rGpu'[s] => rGpu[s] /\ rFence'[s] = rFence[s]
  BY <1>0, <1>1, <1>4 DEF ReadTypes
<1> QED BY <1>1, <1>6, <1>7, <1>8, <1>9, <1>11, <1>12, ReadQueuesOnly

\* The frame that was read is the oldest of its stream that is queued.
LEMMA Oldest ==
    ASSUME ReadInv, rWorking # None
    PROVE  LET st == rWorking.stream  s == rWorking.slot IN
           /\ st \in Streams /\ s \in rStream[st].slots /\ s \in ReadbackSlots
           /\ rSlot[s].state = "queued" /\ ~rGpu[s]
           /\ \A u \in Range(rTasks) \cup InPosts(rPosts) : u.type = "readback" => u.slot # s
           /\ \A r \in rStream[st].slots \ {s} :
                rSlot[r].state = "queued" => rSlot[s].time < rSlot[r].time
<1>t. PICK t : t = rWorking
  OBVIOUS
<1>0. ReadTypes /\ Apart(rStream) /\ WantedInv /\ SpotInv /\ OrderInv /\ QueuedInv
  BY DEF ReadInv
<1>1. t \in Carried /\ InHand(rWorking) = {t} /\ t.type = "readback" /\ ~rGpu[t.slot]
  BY <1>0, <1>t DEF Carried, InHand, SpotInv
<1>2. /\ t.stream \in Streams /\ t.slot \in rStream[t.stream].slots /\ t.slot \in ReadbackSlots
      /\ rSlot[t.slot].state = "queued"
  BY <1>0, <1>1, Wants DEF WantedInv, Wanted
<1>3. \A u \in Range(rTasks) \cup InPosts(rPosts) : Before(t, u, rSlot) /\ u \in Carried
  BY <1>0, <1>1 DEF OrderInv, InLine, Carried
<1>4. ASSUME NEW u \in Range(rTasks) \cup InPosts(rPosts), u.type = "readback", u.slot = t.slot
      PROVE  FALSE
  <2>1. u.stream \in Streams /\ u.slot \in rStream[u.stream].slots
    BY <1>0, <1>3, <1>4, Wants DEF WantedInv, Wanted
  <2>2. u.stream = t.stream
    BY <1>0, <1>2, <1>4, <2>1 DEF Apart
  <2>3. rSlot[t.slot].time < rSlot[t.slot].time /\ rSlot[t.slot].time \in Nat
    BY <1>0, <1>1, <1>2, <1>3, <1>4, <2>2 DEF Before, ReadTypes, ReadSlots
  <2> QED BY <2>3
<1>5. ASSUME NEW r \in rStream[t.stream].slots \ {t.slot}, rSlot[r].state = "queued"
      PROVE  rSlot[t.slot].time < rSlot[r].time
  <2>1. PICK u : u = Readback!Task("readback", t.stream, r)
    OBVIOUS
  <2>2. u \in Carried /\ u.type = "readback" /\ u.stream = t.stream /\ u.slot = r
    BY <1>0, <1>2, <1>5, <2>1 DEF QueuedInv, Readback!Task
  <2>3. u # t
    BY <1>5, <2>2
  <2>4. u \in Range(rTasks) \cup InPosts(rPosts)
    BY <1>1, <2>2, <2>3 DEF Carried
  <2> QED BY <1>1, <1>3, <2>2, <2>4 DEF Before
<1> QED BY <1>1, <1>2, <1>4, <1>5, <1>t

\* A frame that was read back joins the ready ones as the latest of them.
LEMMA DeliveredMore ==
    ASSUME NEW x \in ReadStreams, NEW y, NEW slots \in [ReadbackSlots -> ReadSlots],
           NEW slots2, NEW last,
           NEW s \in ReadbackSlots, NEW ready,
           Delivered(x, slots, last), s \in x.slots, slots[s].state = "queued",
           Extends(ready, x.ready, s),
           y.made = x.made, y.active = x.active, y.slots = x.slots, y.free = x.free,
           y.ready = ready, y.time = x.time, y.targets = x.targets,
           \A r \in x.slots \ {s} : slots2[r] = slots[r],
           slots2[s].state = "ready", slots2[s].time = slots[s].time,
           \A r \in x.slots \ {s} : slots[r].state = "queued" => slots[s].time < slots[r].time
    PROVE  ready \in Seq(ReadbackSlots) /\ Delivered(y, slots2, last)
<1>0. /\ x.ready \in Seq(ReadbackSlots) /\ x.slots \subseteq ReadbackSlots
      /\ Holds(x.ready, x.slots, slots, "ready") /\ Holds(x.free, x.slots, slots, "free")
  BY DEF ReadStreams, Delivered
<1>1. ready \in Seq(ReadbackSlots) /\ Holds(ready, x.slots, slots2, "ready")
  <2>1. Holds(x.ready, x.slots, slots2, "ready")
    BY <1>0, HeldWithout
  <2>2. s \notin Range(x.ready)
    BY <1>0 DEF Holds, Range
  <2>3. PICK q, o : q = x.ready /\ o = x.slots
    OBVIOUS
  <2>4. /\ q \in Seq(ReadbackSlots) /\ Holds(q, o, slots2, "ready") /\ s \in o
        /\ slots2[s].state = "ready" /\ s \notin Range(q)
    BY <1>0, <2>1, <2>2, <2>3
  <2>5. Append(q, s) \in Seq(ReadbackSlots) /\ Holds(Append(q, s), o, slots2, "ready")
    BY <2>4, HeldMore
  <2>6. ready = Append(q, s)
    BY <2>3 DEF Extends
  <2> QED BY <2>3, <2>5, <2>6
<1>2. Holds(x.free, x.slots, slots2, "free")
  BY <1>0, HeldWithout
<1>3. /\ ready[Len(x.ready) + 1] = s /\ Len(x.ready) \in Nat
      /\ DOMAIN x.ready = 1 .. Len(x.ready) /\ DOMAIN ready = 1 .. Len(x.ready) + 1
      /\ \A i \in DOMAIN x.ready : ready[i] = x.ready[i]
  BY <1>0 DEF Extends
<1>4. Rising(ready, slots2)
  <2> SUFFICES ASSUME NEW i \in DOMAIN ready, NEW j \in DOMAIN ready, i < j
               PROVE  slots2[ready[i]].time < slots2[ready[j]].time
    BY DEF Rising
  <2>1. i \in DOMAIN x.ready /\ ready[i] = x.ready[i] /\ x.ready[i] \in x.slots
        /\ slots[x.ready[i]].state = "ready"
    BY <1>0, <1>3 DEF Holds
  <2>2. slots2[ready[i]] = slots[x.ready[i]]
    BY <2>1
  <2>3. CASE j \in DOMAIN x.ready
    <3>1. x.ready[j] \in x.slots /\ slots[x.ready[j]].state = "ready" /\ ready[j] = x.ready[j]
      BY <1>0, <1>3, <2>3 DEF Holds
    <3>2. slots2[ready[j]] = slots[x.ready[j]]
      BY <3>1
    <3> QED BY <2>1, <2>2, <2>3, <3>2 DEF Delivered, Rising
  <2>4. CASE j = Len(x.ready) + 1
    <3>1. InOrder(x.ready[i], s, slots)
      BY <2>1 DEF Delivered
    <3> QED BY <1>3, <2>1, <2>2, <2>4, <3>1 DEF InOrder
  <2> QED BY <1>3, <2>3, <2>4
<1>5. ASSUME NEW r \in x.slots PROVE Frame(r, y, slots2, last)
  <2>1. Frame(r, x, slots, last)
    BY DEF Delivered
  <2>2. CASE r = s
    BY <1>3, <2>1, <2>2 DEF Frame
  <2>3. CASE r # s
    <3>1. slots2[r] = slots[r]
      BY <2>3
    <3>2. slots[r].state = "ready" => \E i \in DOMAIN ready : ready[i] = r
      BY <1>3, <2>1 DEF Frame
    <3> QED BY <2>1, <3>1, <3>2 DEF Frame
  <2> QED BY <2>2, <2>3
<1>6. ASSUME NEW r \in x.slots, NEW u \in x.slots, r # u PROVE InOrder(r, u, slots2)
  <2>1. InOrder(r, u, slots) /\ InOrder(u, r, slots)
    BY <1>6 DEF Delivered
  <2>t. slots[r].time \in Nat /\ slots[u].time \in Nat
    BY <1>0 DEF ReadSlots
  <2>2. CASE r = s
    <3>1. slots2[u] = slots[u] /\ (slots[u].state = "queued" => slots[s].time < slots[u].time)
      BY <1>6, <2>2
    <3>2. slots[u].state = "ready" => slots[u].time < slots[s].time
      BY <2>1, <2>2 DEF InOrder
    <3> QED BY <2>1, <2>t, <2>2, <3>1, <3>2 DEF InOrder
  <2>3. CASE u = s
    <3>1. slots2[r] = slots[r] /\ (slots[r].state = "ready" => slots[r].time < slots[s].time)
      BY <1>6, <2>1, <2>3 DEF InOrder
    <3> QED BY <2>1, <2>t, <2>3, <3>1 DEF InOrder
  <2>4. CASE r # s /\ u # s
    BY <2>1, <2>4 DEF InOrder
  <2> QED BY <2>2, <2>3, <2>4
<1> QED BY <1>1, <1>2, <1>4, <1>5, <1>6 DEF Delivered

LEMMA FinishReadbackKeeps ==
    ASSUME ReadInv, rWorking # None, NEW success \in BOOLEAN, Readback!FinishReadback(success)
    PROVE  ReadInv'
<1>st. PICK st : st = rWorking.stream
  OBVIOUS
<1>s. PICK s : s = rWorking.slot
  OBVIOUS
<1> DEFINE x == rStream[st]
<1>0. /\ ReadTypes /\ Apart(rStream) /\ WantedInv /\ SpotInv /\ OrderInv /\ StopInv /\ GpuInv
      /\ \A su \in Streams : Delivered(rStream[su], rSlot, rConsumed[su])
  BY DEF ReadInv
<1>1. /\ st \in Streams /\ s \in rStream[st].slots /\ s \in ReadbackSlots
      /\ rSlot[s].state = "queued" /\ ~rGpu[s]
      /\ \A u \in Range(rTasks) \cup InPosts(rPosts) : u.type = "readback" => u.slot # s
      /\ \A r \in rStream[st].slots \ {s} :
           rSlot[r].state = "queued" => rSlot[s].time < rSlot[r].time
  BY <1>st, <1>s, Oldest
<1> DEFINE Succeeds == /\ rSlot' = [rSlot EXCEPT ![s].state = "ready"]
                       /\ rStream' = [rStream EXCEPT ![st].ready = Append(@, s)]
           Fails == /\ rSlot' = [rSlot EXCEPT ![s].state = "free"]
                    /\ \/ rStream' = [rStream EXCEPT ![st].free = Append(@, s)]
                       \/ rStream' = [rStream EXCEPT ![st].free = @]
<1>2. /\ rWorking' = None /\ (Succeeds \/ Fails)
      /\ UNCHANGED <<rTasks, rDelayed, rStopping, rPosts, rGpu, rFence, rConsumed>>
  BY <1>st, <1>s DEF Readback!FinishReadback, Readback!Finish
<1>3. /\ x \in ReadStreams /\ x.slots \subseteq ReadbackSlots /\ x.free \in Seq(ReadbackSlots)
      /\ x.ready \in Seq(ReadbackSlots)
  BY <1>0, <1>1, StreamFields
<1>d. Delivered(x, rSlot, rConsumed[st])
  BY <1>0, <1>1
<1>x. x = rStream[st]
  OBVIOUS
<1>4. /\ InHand(rWorking') = {} /\ Range(rDelayed') = Range(rDelayed)
      /\ Carried' = Range(rTasks) \cup InPosts(rPosts) /\ Carried' \subseteq Carried
  BY <1>2 DEF InHand, Carried
<1>5. /\ InLine(InHand(rWorking'), rTasks', InPosts(rPosts'), rSlot)
      /\ SpotInv'
  BY <1>0, <1>2, <1>4 DEF OrderInv, InLine, SpotInv
<1>6. \A u \in Carried : u.type = "readback" => u \in Carried' \/ u.slot = s
  BY <1>s, <1>4 DEF Carried, InHand
\* What both outcomes have in common.
<1>7. ASSUME NEW y \in ReadStreams, rStream' = [rStream EXCEPT ![st] = y], y.slots = x.slots,
             y.made = x.made, y.active = x.active, rSlot'[s].state \in {"ready", "free"},
             rSlot' \in [ReadbackSlots -> ReadSlots],
             \A r \in ReadbackSlots \ {s} : rSlot'[r] = rSlot[r],
             Delivered(y, rSlot', rConsumed[st])
      PROVE  ReadInv'
  <2>1. /\ rStream' \in [Streams -> ReadStreams] /\ rStream'[st] = y
        /\ \A su \in Streams \ {st} : rStream'[su] = rStream[su]
    BY <1>0, <1>1, <1>7, ReadOneStream
  <2>2. ReadTypes'
    BY <1>0, <1>2, <1>7, <2>1 DEF ReadTypes
  <2>3. StopInv'
    BY <1>0, <1>1, <1>2, <1>7, <2>1 DEF StopInv
  <2> DEFINE W == {s}
  <2>4. /\ \A su \in Streams \ {st} : /\ rStream'[su] = rStream[su]
                                      /\ rConsumed'[su] = rConsumed[su]
                                      /\ W \cap rStream[su].slots = {}
        /\ \A r \in ReadbackSlots \ W : /\ rSlot'[r] = rSlot[r] /\ rFence'[r] = rFence[r]
                                        /\ rGpu'[r] => rGpu[r]
    BY <1>0, <1>1, <1>2, <1>7, <2>1 DEF Apart
  <2>5. /\ rStream[st].slots \subseteq rStream'[st].slots
        /\ rStream'[st].slots \subseteq rStream[st].slots \cup W
        /\ Delivered(rStream'[st], rSlot', rConsumed'[st])
    BY <1>2, <1>7, <2>1
  <2>6. /\ \A r \in W : rGpu'[r] =>
             /\ r \in rStream'[st].slots
             /\ rSlot'[r].state = "rendering" \/ (rSlot'[r].state = "queued" /\ rFence'[r])
        /\ \A r \in W : r \in rStream'[st].slots /\ rSlot'[r].state = "queued" =>
             Readback!Task("readback", st, r) \in Carried'
    BY <1>1, <1>2, <1>7
  <2>7. \A u \in Carried' \cup Range(rDelayed') :
             \/ Wanted(u, rStream', rSlot')
             \/ /\ u \in Carried \cup Range(rDelayed)
                /\ u.type = "readback" => u.slot \notin W
                /\ u.type = "destroy_stream" /\ u.stream = st =>
                     rStream'[st].made /\ ~rStream'[st].active
    <3> SUFFICES ASSUME NEW u \in Carried' \cup Range(rDelayed')
                 PROVE  /\ u \in Carried \cup Range(rDelayed)
                        /\ u.type = "readback" => u.slot \notin W
                        /\ u.type = "destroy_stream" /\ u.stream = st =>
                             rStream'[st].made /\ ~rStream'[st].active
      OBVIOUS
    <3>1. u \in Carried \cup Range(rDelayed) /\ (u.type = "readback" => u.slot \notin W)
      BY <1>0, <1>1, <1>4 DEF SpotInv
    <3> QED BY <1>0, <1>7, <2>1, <3>1 DEF WantedInv, Wanted
  <2>8. /\ \A u \in Carried' : u.type = "readback" =>
             rSlot'[u.slot].time = rSlot[u.slot].time
        /\ \A u \in Carried : u.type = "readback" => u \in Carried' \/ u.slot \in W
    <3>1. \A u \in Carried' : u.type = "readback" => u.slot \in ReadbackSlots /\ u.slot # s
      BY <1>0, <1>1, <1>4, Wants
    <3> QED BY <1>6, <1>7, <3>1
  <2> HIDE DEF W
  <2> QED BY <1>1, <1>5, <2>2, <2>3, <2>4, <2>5, <2>6, <2>7, <2>8, ReadStep
<1>8. CASE Succeeds
  <2> DEFINE ready == Append(x.ready, s)
             y == [x EXCEPT !.ready = ready]
             z == [rSlot[s] EXCEPT !.state = "ready"]
  <2>1. rStream' = [rStream EXCEPT ![st] = y] /\ rSlot' = [rSlot EXCEPT ![s] = z]
    BY <1>8
  <2>2. z \in ReadSlots /\ z.state = "ready" /\ z.time = rSlot[s].time
    BY <1>0, <1>1 DEF ReadTypes, ReadSlots, Readback!States
  <2> HIDE DEF z
  <2>3. /\ rSlot' \in [ReadbackSlots -> ReadSlots] /\ rSlot'[s] = z
        /\ \A r \in ReadbackSlots \ {s} : rSlot'[r] = rSlot[r]
    BY <1>0, <1>1, <2>1, <2>2 DEF ReadTypes
  <2>4. Extends(ready, x.ready, s)
    BY DEF Extends
  <2> HIDE DEF x, ready
  <2>5. ready \in Seq(ReadbackSlots)
    BY <1>1, <1>3, <2>4 DEF Extends
  <2>6. /\ y \in ReadStreams /\ y.made = x.made /\ y.active = x.active /\ y.slots = x.slots
        /\ y.free = x.free /\ y.ready = ready /\ y.time = x.time /\ y.targets = x.targets
    BY <1>3, <2>5 DEF ReadStreams
  <2> HIDE DEF y
  <2>7. Delivered(y, rSlot', rConsumed[st])
    <3>1. /\ \A r \in x.slots \ {s} : rSlot'[r] = rSlot[r]
          /\ rSlot'[s].state = "ready" /\ rSlot'[s].time = rSlot[s].time
      BY <1>3, <2>2, <2>3
    <3>2. s \in x.slots /\ rSlot[s].state = "queued" /\ rSlot \in [ReadbackSlots -> ReadSlots]
      BY <1>0, <1>1, <1>x DEF ReadTypes
    <3>3. \A r \in x.slots \ {s} : rSlot[r].state = "queued" => rSlot[s].time < rSlot[r].time
      BY <1>1, <1>x
    <3>4. PICK last : last = rConsumed[st]
      OBVIOUS
    <3>5. PICK slots2 : slots2 = rSlot'
      OBVIOUS
    <3>6. /\ \A r \in x.slots \ {s} : slots2[r] = rSlot[r]
          /\ slots2[s].state = "ready" /\ slots2[s].time = rSlot[s].time
          /\ Delivered(x, rSlot, last)
      BY <1>d, <3>1, <3>4, <3>5
    <3>7. Delivered(y, slots2, last)
      BY <1>1, <1>3, <2>4, <2>6, <3>2, <3>3, <3>6, DeliveredMore
    <3> QED BY <3>4, <3>5, <3>7
  <2> QED BY <1>7, <2>1, <2>2, <2>3, <2>6, <2>7
<1>9. CASE Fails
  <2> DEFINE more == Append(x.free, s)  z == [rSlot[s] EXCEPT !.state = "free"]
  <2>1. PICK free \in {x.free, more} : rStream' = [rStream EXCEPT ![st].free = free]
    BY <1>9
  <2> DEFINE y == [x EXCEPT !.free = free]
  <2>2. rStream' = [rStream EXCEPT ![st] = y] /\ rSlot' = [rSlot EXCEPT ![s] = z]
    BY <1>9, <2>1
  <2>3. z \in ReadSlots /\ z.state = "free"
    BY <1>0, <1>1 DEF ReadTypes, ReadSlots, Readback!States
  <2> HIDE DEF z
  <2>4. /\ rSlot' \in [ReadbackSlots -> ReadSlots] /\ rSlot'[s].state = "free"
        /\ \A r \in ReadbackSlots \ {s} : rSlot'[r] = rSlot[r]
    BY <1>0, <1>1, <2>2, <2>3 DEF ReadTypes
  <2> HIDE DEF x
  <2>w. \A r \in x.slots \ {s} : rSlot'[r] = rSlot[r]
    BY <1>3, <2>4
  <2>5. free \in Seq(ReadbackSlots) /\ Holds(free, x.slots, rSlot', "free")
    <3>1. Holds(x.free, x.slots, rSlot, "free")
      BY <1>d DEF Delivered
    <3>2. Holds(x.free, x.slots, rSlot', "free") /\ s \notin Range(x.free)
      BY <1>1, <2>w, <3>1, <1>x DEF Holds, Range
    <3>3. PICK q, o : q = x.free /\ o = x.slots
      OBVIOUS
    <3>4. /\ q \in Seq(ReadbackSlots) /\ Holds(q, o, rSlot', "free") /\ s \in o
          /\ rSlot'[s].state = "free" /\ s \notin Range(q)
      BY <1>1, <1>3, <1>x, <2>4, <3>2, <3>3
    <3>5. Append(q, s) \in Seq(ReadbackSlots) /\ Holds(Append(q, s), o, rSlot', "free")
      BY <1>1, <3>4, HeldMore
    <3> QED BY <1>3, <2>1, <3>2, <3>3, <3>5
  <2>6. /\ y \in ReadStreams /\ y.made = x.made /\ y.active = x.active /\ y.slots = x.slots
        /\ y.free = free /\ y.ready = x.ready /\ y.time = x.time /\ y.targets = x.targets
    BY <1>3, <2>5 DEF ReadStreams
  <2> HIDE DEF y
  <2>7. Delivered(y, rSlot', rConsumed[st])
    <3> DEFINE W == {s}
    <3>1. Holds(y.ready, y.slots, rSlot', "ready") /\ Rising(y.ready, rSlot')
      <4>1. Holds(x.ready, x.slots, rSlot, "ready") /\ Rising(x.ready, rSlot)
        BY <1>d DEF Delivered
      <4>2. \A i \in DOMAIN x.ready : x.ready[i] \in x.slots \ {s}
        BY <1>1, <4>1 DEF Holds
      <4>3. \A i \in DOMAIN x.ready : rSlot'[x.ready[i]] = rSlot[x.ready[i]]
        BY <2>w, <4>2
      <4> QED BY <2>6, <4>1, <4>3 DEF Holds, Rising
    <3>2. y.made
      <4>1. x.made
        BY <1>d, <1>1, <1>x DEF Delivered
      <4> QED BY <2>6, <4>1
    <3>3. /\ y.slots \ W \subseteq x.slots
          /\ \A r \in y.slots \ W : rSlot'[r] = rSlot[r]
          /\ \A r \in W : rSlot'[r].state \in {"free", "cpu_reading"}
      BY <2>4, <2>6, <2>w
    <3>4. rConsumed[st] <= x.time - x.targets
      BY <1>d DEF Delivered
    <3>5. /\ \A r \in y.slots \ W : rSlot[r].state = "ready" =>
               \E i \in DOMAIN y.ready : y.ready[i] = r
          /\ \A r \in y.slots \ W : rSlot[r].state \in {"queued", "ready"} =>
               rConsumed[st] < rSlot[r].time
      BY <1>d, <2>6 DEF Delivered, Frame
    <3> HIDE DEF W
    <3>6. Idles(x, y, rSlot, rSlot', rConsumed[st], W)
      BY <2>5, <2>6, <3>1, <3>2, <3>3, <3>4, <3>5 DEF Idles
    <3> QED BY <1>d, <3>6, DeliveredIdle
  <2> QED BY <1>7, <2>2, <2>4, <2>6, <2>7
<1> QED BY <1>2, <1>8, <1>9

LEMMA OneTail == ASSUME NEW S, NEW q \in Seq(S), Len(q) = 1 PROVE Range(Tail(q)) = {}
<1>1. DOMAIN Tail(q) = 1 .. 0
  OBVIOUS
<1>2. \A i \in 1 .. 0 : FALSE
  OBVIOUS
<1> QED BY <1>1, <1>2 DEF Range

LEMMA ReadDestroyKeeps ==
    ASSUME ReadInv, Readback!DestroyStream
    PROVE  ReadInv'
<1>t. PICK t : t = Readback!NextTask
  OBVIOUS
<1>st. PICK st : st = t.stream
  OBVIOUS
<1> DEFINE x == rStream[st]
<1>0. /\ ReadTypes /\ Apart(rStream) /\ WantedInv /\ SpotInv /\ OrderInv /\ StopInv /\ GpuInv
      /\ QueuedInv /\ \A su \in Streams : Delivered(rStream[su], rSlot, rConsumed[su])
  BY DEF ReadInv
<1>1. /\ rTasks \o rDelayed # <<>> /\ t.type = "destroy_stream"
      /\ UNCHANGED <<rSlot, rWorking, rStopping, rPosts, rGpu, rFence, rConsumed>>
      /\ \/ Readback!Take(<<>>, <<t>>) /\ UNCHANGED rStream
         \/ /\ \A s \in x.slots : rSlot[s].state \notin {"rendering", "queued", "cpu_reading"}
            /\ x.targets = 0
            /\ Readback!Take(<<>>, <<>>)
            /\ rStream' = [rStream EXCEPT ![st].slots = {}, ![st].free = <<>>,
                                          ![st].ready = <<>>]
  BY <1>t, <1>st DEF Readback!DestroyStream, Readback!IsNext
<1>2. /\ rTasks' \in Seq(Readback!Tasks) /\ rDelayed' \in Seq(Readback!Tasks)
      /\ t \in Carried \cup Range(rDelayed)
      /\ Carried' \cup Range(rDelayed') \subseteq Carried \cup Range(rDelayed)
      /\ Carried' \subseteq Carried
      /\ \A u \in Carried : u.type = "readback" => u \in Carried'
      /\ InLine(InHand(rWorking'), rTasks', InPosts(rPosts'), rSlot)
      /\ SpotInv'
  BY <1>1, <1>t, ReadTakeOther
<1>3. CASE UNCHANGED rStream
  <2>1. ReadTypes' /\ StopInv'
    BY <1>0, <1>1, <1>2, <1>3 DEF ReadTypes, StopInv
  <2> QED BY <1>1, <1>2, <1>3, <2>1, ReadQueuesOnly
<1>4. CASE /\ \A s \in x.slots : rSlot[s].state \notin {"rendering", "queued", "cpu_reading"}
           /\ x.targets = 0
           /\ rStream' = [rStream EXCEPT ![st].slots = {}, ![st].free = <<>>,
                                         ![st].ready = <<>>]
  <2>1. st \in Streams /\ x.made /\ ~x.active
    BY <1>0, <1>1, <1>2, <1>st, Wants DEF WantedInv, Wanted
  <2>2. x \in ReadStreams
    BY <1>0, <2>1, StreamFields
  <2> DEFINE y == [x EXCEPT !.slots = {}, !.free = <<>>, !.ready = <<>>]
  <2>3. rStream' = [rStream EXCEPT ![st] = y]
    BY <1>4
  <2>4. /\ y \in ReadStreams /\ y.made = x.made /\ y.active = x.active /\ y.slots = {}
        /\ y.free = <<>> /\ y.ready = <<>> /\ y.time = x.time /\ y.targets = x.targets
    <3>1. <<>> \in Seq(ReadbackSlots) /\ {} \in SUBSET ReadbackSlots
      OBVIOUS
    <3>2. PICK o, q : o = {} /\ q = <<>>
      OBVIOUS
    <3> DEFINE z == [x EXCEPT !.slots = o, !.free = q, !.ready = q]
    <3>3. y = z
      BY <3>2
    <3> HIDE DEF x, y
    <3>4. /\ z \in ReadStreams /\ z.made = x.made /\ z.active = x.active /\ z.slots = o
          /\ z.free = q /\ z.ready = q /\ z.time = x.time /\ z.targets = x.targets
      BY <2>2, <3>1, <3>2 DEF ReadStreams
    <3> QED BY <3>2, <3>3, <3>4
  <2> HIDE DEF y
  <2>5. /\ rStream' \in [Streams -> ReadStreams] /\ rStream'[st] = y
        /\ \A su \in Streams \ {st} : rStream'[su] = rStream[su]
    BY <1>0, <2>1, <2>3, <2>4, ReadOneStream
  <2>6. ReadTypes' /\ StopInv'
    BY <1>0, <1>1, <1>2, <2>4, <2>5 DEF ReadTypes, StopInv
  <2>7. Apart(rStream')
    BY <1>0, <2>4, <2>5 DEF Apart
  <2>8. Delivered(y, rSlot, rConsumed[st])
    <3>1. Delivered(x, rSlot, rConsumed[st])
      BY <1>0, <2>1
    <3>2. Holds(y.free, y.slots, rSlot, "free") /\ Holds(y.ready, y.slots, rSlot, "ready")
          /\ Rising(y.ready, rSlot)
      BY <2>4 DEF Holds, Rising
    <3> HIDE DEF x
    <3> QED BY <2>4, <3>1, <3>2 DEF Delivered
  <2>9. \A su \in Streams : Delivered(rStream'[su], rSlot', rConsumed'[su])
    BY <1>0, <1>1, <2>5, <2>8
  <2>10. \A u \in Carried \cup Range(rDelayed) :
           u.type = "readback" => u.stream # st
    BY <1>0, <1>4 DEF WantedInv, Wanted
  <2>11. WantedInv'
    <3> SUFFICES ASSUME NEW u \in Carried' \cup Range(rDelayed')
                 PROVE  Wanted(u, rStream', rSlot')
      BY DEF WantedInv
    <3>1. /\ u \in Carried \cup Range(rDelayed) /\ Wanted(u, rStream, rSlot)
          /\ u.stream \in Streams
      BY <1>0, <1>2, Wants DEF WantedInv
    <3> QED BY <1>1, <2>4, <2>5, <2>10, <3>1 DEF Wanted
  <2>12. OrderInv'
    BY <1>1, <1>2 DEF OrderInv
  <2>13. QueuedInv'
    <3> SUFFICES ASSUME NEW su \in Streams, NEW s \in rStream'[su].slots,
                        rSlot[s].state = "queued"
                 PROVE  Readback!Task("readback", su, s) \in Carried'
      BY <1>1 DEF QueuedInv
    <3>1. s \in rStream[su].slots
      BY <2>4, <2>5
    <3>2. PICK u : u = Readback!Task("readback", su, s)
      OBVIOUS
    <3>3. u \in Carried /\ u.type = "readback"
      BY <1>0, <3>1, <3>2 DEF QueuedInv, Readback!Task
    <3> QED BY <1>2, <3>2, <3>3
  <2>14. GpuInv'
    <3> SUFFICES ASSUME NEW s \in ReadbackSlots, rGpu[s]
                 PROVE  /\ \E su \in Streams : s \in rStream'[su].slots
                        /\ \/ rSlot[s].state = "rendering"
                           \/ rSlot[s].state = "queued" /\ rFence[s]
      BY <1>1 DEF GpuInv
    <3>1. /\ \/ rSlot[s].state = "rendering"
             \/ rSlot[s].state = "queued" /\ rFence[s]
          /\ \E su \in Streams : s \in rStream[su].slots
      BY <1>0 DEF GpuInv
    <3>2. s \notin x.slots
      BY <1>4, <3>1
    <3> QED BY <2>5, <3>1, <3>2
  <2> QED BY <1>2, <2>6, <2>7, <2>9, <2>11, <2>12, <2>13, <2>14 DEF ReadInv
<1> QED BY <1>1, <1>3, <1>4

-----------------------------------------------------------------------------
(* Readbacks: the steps of the render thread *)

LEMMA ReadPostKeeps ==
    ASSUME ReadInv, NEW st \in Streams, Readback!Post(st)
    PROVE  ReadInv'
<1> DEFINE q == rPosts[st]
<1>t. PICK t : t = Head(q)
  OBVIOUS
<1>0. ReadTypes /\ WantedInv /\ StopInv /\ SpotInv /\ OrderInv
  BY DEF ReadInv
<1>1. /\ q # <<>> /\ rPosts' = [rPosts EXCEPT ![st] = Tail(q)]
      /\ UNCHANGED <<rStream, rSlot, rDelayed, rWorking, rStopping, rGpu, rFence, rConsumed>>
  BY DEF Readback!Post
<1>2. q \in Seq(Readback!Tasks)
  BY <1>0 DEF ReadTypes
<1>3. /\ Tail(q) \in Seq(Readback!Tasks) /\ t \in Range(q) /\ t \in Readback!Tasks
      /\ Range(q) = Range(Tail(q)) \cup {t}
  BY <1>1, <1>2, <1>t, Taking
<1>4. ~rStopping
  BY <1>0, <1>1 DEF StopInv
<1>5. Extends(rTasks', rTasks, t)
  <2>1. rTasks' = rTasks \o <<t>> /\ rTasks \in Seq(Readback!Tasks)
    BY <1>0, <1>4, <1>t DEF Readback!Post, Readback!Enqueued, ReadTypes
  <2> QED BY <1>3, <2>1 DEF Extends
<1>6. /\ rTasks' \in Seq(Readback!Tasks)
      /\ \A u : u \in Range(rTasks') <=> u \in Range(rTasks) \/ u = t
  <2>1. rTasks \in Seq(Readback!Tasks)
    BY <1>0 DEF ReadTypes
  <2> QED BY <1>3, <1>5, <2>1, Adding
<1>7. /\ rPosts' \in [Streams -> Seq(Readback!Tasks)] /\ rPosts'[st] = Tail(q)
      /\ \A su \in Streams \ {st} : rPosts'[su] = rPosts[su]
  BY <1>0, <1>1, <1>3 DEF ReadTypes
<1>8. t \in InPosts(rPosts) /\ \A u \in InPosts(rPosts') : u \in InPosts(rPosts)
  <2>1. \A su \in Streams : Range(rPosts'[su]) \subseteq Range(rPosts[su])
    BY <1>3, <1>7
  <2>2. Range(q) \subseteq InPosts(rPosts)
    BY DEF InPosts
  <2> HIDE DEF q
  <2> QED BY <1>3, <2>1, <2>2 DEF InPosts
<1>9. InPosts(rPosts) \subseteq InPosts(rPosts') \cup {t}
  <2>1. \A su \in Streams : Range(rPosts[su]) \subseteq Range(rPosts'[su]) \cup {t}
    BY <1>3, <1>7
  <2> QED BY <2>1 DEF InPosts
<1>10. t.stream = st /\ (t.type = "readback" => Range(Tail(q)) = {})
  BY <1>0, <1>2, <1>3, OneTail DEF SpotInv, Single
<1>11. \A u \in InPosts(rPosts') : Before(t, u, rSlot)
  <2> SUFFICES ASSUME NEW su \in Streams, NEW u \in Range(rPosts'[su]), t.type = "readback",
                      u.stream = t.stream
               PROVE  FALSE
    BY DEF InPosts, Before
  <2>1. su # st
    BY <1>7, <1>10
  <2>2. u.stream = su
    BY <1>0, <1>7, <2>1 DEF SpotInv
  <2> QED BY <1>10, <2>1, <2>2
<1>12. InLine(InHand(rWorking'), rTasks', InPosts(rPosts'), rSlot)
  <2>1. Line(rTasks', rSlot)
    <3>1. /\ rTasks \in Seq(Readback!Tasks) /\ Line(rTasks, rSlot)
          /\ \A u \in Range(rTasks) : Before(u, t, rSlot)
      BY <1>0, <1>8 DEF ReadTypes, OrderInv, InLine
    <3> QED BY <1>3, <1>5, <3>1, LineAppend
  <2> QED BY <1>0, <1>1, <1>6, <1>8, <1>11, <2>1 DEF OrderInv, InLine
<1>13. ReadTypes'
  BY <1>0, <1>1, <1>6, <1>7 DEF ReadTypes
<1>14. StopInv'
  BY <1>1, <1>4 DEF StopInv
<1>15. SpotInv'
  <2>1. Single(Tail(q))
    <3>1. \A u \in Range(Tail(q)) : u.type # "readback"
      <4> SUFFICES ASSUME NEW u \in Range(Tail(q)), u.type = "readback" PROVE FALSE
        OBVIOUS
      <4>1. Len(q) = 1
        BY <1>0, <1>3 DEF SpotInv, Single
      <4> QED BY <1>2, <4>1, OneTail
    <3> QED BY <3>1 DEF Single
  <2> QED BY <1>0, <1>1, <1>3, <1>7, <2>1 DEF SpotInv
<1>16. /\ Carried' \cup Range(rDelayed') \subseteq Carried \cup Range(rDelayed)
       /\ \A u \in Carried : u.type = "readback" => u \in Carried'
  BY <1>1, <1>6, <1>8, <1>9 DEF Carried
<1> QED BY <1>1, <1>12, <1>13, <1>14, <1>15, <1>16, ReadQueuesOnly

\* Some slots of a stream that have no task change their states, and it may post.
StillDrawn(W) ==
    \A s \in W : rGpu'[s] => \/ rSlot'[s].state = "rendering"
                             \/ rSlot'[s].state = "queued" /\ rFence'[s]
Turns(st, y, W) ==
    /\ rStream' = [rStream EXCEPT ![st] = y] /\ W \subseteq rStream[st].slots
    /\ y \in ReadStreams /\ y.slots = rStream[st].slots
    /\ y.made = rStream[st].made /\ y.active = rStream[st].active
    /\ \A su \in Streams \ {st} : rConsumed'[su] = rConsumed[su]
    /\ \A s \in ReadbackSlots \ W : /\ rSlot'[s] = rSlot[s] /\ rFence'[s] = rFence[s]
                                    /\ rGpu'[s] = rGpu[s]
    /\ StillDrawn(W)
    /\ Delivered(y, rSlot', rConsumed'[st])

ReadRest ==
    /\ rSlot' \in [ReadbackSlots -> ReadSlots]
    /\ rPosts' \in [Streams -> Seq(Readback!Tasks)]
    /\ rGpu' \in [ReadbackSlots -> BOOLEAN] /\ rFence' \in [ReadbackSlots -> BOOLEAN]
    /\ rConsumed' \in [Streams -> Nat]
    /\ rTasks' = rTasks /\ rDelayed' = rDelayed /\ rWorking' = rWorking
    /\ rStopping' = rStopping

LEMMA ReadOwnSlots ==
    ASSUME ReadInv, NEW st \in Streams, NEW W, NEW y, Turns(st, y, W), ReadRest,
           \A s \in W : rSlot[s].state # "queued",
           \A s \in W : rSlot'[s].state = "queued" =>
             Readback!Task("readback", st, s) \in Carried',
           Carried \subseteq Carried',
           \A t \in Carried' : t \in Carried \/
             (/\ Wanted(t, rStream', rSlot')
              /\ t.type = "readback" => rSlot'[t.slot].time = rSlot[t.slot].time),
           InLine(InHand(rWorking'), rTasks', InPosts(rPosts'), rSlot),
           SpotInv', StopInv'
    PROVE  ReadInv'
<1>a. /\ rStream' = [rStream EXCEPT ![st] = y] /\ W \subseteq rStream[st].slots
      /\ y \in ReadStreams /\ y.slots = rStream[st].slots
      /\ y.made = rStream[st].made /\ y.active = rStream[st].active
      /\ \A su \in Streams \ {st} : rConsumed'[su] = rConsumed[su]
      /\ \A s \in ReadbackSlots \ W : /\ rSlot'[s] = rSlot[s] /\ rFence'[s] = rFence[s]
                                      /\ rGpu'[s] = rGpu[s]
      /\ Delivered(y, rSlot', rConsumed'[st])
  BY DEF Turns
<1>c. \A s \in W : rGpu'[s] => \/ rSlot'[s].state = "rendering"
                               \/ rSlot'[s].state = "queued" /\ rFence'[s]
  BY DEF Turns, StillDrawn
<1>b. /\ rSlot' \in [ReadbackSlots -> ReadSlots]
      /\ rPosts' \in [Streams -> Seq(Readback!Tasks)]
      /\ rGpu' \in [ReadbackSlots -> BOOLEAN] /\ rFence' \in [ReadbackSlots -> BOOLEAN]
      /\ rConsumed' \in [Streams -> Nat]
      /\ rTasks' = rTasks /\ rDelayed' = rDelayed /\ rWorking' = rWorking
      /\ rStopping' = rStopping
  BY DEF ReadRest
<1>0. /\ ReadTypes /\ Apart(rStream) /\ WantedInv
  BY DEF ReadInv
<1>1. /\ rStream' \in [Streams -> ReadStreams] /\ rStream'[st] = y
      /\ \A su \in Streams \ {st} : rStream'[su] = rStream[su]
  BY <1>0, <1>a, ReadOneStream
<1>2. ReadTypes'
  BY <1>0, <1>1, <1>b DEF ReadTypes
<1>3. W \subseteq ReadbackSlots
  BY <1>0, <1>a, StreamFields
<1>4. \A u \in Carried \cup Range(rDelayed) :
        /\ u.type = "readback" => u.slot \notin W /\ u.slot \in ReadbackSlots
        /\ u.type = "destroy_stream" /\ u.stream = st => y.made /\ ~y.active
  BY <1>0, <1>3, <1>a, Wants DEF WantedInv, Wanted
<1>5. Range(rDelayed') = Range(rDelayed)
  BY <1>b
<1>6. /\ \A su \in Streams \ {st} : /\ rStream'[su] = rStream[su]
                                    /\ rConsumed'[su] = rConsumed[su]
                                    /\ W \cap rStream[su].slots = {}
      /\ \A s \in ReadbackSlots \ W : /\ rSlot'[s] = rSlot[s] /\ rFence'[s] = rFence[s]
                                      /\ rGpu'[s] => rGpu[s]
  BY <1>0, <1>1, <1>a DEF Apart
<1>7. /\ rStream[st].slots \subseteq rStream'[st].slots
      /\ rStream'[st].slots \subseteq rStream[st].slots \cup W
      /\ Delivered(rStream'[st], rSlot', rConsumed'[st])
  BY <1>1, <1>a
<1>8. /\ \A s \in W : rGpu'[s] =>
           /\ s \in rStream'[st].slots
           /\ rSlot'[s].state = "rendering" \/ (rSlot'[s].state = "queued" /\ rFence'[s])
      /\ \A s \in W : s \in rStream'[st].slots /\ rSlot'[s].state = "queued" =>
           Readback!Task("readback", st, s) \in Carried'
  BY <1>1, <1>a, <1>c
<1>9. \A t \in Carried' \cup Range(rDelayed') :
        \/ Wanted(t, rStream', rSlot')
        \/ /\ t \in Carried \cup Range(rDelayed)
           /\ t.type = "readback" => t.slot \notin W
           /\ t.type = "destroy_stream" /\ t.stream = st =>
                rStream'[st].made /\ ~rStream'[st].active
  BY <1>1, <1>4, <1>5, <1>a
<1>10. \A t \in Carried' : t.type = "readback" => rSlot'[t.slot].time = rSlot[t.slot].time
  <2> SUFFICES ASSUME NEW t \in Carried', t.type = "readback", t \in Carried
               PROVE  rSlot'[t.slot].time = rSlot[t.slot].time
    OBVIOUS
  <2>1. t.slot \in ReadbackSlots \ W
    BY <1>4
  <2>2. rSlot'[t.slot] = rSlot[t.slot]
    BY <2>1, <1>a
  <2> QED BY <2>2
<1>11. \A t \in Carried : t.type = "readback" => t \in Carried' \/ t.slot \in W
  OBVIOUS
<1> QED BY <1>2, <1>6, <1>7, <1>8, <1>9, <1>10, <1>11, ReadStep


LEMMA ReadRetryElapsesKeeps ==
    ASSUME ReadInv, NEW st \in Streams, Readback!RetryElapses(st)
    PROVE  ReadInv'
<1> DEFINE x == rStream[st]  y == [x EXCEPT !.waiting = FALSE]  W == {}
<1>0. ReadTypes /\ StopInv /\ \A su \in Streams : Delivered(rStream[su], rSlot, rConsumed[su])
  BY DEF ReadInv
<1>1. /\ rStream' = [rStream EXCEPT ![st] = y]
      /\ UNCHANGED <<rSlot, rTasks, rDelayed, rWorking, rStopping, rPosts, rGpu, rFence, rConsumed>>
  BY DEF Readback!RetryElapses, Readback!worker
<1>2. /\ y \in ReadStreams /\ y.made = x.made /\ y.active = x.active /\ y.slots = x.slots
      /\ y.free = x.free /\ y.ready = x.ready /\ y.time = x.time /\ y.targets = x.targets
  <2>1. x \in ReadStreams
    BY <1>0, StreamFields
  <2> HIDE DEF x
  <2> QED BY <2>1 DEF ReadStreams
<1> HIDE DEF y
<1>3. Delivered(y, rSlot, rConsumed[st])
  <2>1. Delivered(x, rSlot, rConsumed[st])
    BY <1>0
  <2> HIDE DEF x
  <2> QED BY <1>2, <2>1, DeliveredAlike
<1>4. /\ Carried' = Carried /\ SpotInv'
      /\ InLine(InHand(rWorking'), rTasks', InPosts(rPosts'), rSlot)
  BY <1>1, ReadQueuesStay
<1>5. StopInv'
  BY <1>0, <1>1, <1>2 DEF StopInv, ReadTypes
<1>6. Turns(st, y, W)
  BY <1>1, <1>2, <1>3 DEF Turns, StillDrawn
<1>7. ReadRest
  BY <1>0, <1>1 DEF ReadRest, ReadTypes
<1>8. \A s \in W : FALSE
  OBVIOUS
<1> HIDE DEF W, x
<1> QED BY <1>4, <1>5, <1>6, <1>7, <1>8, ReadOwnSlots

LEMMA HeadMoves ==
    ASSUME NEW S, NEW q \in Seq(S), q # <<>>, NEW owned, NEW slots, NEW state,
           Holds(q, owned, slots, state)
    PROVE  /\ Append(Tail(q), Head(q)) \in Seq(S)
           /\ Holds(Append(Tail(q), Head(q)), owned, slots, state)
<1>1. PICK r, s : r = Tail(q) /\ s = Head(q)
  OBVIOUS
<1>2. /\ r \in Seq(S) /\ s \in owned /\ s \in S /\ slots[s].state = state
      /\ Holds(r, owned \ {s}, slots, state)
  BY <1>1, HeldTail
<1>3. Holds(r, owned, slots, state) /\ s \notin Range(r)
  BY <1>2 DEF Holds, Range
<1>4. Append(r, s) \in Seq(S) /\ Holds(Append(r, s), owned, slots, state)
  BY <1>2, <1>3, HeldMore
<1> QED BY <1>1, <1>4

\* A target is acquired: no other is out.
Targets(x, y, slots, slots2, s, free) ==
    /\ x.targets = 0 /\ x.time < MaxFrames /\ x.made /\ s \in x.slots
    /\ slots[s].state = "free" /\ Holds(free, x.slots \ {s}, slots, "free")
    /\ y.made = x.made /\ y.active = x.active /\ y.slots = x.slots /\ y.free = free
    /\ y.ready = x.ready /\ y.time = x.time + 1 /\ y.targets = 1
    /\ \A r \in x.slots \ {s} : slots2[r] = slots[r]
    /\ slots2[s].state = "rendering" /\ slots2[s].time = x.time + 1

LEMMA DeliveredTarget ==
    ASSUME NEW x \in ReadStreams, NEW y, NEW slots \in [ReadbackSlots -> ReadSlots],
           NEW slots2, NEW last \in Nat, NEW s, NEW free,
           Delivered(x, slots, last), Targets(x, y, slots, slots2, s, free)
    PROVE  Delivered(y, slots2, last)
<1>t. /\ x.targets = 0 /\ x.time < MaxFrames /\ x.made /\ s \in x.slots
      /\ slots[s].state = "free" /\ Holds(free, x.slots \ {s}, slots, "free")
      /\ y.made = x.made /\ y.active = x.active /\ y.slots = x.slots /\ y.free = free
      /\ y.ready = x.ready /\ y.time = x.time + 1 /\ y.targets = 1
      /\ \A r \in x.slots \ {s} : slots2[r] = slots[r]
      /\ slots2[s].state = "rendering" /\ slots2[s].time = x.time + 1
  BY DEF Targets
<1>0. /\ x.time \in Nat /\ x.slots \subseteq ReadbackSlots /\ MaxFrames \in Nat
      /\ Holds(x.ready, x.slots, slots, "ready")
  BY TransfersAssumption DEF ReadStreams, Delivered
<1>1. Holds(free, x.slots, slots2, "free")
  BY <1>t DEF Holds
<1>2. Holds(x.ready, x.slots, slots2, "ready")
  BY <1>0, <1>t, HeldWithout
<1>3. Rising(x.ready, slots2)
  <2>1. \A i \in DOMAIN x.ready : x.ready[i] \in x.slots \ {s}
    <3> SUFFICES ASSUME NEW i \in DOMAIN x.ready PROVE x.ready[i] \in x.slots \ {s}
      OBVIOUS
    <3>1. x.ready[i] \in x.slots /\ slots[x.ready[i]].state = "ready"
      BY <1>0 DEF Holds
    <3>2. slots[s].state # "ready"
      BY <1>t
    <3> QED BY <3>1, <3>2
  <2> QED BY <1>t, <2>1 DEF Delivered, Rising
<1>4. ASSUME NEW r \in x.slots PROVE Frame(r, y, slots2, last)
  <2>1. Frame(r, x, slots, last)
    BY DEF Delivered
  <2>2. CASE r = s
    BY <1>t, <2>2 DEF Frame
  <2>3. CASE r # s
    <3>1. slots2[r] = slots[r] /\ slots[r].state # "rendering" /\ slots[r].time \in Nat
      BY <1>0, <1>t, <2>1, <2>3 DEF Frame, ReadSlots
    <3>2. slots[r].state \in {"queued", "ready"} => slots[r].time <= y.time - y.targets
      BY <1>0, <1>t, <2>1, <3>1 DEF Frame
    <3> QED BY <1>t, <2>1, <3>1, <3>2 DEF Frame
  <2> QED BY <2>2, <2>3
<1>5. ASSUME NEW r \in x.slots, NEW u \in x.slots, r # u PROVE InOrder(r, u, slots2)
  <2>1. InOrder(r, u, slots) /\ Frame(r, x, slots, last) /\ Frame(u, x, slots, last)
    BY <1>5 DEF Delivered
  <2>2. slots[r].state # "rendering" /\ slots[u].state # "rendering"
    BY <1>t, <2>1 DEF Frame
  <2> QED BY <1>5, <1>t, <2>1, <2>2 DEF InOrder
<1>6. y.time <= MaxFrames /\ last <= y.time - y.targets
  BY <1>0, <1>t DEF Delivered
<1> QED BY <1>t, <1>1, <1>2, <1>3, <1>4, <1>5, <1>6 DEF Delivered

Acquires(st, x, s) ==
    /\ s = Head(x.free) /\ x.targets = 0 /\ x.free # <<>> /\ x.time < MaxFrames
    /\ rStream' = [rStream EXCEPT ![st].free = Tail(@), ![st].targets = @ + 1,
                                   ![st].time = @ + 1]
    /\ rSlot' = [rSlot EXCEPT ![s].state = "rendering", ![s].time = rStream[st].time + 1]
    /\ rGpu' = [rGpu EXCEPT ![s] = TRUE]

LEMMA ReadTargetKeeps ==
    ASSUME ReadInv, NEW st \in Streams, NEW x, x = rStream[st], NEW s,
           Acquires(st, x, s),
           UNCHANGED <<rTasks, rDelayed, rWorking, rStopping, rPosts, rFence, rConsumed>>
    PROVE  ReadInv'
<1>0. /\ ReadTypes /\ StopInv /\ \A su \in Streams : Delivered(rStream[su], rSlot, rConsumed[su])
  BY DEF ReadInv
<1>1. /\ x \in ReadStreams /\ x.free \in Seq(ReadbackSlots) /\ x.slots \subseteq ReadbackSlots
      /\ x.time \in Nat /\ rConsumed[st] \in Nat
  BY <1>0, StreamFields
<1>2. Delivered(x, rSlot, rConsumed[st])
  BY <1>0
<1>q. s = Head(x.free) /\ x.targets = 0 /\ x.free # <<>> /\ x.time < MaxFrames
  BY DEF Acquires
<1>p. PICK free : free = Tail(x.free)
  OBVIOUS
<1>3. /\ free \in Seq(ReadbackSlots) /\ s \in x.slots /\ rSlot[s].state = "free"
      /\ Holds(free, x.slots \ {s}, rSlot, "free") /\ s \in ReadbackSlots
  <2>1. Holds(x.free, x.slots, rSlot, "free")
    BY <1>2 DEF Delivered
  <2> QED BY <1>1, <1>p, <1>q, <2>1, HeldTail
<1> DEFINE time == x.time + 1
<1>4. time \in Nat
  BY <1>1
<1> DEFINE one == x.targets + 1
           y == [x EXCEPT !.free = free, !.targets = one, !.time = time]
           z == [rSlot[s] EXCEPT !.state = "rendering", !.time = time]
           W == {s}
<1>o. one = 1
  BY <1>q
<1>u. rStream' = [rStream EXCEPT ![st].free = free, ![st].targets = one, ![st].time = time]
  BY <1>p DEF Acquires
<1>6. rSlot' = [rSlot EXCEPT ![s] = z]
  BY DEF Acquires
<1>g. rGpu' = [rGpu EXCEPT ![s] = TRUE]
  BY DEF Acquires
<1> HIDE DEF time, one
<1>5. rStream' = [rStream EXCEPT ![st] = y]
  BY <1>u
<1>7. /\ y \in ReadStreams /\ y.made = x.made /\ y.active = x.active /\ y.slots = x.slots
      /\ y.free = free /\ y.ready = x.ready /\ y.time = time /\ y.targets = 1
  BY <1>o, <1>1, <1>3, <1>4 DEF ReadStreams
<1>8. z \in ReadSlots /\ z.state = "rendering" /\ z.time = time
  <2>1. rSlot[s] \in ReadSlots
    BY <1>0, <1>3 DEF ReadTypes
  <2> QED BY <1>4, <2>1 DEF ReadSlots, Readback!States
<1> HIDE DEF y, z
<1>9. /\ rSlot' \in [ReadbackSlots -> ReadSlots] /\ rSlot'[s] = z
      /\ \A r \in ReadbackSlots \ {s} : rSlot'[r] = rSlot[r]
  BY <1>0, <1>3, <1>6, <1>8 DEF ReadTypes
<1>10. /\ rGpu' \in [ReadbackSlots -> BOOLEAN]
       /\ \A r \in ReadbackSlots \ {s} : rGpu'[r] = rGpu[r]
  BY <1>0, <1>3, <1>g DEF ReadTypes
<1>11. Delivered(y, rSlot', rConsumed[st])
  <2> PICK slots, slots2 : slots = rSlot /\ slots2 = rSlot'
    OBVIOUS
  <2> PICK last : last = rConsumed[st]
    OBVIOUS
  <2>1. slots \in [ReadbackSlots -> ReadSlots] /\ Delivered(x, slots, last) /\ last \in Nat
    BY <1>0, <1>1, <1>2 DEF ReadTypes
  <2>2. x.made
    BY <1>2, <1>3 DEF Delivered
  <2>3. \A r \in x.slots \ {s} : slots2[r] = slots[r]
    BY <1>1, <1>9
  <2>4. slots2[s].state = "rendering" /\ slots2[s].time = x.time + 1 /\ y.time = x.time + 1
    BY <1>7, <1>8, <1>9 DEF time
  <2>5. slots[s].state = "free" /\ Holds(free, x.slots \ {s}, slots, "free")
    BY <1>3
  <2>6. Delivered(y, slots2, last)
    <3>1. Targets(x, y, slots, slots2, s, free)
      BY <1>3, <1>7, <1>q, <2>2, <2>3, <2>4, <2>5 DEF Targets
    <3> QED BY <1>1, <2>1, <3>1, DeliveredTarget
  <2> QED BY <2>6
<1>12. /\ Carried' = Carried /\ SpotInv'
       /\ InLine(InHand(rWorking'), rTasks', InPosts(rPosts'), rSlot)
  <2>1. \A r \in ReadbackSlots : rGpu'[r] => rGpu[r] \/ rSlot[r].state # "queued"
    BY <1>3, <1>10
  <2> QED BY <2>1, ReadQueuesStay
<1>13. StopInv'
  BY <1>0, <1>5, <1>7 DEF StopInv, ReadTypes
<1>14. Turns(st, y, W)
  <2>1. W \subseteq rStream[st].slots
    BY <1>3
  <2>2. \A r \in ReadbackSlots \ W : /\ rSlot'[r] = rSlot[r] /\ rFence'[r] = rFence[r]
                                     /\ rGpu'[r] = rGpu[r]
    BY <1>9, <1>10
  <2>3. \A r \in W : rGpu'[r] => \/ rSlot'[r].state = "rendering"
                                 \/ rSlot'[r].state = "queued" /\ rFence'[r]
    BY <1>8, <1>9
  <2>4. /\ y.slots = rStream[st].slots /\ y.made = rStream[st].made
        /\ y.active = rStream[st].active
    BY <1>7
  <2>5. /\ \A su \in Streams \ {st} : rConsumed'[su] = rConsumed[su]
        /\ Delivered(y, rSlot', rConsumed'[st])
    BY <1>11
  <2>6. y \in ReadStreams
    BY <1>7
  <2> HIDE DEF W
  <2>7. rStream' = [rStream EXCEPT ![st] = y] /\ W \subseteq rStream[st].slots
    BY <1>5, <2>1
  <2>8. \A r \in ReadbackSlots \ W : /\ rSlot'[r] = rSlot[r] /\ rFence'[r] = rFence[r]
                                     /\ rGpu'[r] = rGpu[r]
    BY <2>2
  <2>9. StillDrawn(W)
    BY <2>3 DEF StillDrawn
  <2> QED BY <2>4, <2>5, <2>6, <2>7, <2>8, <2>9 DEF Turns
<1>15. ReadRest
  BY <1>0, <1>9, <1>10 DEF ReadRest, ReadTypes
<1>16. \A r \in W : rSlot[r].state # "queued" /\ rSlot'[r].state # "queued"
  BY <1>3, <1>8, <1>9
<1> HIDE DEF W
<1> QED BY <1>12, <1>13, <1>14, <1>15, <1>16, ReadOwnSlots


\* A slot that cannot be acquired goes back to the end of the queue.
LEMMA ReadReturnKeeps ==
    ASSUME ReadInv, NEW st \in Streams, NEW x, x = rStream[st], NEW s, s = Head(x.free),
           x.free # <<>>,
           rStream' = [rStream EXCEPT ![st].free = Append(Tail(@), s)],
           rSlot' = [rSlot EXCEPT ![s].time = 0],
           UNCHANGED <<rTasks, rDelayed, rWorking, rStopping, rPosts, rGpu, rFence, rConsumed>>
    PROVE  ReadInv'
<1>0. /\ ReadTypes /\ StopInv /\ GpuInv
      /\ \A su \in Streams : Delivered(rStream[su], rSlot, rConsumed[su])
  BY DEF ReadInv
<1>1. /\ x \in ReadStreams /\ x.free \in Seq(ReadbackSlots) /\ x.slots \subseteq ReadbackSlots
      /\ x.time \in Nat /\ rConsumed[st] \in Nat
  BY <1>0, StreamFields
<1>2. Delivered(x, rSlot, rConsumed[st])
  BY <1>0
<1>p. PICK free : free = Append(Tail(x.free), s)
  OBVIOUS
<1>3. /\ free \in Seq(ReadbackSlots) /\ s \in x.slots /\ rSlot[s].state = "free"
      /\ Holds(free, x.slots, rSlot, "free") /\ s \in ReadbackSlots
  <2>1. Holds(x.free, x.slots, rSlot, "free")
    BY <1>2 DEF Delivered
  <2>2. free \in Seq(ReadbackSlots) /\ Holds(free, x.slots, rSlot, "free")
    BY <1>1, <1>p, <2>1, HeadMoves
  <2>3. s \in x.slots /\ rSlot[s].state = "free"
    BY <1>1, <2>1, HeldTail
  <2> QED BY <1>1, <2>2, <2>3
<1> DEFINE y == [x EXCEPT !.free = free]  z == [rSlot[s] EXCEPT !.time = 0]  W == {s}
<1>5. rStream' = [rStream EXCEPT ![st] = y]
  BY <1>p
<1>6. rSlot' = [rSlot EXCEPT ![s] = z]
  OBVIOUS
<1>7. /\ y \in ReadStreams /\ y.made = x.made /\ y.active = x.active /\ y.slots = x.slots
      /\ y.free = free /\ y.ready = x.ready /\ y.time = x.time /\ y.targets = x.targets
  BY <1>1, <1>3 DEF ReadStreams
<1>8. z \in ReadSlots /\ z.state = "free"
  <2>1. rSlot[s] \in ReadSlots
    BY <1>0, <1>3 DEF ReadTypes
  <2> QED BY <1>3, <2>1 DEF ReadSlots
<1> HIDE DEF y, z
<1>9. /\ rSlot' \in [ReadbackSlots -> ReadSlots] /\ rSlot'[s] = z
      /\ \A r \in ReadbackSlots \ {s} : rSlot'[r] = rSlot[r]
  BY <1>0, <1>3, <1>6, <1>8 DEF ReadTypes
<1>10. \A r \in ReadbackSlots : rSlot'[r].state = rSlot[r].state
  BY <1>3, <1>8, <1>9
<1>11. Delivered(y, rSlot', rConsumed[st])
  <2> PICK slots, slots2 : slots = rSlot /\ slots2 = rSlot'
    OBVIOUS
  <2> PICK last : last = rConsumed[st]
    OBVIOUS
  <2> PICK ready : ready = x.ready
    OBVIOUS
  <2>1. /\ Delivered(x, slots, last) /\ x.made /\ last <= x.time - x.targets
        /\ Holds(ready, x.slots, slots, "ready") /\ Rising(ready, slots)
        /\ \A r \in x.slots : Frame(r, x, slots, last)
    BY <1>2, <1>3 DEF Delivered
  <2>2. /\ \A r \in x.slots \ {s} : slots2[r] = slots[r]
        /\ \A r \in W : slots2[r].state \in {"free", "cpu_reading"}
        /\ \A r \in x.slots : slots2[r].state = slots[r].state
    BY <1>1, <1>8, <1>9, <1>10
  <2>3. Holds(free, x.slots, slots2, "free")
    <3>1. Holds(free, x.slots, slots, "free")
      BY <1>3
    <3>2. \A r \in x.slots : slots[r].state = "free" => r \in x.slots /\ slots2[r].state = "free"
      BY <2>2
    <3> QED BY <3>1, <3>2 DEF Holds
  <2>4. Holds(ready, x.slots, slots2, "ready")
    <3>1. Holds(ready, x.slots, slots, "ready")
      BY <2>1
    <3>2. \A r \in x.slots : slots[r].state = "ready" => r \in x.slots /\ slots2[r].state = "ready"
      BY <2>2
    <3> QED BY <3>1, <3>2 DEF Holds
  <2>5. Rising(ready, slots2)
    <3>1. \A i \in DOMAIN ready : ready[i] \in x.slots \ {s}
      BY <1>3, <2>1 DEF Holds
    <3> QED BY <2>1, <2>2, <3>1, SMTT(30) DEF Rising
  <2>6. /\ \A r \in x.slots \ W : slots[r].state = "ready" =>
              \E i \in DOMAIN ready : ready[i] = r
        /\ \A r \in x.slots \ W : slots[r].state \in {"queued", "ready"} =>
              last < slots[r].time
    BY <2>1 DEF Frame
  <2>7. \A r \in x.slots \ W : slots2[r] = slots[r]
    BY <2>2
  <2> HIDE DEF W
  <2>8. Idles(x, y, slots, slots2, last, W)
    <3>1. /\ y.made /\ y.time = x.time /\ y.targets = x.targets
          /\ last <= x.time - x.targets /\ y.slots \ W \subseteq x.slots
      BY <1>7, <2>1
    <3>2. /\ \A r \in y.slots \ W : slots2[r] = slots[r]
          /\ \A r \in W : slots2[r].state \in {"free", "cpu_reading"}
      BY <1>7, <2>2, <2>7
    <3>3. /\ Holds(y.free, y.slots, slots2, "free") /\ Holds(y.ready, y.slots, slots2, "ready")
          /\ Rising(y.ready, slots2)
      BY <1>7, <2>3, <2>4, <2>5
    <3>4. /\ \A r \in y.slots \ W : slots[r].state = "ready" =>
                \E i \in DOMAIN y.ready : y.ready[i] = r
          /\ \A r \in y.slots \ W : slots[r].state \in {"queued", "ready"} =>
                last < slots[r].time
      BY <1>7, <2>6
    <3> QED BY <3>1, <3>2, <3>3, <3>4 DEF Idles
  <2>9. Delivered(y, slots2, last)
    BY <2>1, <2>8, DeliveredIdle
  <2> QED BY <2>9
<1>12. /\ Carried' = Carried /\ SpotInv'
       /\ InLine(InHand(rWorking'), rTasks', InPosts(rPosts'), rSlot)
  BY ReadQueuesStay
<1>13. StopInv'
  BY <1>0, <1>5, <1>7 DEF StopInv, ReadTypes
<1>14. Turns(st, y, W)
  <2>1. W \subseteq rStream[st].slots
    BY <1>3
  <2>2. \A r \in ReadbackSlots \ W : /\ rSlot'[r] = rSlot[r] /\ rFence'[r] = rFence[r]
                                     /\ rGpu'[r] = rGpu[r]
    BY <1>9
  <2>3. \A r \in W : ~rGpu'[r]
    BY <1>0, <1>3 DEF GpuInv
  <2> HIDE DEF W
  <2> QED BY <1>5, <1>7, <1>11, <2>1, <2>2, <2>3 DEF Turns, StillDrawn
<1>15. ReadRest
  BY <1>0, <1>9 DEF ReadRest, ReadTypes
<1>16. \A r \in W : rSlot[r].state # "queued" /\ rSlot'[r].state # "queued"
  BY <1>3, <1>8, <1>9
<1> HIDE DEF W
<1> QED BY <1>12, <1>13, <1>14, <1>15, <1>16, ReadOwnSlots

\* Tasks that are no readbacks are posted by the render thread.
LEMMA ReadPostsOthers ==
    ASSUME ReadInv, NEW st \in Streams, NEW type \in {"allocate", "destroy_stream"},
           NEW q, q = <<Readback!Task(type, st, None)>>, rPosts[st] = <<>>,
           rPosts' = [rPosts EXCEPT ![st] = q], UNCHANGED <<rTasks, rDelayed, rWorking, rGpu>>
    PROVE  /\ rPosts' \in [Streams -> Seq(Readback!Tasks)]
           /\ Range(rDelayed') = Range(rDelayed)
           /\ \A t : t \in Carried' <=> t \in Carried \/ t = Readback!Task(type, st, None)
           /\ InLine(InHand(rWorking'), rTasks', InPosts(rPosts'), rSlot)
           /\ SpotInv'
<1>t. PICK t : t = Readback!Task(type, st, None)
  OBVIOUS
<1>1. t \in Readback!Tasks /\ t.stream = st /\ t.type # "readback"
  BY <1>t DEF Readback!Task, Readback!Tasks
<1>2. q \in Seq(Readback!Tasks) /\ \A u : u \in Range(q) <=> u = t
  BY <1>1, <1>t DEF Range
<1>3. Single(q) /\ \A u \in Range(q) : u.stream = st
  BY <1>1, <1>2 DEF Single
<1>4. \A u \in Range(q), w \in Carried : Before(w, u, rSlot)
  BY <1>1, <1>2 DEF Before
<1>5. \A s \in ReadbackSlots : rGpu'[s] => rGpu[s] \/ rSlot[s].state # "queued"
  OBVIOUS
<1>6. /\ rPosts' \in [Streams -> Seq(Readback!Tasks)]
      /\ Carried' = Carried \cup Range(q) /\ Range(rDelayed') = Range(rDelayed)
      /\ InLine(InHand(rWorking'), rTasks', InPosts(rPosts'), rSlot)
      /\ SpotInv'
  BY <1>2, <1>3, <1>4, <1>5, ReadPosting
<1>7. \A u : u \in Carried' <=> u \in Carried \/ u = t
  BY <1>2, <1>6
<1> QED BY <1>6, <1>7, <1>t

LEMMA ReadAllocatingKeeps ==
    ASSUME ReadInv, NEW st \in Streams, Readback!Ready(st),
           rStream' = [rStream EXCEPT ![st].pending = @ + 1],
           rPosts' = [rPosts EXCEPT ![st] = <<Readback!Task("allocate", st, None)>>],
           UNCHANGED <<rSlot, rTasks, rDelayed, rWorking, rStopping, rGpu, rFence, rConsumed>>
    PROVE  ReadInv'
<1>0. ReadTypes /\ StopInv /\ \A su \in Streams : Delivered(rStream[su], rSlot, rConsumed[su])
  BY DEF ReadInv
<1> DEFINE x == rStream[st]  v == x.pending + 1  y == [x EXCEPT !.pending = v]  W == {}
<1>1. x \in ReadStreams /\ v \in Int /\ x.active /\ rPosts[st] = <<>>
  BY <1>0, StreamFields DEF Readback!Ready
<1>2. rStream' = [rStream EXCEPT ![st] = y]
  OBVIOUS
<1> HIDE DEF v
<1>3. /\ y \in ReadStreams /\ y.made = x.made /\ y.active = x.active /\ y.slots = x.slots
      /\ y.free = x.free /\ y.ready = x.ready /\ y.time = x.time /\ y.targets = x.targets
  <2> HIDE DEF x
  <2> QED BY <1>1 DEF ReadStreams
<1> HIDE DEF y
<1>4. Delivered(y, rSlot, rConsumed[st])
  <2>1. Delivered(x, rSlot, rConsumed[st])
    BY <1>0
  <2> HIDE DEF x
  <2> QED BY <1>3, <2>1, DeliveredAlike
<1> PICK q : q = <<Readback!Task("allocate", st, None)>>
  OBVIOUS
<1>5. /\ rPosts' \in [Streams -> Seq(Readback!Tasks)]
      /\ \A t : t \in Carried' <=> t \in Carried \/ t = Readback!Task("allocate", st, None)
      /\ InLine(InHand(rWorking'), rTasks', InPosts(rPosts'), rSlot)
      /\ SpotInv'
  BY <1>1, ReadPostsOthers
<1>6. StopInv'
  BY <1>0, <1>1 DEF StopInv
<1>7. Turns(st, y, W)
  BY <1>2, <1>3, <1>4 DEF Turns, StillDrawn
<1>8. ReadRest
  BY <1>0, <1>5 DEF ReadRest, ReadTypes
<1>9. \A s \in W : FALSE
  OBVIOUS
<1>10. Carried \subseteq Carried' /\ \A t \in Carried' : t \in Carried \/
         (/\ Wanted(t, rStream', rSlot')
          /\ t.type = "readback" => rSlot'[t.slot].time = rSlot[t.slot].time)
  BY <1>5 DEF Readback!Task, Wanted
<1> HIDE DEF W, x
<1> QED BY <1>5, <1>6, <1>7, <1>8, <1>9, <1>10, ReadOwnSlots

LEMMA ReadTryAcquireKeeps ==
    ASSUME ReadInv, NEW st \in Streams, Readback!TryAcquireRenderTarget(st)
    PROVE  ReadInv'
<1> PICK x : x = rStream[st]
  OBVIOUS
<1> PICK s : s = Head(x.free)
  OBVIOUS
<1>1. /\ Readback!Ready(st) /\ x.targets = 0 /\ rPosts[st] = <<>>
      /\ UNCHANGED <<rTasks, rDelayed, rWorking, rStopping, rFence, rConsumed>>
  BY DEF Readback!TryAcquireRenderTarget, Readback!worker, Readback!Ready
<1> DEFINE Takes == /\ x.free # <<>> /\ x.time < MaxFrames
                    /\ rStream' = [rStream EXCEPT ![st].free = Tail(@), ![st].targets = @ + 1,
                                                  ![st].time = @ + 1]
                    /\ rSlot' = [rSlot EXCEPT ![s].state = "rendering",
                                              ![s].time = rStream[st].time + 1]
                    /\ rGpu' = [rGpu EXCEPT ![s] = TRUE] /\ UNCHANGED rPosts
           Returns == /\ x.free # <<>>
                      /\ rStream' = [rStream EXCEPT ![st].free = Append(Tail(@), s)]
                      /\ rSlot' = [rSlot EXCEPT ![s].time = 0]
                      /\ UNCHANGED <<rGpu, rPosts>>
           Allocates == /\ rStream' = [rStream EXCEPT ![st].pending = @ + 1]
                        /\ rPosts' = [rPosts EXCEPT ![st] =
                                        <<Readback!Task("allocate", st, None)>>]
                        /\ UNCHANGED <<rSlot, rGpu>>
<1>2. Takes \/ Returns \/ Allocates
  BY DEF Readback!TryAcquireRenderTarget
<1>3. CASE Takes
  <2>1. Acquires(st, x, s)
    BY <1>1, <1>3 DEF Acquires
  <2> QED BY <1>1, <1>3, <2>1, ReadTargetKeeps
<1>4. CASE Returns
  BY <1>1, <1>4, ReadReturnKeeps
<1>5. CASE Allocates
  BY <1>1, <1>5, ReadAllocatingKeeps
<1> QED BY <1>2, <1>3, <1>4, <1>5

LEMMA ReadGpuFinishesKeeps ==
    ASSUME ReadInv, NEW s \in ReadbackSlots, Readback!GpuFinishes(s)
    PROVE  ReadInv'
<1>0. ReadTypes /\ StopInv
  BY DEF ReadInv
<1>1. /\ rGpu' = [rGpu EXCEPT ![s] = FALSE]
      /\ UNCHANGED <<rStream, rSlot, rTasks, rDelayed, rWorking, rStopping, rPosts, rFence, rConsumed>>
  BY DEF Readback!GpuFinishes, Readback!worker
<1>2. ReadTypes'
  BY <1>0, <1>1 DEF ReadTypes
<1>3. \A r \in ReadbackSlots : rGpu'[r] => rGpu[r] /\ rFence'[r] = rFence[r]
  BY <1>0, <1>1 DEF ReadTypes
<1>4. \A r \in ReadbackSlots : rGpu'[r] => rGpu[r] \/ rSlot[r].state # "queued"
  BY <1>3
<1>5. /\ Carried' = Carried /\ Range(rDelayed') = Range(rDelayed)
      /\ InLine(InHand(rWorking'), rTasks', InPosts(rPosts'), rSlot)
      /\ SpotInv'
  BY <1>1, <1>4, ReadQueuesStay
<1>6. StopInv'
  BY <1>0, <1>1 DEF StopInv
<1> QED BY <1>1, <1>2, <1>3, <1>5, <1>6, ReadQueuesOnly

LEMMA ReadStopKeeps ==
    ASSUME ReadInv, Readback!Stop \/ UNCHANGED rVars
    PROVE  ReadInv'
<1>0. ReadTypes /\ StopInv
  BY DEF ReadInv
<1>1. /\ UNCHANGED <<rStream, rSlot, rTasks, rDelayed, rWorking, rPosts, rGpu, rFence, rConsumed>>
      /\ rStopping' \in BOOLEAN /\ StopInv'
  <2>1. CASE Readback!Stop
    BY <2>1 DEF Readback!Stop, StopInv
  <2>2. CASE UNCHANGED rVars
    <3>1. UNCHANGED <<rStream, rSlot, rTasks, rDelayed, rWorking, rPosts, rGpu, rFence,
                      rConsumed, rStopping>>
      BY <2>2 DEF rVars
    <3> QED BY <1>0, <3>1 DEF StopInv, ReadTypes
  <2> QED BY <2>1, <2>2
<1>2. ReadTypes'
  BY <1>0, <1>1 DEF ReadTypes
<1>3. /\ Carried' = Carried /\ Range(rDelayed') = Range(rDelayed)
      /\ InLine(InHand(rWorking'), rTasks', InPosts(rPosts'), rSlot)
      /\ SpotInv'
  BY <1>1, ReadQueuesStay
<1> QED BY <1>1, <1>2, <1>3, ReadQueuesOnly

\* A target is submitted: its frame is the newest of those that wait.
Submits(x, y, slots, slots2, s) ==
    /\ s \in x.slots /\ slots[s].state = "rendering"
    /\ y.made = x.made /\ y.active = x.active /\ y.slots = x.slots /\ y.free = x.free
    /\ y.ready = x.ready /\ y.time = x.time /\ y.targets = 0
    /\ \A r \in x.slots \ {s} : slots2[r] = slots[r]
    /\ slots2[s].state = "queued" /\ slots2[s].time = slots[s].time

LEMMA DeliveredQueued ==
    ASSUME NEW x \in ReadStreams, NEW y, NEW slots \in [ReadbackSlots -> ReadSlots],
           NEW slots2, NEW last \in Nat, NEW s,
           Delivered(x, slots, last), Submits(x, y, slots, slots2, s)
    PROVE  Delivered(y, slots2, last)
<1>t. /\ s \in x.slots /\ slots[s].state = "rendering"
      /\ y.made = x.made /\ y.active = x.active /\ y.slots = x.slots /\ y.free = x.free
      /\ y.ready = x.ready /\ y.time = x.time /\ y.targets = 0
      /\ \A r \in x.slots \ {s} : slots2[r] = slots[r]
      /\ slots2[s].state = "queued" /\ slots2[s].time = slots[s].time
  BY DEF Submits
<1>0. /\ x.time \in Nat /\ x.slots \subseteq ReadbackSlots /\ MaxFrames \in Nat
      /\ Holds(x.ready, x.slots, slots, "ready") /\ Holds(x.free, x.slots, slots, "free")
  BY TransfersAssumption DEF ReadStreams, Delivered
<1>1. x.targets = 1 /\ slots[s].time = x.time
  BY <1>t DEF Delivered, Frame
<1>2. Holds(x.free, x.slots, slots2, "free")
  BY <1>0, <1>t, HeldWithout
<1>3. Holds(x.ready, x.slots, slots2, "ready")
  BY <1>0, <1>t, HeldWithout
<1>4. Rising(x.ready, slots2)
  <2>1. \A i \in DOMAIN x.ready : x.ready[i] \in x.slots \ {s}
    <3> SUFFICES ASSUME NEW i \in DOMAIN x.ready PROVE x.ready[i] \in x.slots \ {s}
      OBVIOUS
    <3>1. x.ready[i] \in x.slots /\ slots[x.ready[i]].state = "ready"
      BY <1>0 DEF Holds
    <3>2. slots[s].state # "ready"
      BY <1>t
    <3> QED BY <3>1, <3>2
  <2> QED BY <1>t, <2>1 DEF Delivered, Rising
<1>5. last <= x.time - 1
  BY <1>1 DEF Delivered
<1>6. ASSUME NEW r \in x.slots \ {s}
      PROVE  /\ slots2[r] = slots[r] /\ slots[r].state # "rendering" /\ slots[r].time \in Nat
             /\ slots[r].state \in {"queued", "ready"} =>
                  last < slots[r].time /\ slots[r].time <= x.time - 1
  <2>1. Frame(r, x, slots, last) /\ InOrder(r, s, slots)
    BY <1>t, <1>6 DEF Delivered
  <2> QED BY <1>0, <1>1, <1>t, <1>6, <2>1 DEF Frame, InOrder, ReadSlots
<1>7. ASSUME NEW r \in x.slots PROVE Frame(r, y, slots2, last)
  <2>1. CASE r = s
    BY <1>0, <1>1, <1>5, <1>t, <2>1 DEF Frame
  <2>2. CASE r # s
    <3>1. slots2[r].state = "ready" => \E i \in DOMAIN y.ready : y.ready[i] = r
      BY <1>6, <1>t, <2>2 DEF Delivered, Frame
    <3>2. slots2[r].state \in {"queued", "ready"} =>
            last < slots2[r].time /\ slots2[r].time <= y.time - y.targets
      <4>1. r \in x.slots \ {s} /\ y.time - y.targets = x.time
        BY <1>0, <1>t, <2>2
      <4> HIDE <2>2
      <4> QED BY <1>0, <1>6, <4>1
    <3>3. slots2[r].state # "rendering"
      BY <1>6, <2>2
    <3> QED BY <3>1, <3>2, <3>3 DEF Frame
  <2> QED BY <2>1, <2>2
<1>8. ASSUME NEW r \in x.slots, NEW u \in x.slots, r # u PROVE InOrder(r, u, slots2)
  <2>1. CASE r # s /\ u # s
    <3>1. InOrder(r, u, slots) /\ slots2[r] = slots[r] /\ slots2[u] = slots[u]
      BY <1>8, <1>t, <2>1 DEF Delivered
    <3> QED BY <3>1 DEF InOrder
  <2>2. CASE r = s
    <3>1. /\ slots2[u] = slots[u] /\ slots[u].state # "rendering" /\ slots[u].time \in Nat
          /\ slots[u].state \in {"queued", "ready"} => slots[u].time <= x.time - 1
      BY <1>6, <1>8, <2>2
    <3> QED BY <1>0, <1>1, <1>t, <2>2, <3>1 DEF InOrder
  <2>3. CASE u = s
    <3>1. /\ slots2[r] = slots[r] /\ slots[r].state # "rendering" /\ slots[r].time \in Nat
          /\ slots[r].state \in {"queued", "ready"} => slots[r].time <= x.time - 1
      BY <1>6, <1>8, <2>3
    <3> QED BY <1>0, <1>1, <1>t, <2>3, <3>1 DEF InOrder
  <2> QED BY <2>1, <2>2, <2>3
<1>9. last <= y.time - y.targets /\ y.time <= MaxFrames
  BY <1>0, <1>5, <1>t DEF Delivered
<1>10. y.made /\ (y.active => y.made)
  BY <1>t DEF Delivered
<1> QED BY <1>2, <1>3, <1>4, <1>7, <1>8, <1>9, <1>10, <1>t DEF Delivered

LEMMA OwnerOf ==
    ASSUME NEW s, s \in Readback!InUse
    PROVE  Readback!StreamOf(s) \in Streams /\ s \in rStream[Readback!StreamOf(s)].slots
BY DEF Readback!InUse, Readback!StreamOf

LEMMA ReadSubmitKeeps ==
    ASSUME ReadInv, NEW s \in ReadbackSlots, Readback!Submit(s)
    PROVE  ReadInv'
<1> PICK st : st = Readback!StreamOf(s)
  OBVIOUS
<1> PICK x : x = rStream[st]
  OBVIOUS
<1>0. /\ ReadTypes /\ StopInv /\ WantedInv
      /\ \A su \in Streams : Delivered(rStream[su], rSlot, rConsumed[su])
  BY DEF ReadInv
<1>1. /\ st \in Streams /\ s \in x.slots /\ rPosts[st] = <<>> /\ rSlot[s].state = "rendering"
      /\ UNCHANGED <<rTasks, rDelayed, rWorking, rStopping, rGpu, rConsumed>>
  BY OwnerOf DEF Readback!Submit, Readback!SubmitTarget, Readback!worker, Readback!Ready
<1>2. /\ x \in ReadStreams /\ x.slots \subseteq ReadbackSlots /\ x.time \in Nat
      /\ rConsumed[st] \in Nat /\ Delivered(x, rSlot, rConsumed[st])
  BY <1>0, <1>1, StreamFields
<1>3. x.targets = 1 /\ rSlot[s].time = x.time
  BY <1>1, <1>2 DEF Delivered, Frame
<1> DEFINE zero == x.targets - 1  y == [x EXCEPT !.targets = zero]
           z == [rSlot[s] EXCEPT !.state = "queued"]
           W == {s}
<1>4. zero = 0
  BY <1>3
<1>5. rStream' = [rStream EXCEPT ![st] = y] /\ rSlot' = [rSlot EXCEPT ![s] = z]
  BY DEF Readback!Submit, Readback!SubmitTarget
<1>6. rFence' = [rFence EXCEPT ![s] = TRUE]
  BY DEF Readback!Submit, Readback!SubmitTarget
<1> PICK t : t = Readback!Task("readback", st, s)
  OBVIOUS
<1> PICK q : q = <<t>>
  OBVIOUS
<1>7. rPosts' = [rPosts EXCEPT ![st] = q]
  BY DEF Readback!Submit, Readback!SubmitTarget
<1>8. /\ t \in Readback!Tasks /\ t.stream = st /\ t.type = "readback" /\ t.slot = s
  BY <1>1 DEF Readback!Task, Readback!Tasks
<1>9. q \in Seq(Readback!Tasks) /\ Len(q) = 1 /\ \A u : u \in Range(q) <=> u = t
  BY <1>8 DEF Range
<1> HIDE DEF zero
<1>10. /\ y \in ReadStreams /\ y.made = x.made /\ y.active = x.active /\ y.slots = x.slots
       /\ y.free = x.free /\ y.ready = x.ready /\ y.time = x.time /\ y.targets = 0
  BY <1>2, <1>4 DEF ReadStreams
<1>11. z \in ReadSlots /\ z.state = "queued" /\ z.time = rSlot[s].time
  <2>1. rSlot[s] \in ReadSlots
    BY <1>0 DEF ReadTypes
  <2> QED BY <2>1 DEF ReadSlots, Readback!States
<1> HIDE DEF y, z
<1>12. /\ rSlot' \in [ReadbackSlots -> ReadSlots] /\ rSlot'[s] = z
       /\ \A r \in ReadbackSlots \ {s} : rSlot'[r] = rSlot[r]
  BY <1>0, <1>5, <1>11 DEF ReadTypes
<1>13. /\ rFence' \in [ReadbackSlots -> BOOLEAN] /\ rFence'[s]
       /\ \A r \in ReadbackSlots \ {s} : rFence'[r] = rFence[r]
  BY <1>0, <1>6 DEF ReadTypes
<1>14. Delivered(y, rSlot', rConsumed[st])
  <2> PICK slots, slots2 : slots = rSlot /\ slots2 = rSlot'
    OBVIOUS
  <2> PICK last : last = rConsumed[st]
    OBVIOUS
  <2>1. slots \in [ReadbackSlots -> ReadSlots] /\ Delivered(x, slots, last) /\ last \in Nat
    BY <1>0, <1>2 DEF ReadTypes
  <2>2. Submits(x, y, slots, slots2, s)
    <3>1. \A r \in x.slots \ {s} : slots2[r] = slots[r]
      BY <1>2, <1>12
    <3>2. slots2[s].state = "queued" /\ slots2[s].time = slots[s].time
      BY <1>11, <1>12
    <3> QED BY <1>1, <1>10, <3>1, <3>2 DEF Submits
  <2>3. Delivered(y, slots2, last)
    BY <1>2, <2>1, <2>2, DeliveredQueued
  <2> QED BY <2>3
<1>15. \A u \in Range(q), w \in Carried : Before(w, u, rSlot)
  <2> SUFFICES ASSUME NEW w \in Carried, w.type = "readback", w.stream = st
               PROVE  rSlot[w.slot].time < rSlot[s].time
    BY <1>8, <1>9 DEF Before
  <2>1. w.slot \in x.slots /\ rSlot[w.slot].state = "queued"
    BY <1>0 DEF WantedInv, Wanted
  <2>2. rSlot[w.slot].time \in Nat
    BY <1>0, <1>2, <2>1 DEF ReadTypes, ReadSlots
  <2>3. rSlot[w.slot].time <= x.time - x.targets
    BY <1>2, <2>1 DEF Delivered, Frame
  <2> QED BY <1>2, <1>3, <2>2, <2>3
<1>16. Single(q) /\ \A u \in Range(q) : u.stream = st
  BY <1>8, <1>9 DEF Single
<1>17. \A r \in ReadbackSlots : rGpu'[r] => rGpu[r] \/ rSlot[r].state # "queued"
  BY <1>1
<1>18. /\ rPosts' \in [Streams -> Seq(Readback!Tasks)]
       /\ Carried' = Carried \cup Range(q)
       /\ InLine(InHand(rWorking'), rTasks', InPosts(rPosts'), rSlot)
       /\ SpotInv'
  BY <1>1, <1>7, <1>9, <1>15, <1>16, <1>17, ReadPosting
<1>19. \A u : u \in Carried' <=> u \in Carried \/ u = t
  BY <1>9, <1>18
<1>20. StopInv'
  <2>1. ~rStopping
    <3>1. rStream[st].active
      BY DEF Readback!Submit, Readback!SubmitTarget, Readback!Ready
    <3> QED BY <1>0, <1>1, <3>1 DEF StopInv
  <2> QED BY <1>1, <2>1 DEF StopInv
<1>21. Turns(st, y, W)
  <2>1. W \subseteq rStream[st].slots
    BY <1>1
  <2>2. \A r \in ReadbackSlots \ W : /\ rSlot'[r] = rSlot[r] /\ rFence'[r] = rFence[r]
                                     /\ rGpu'[r] = rGpu[r]
    BY <1>1, <1>12, <1>13
  <2>3. StillDrawn(W)
    BY <1>11, <1>12, <1>13 DEF StillDrawn
  <2>4. /\ \A su \in Streams \ {st} : rConsumed'[su] = rConsumed[su]
        /\ Delivered(y, rSlot', rConsumed'[st])
    BY <1>1, <1>14
  <2> HIDE DEF W
  <2> QED BY <1>5, <1>10, <2>1, <2>2, <2>3, <2>4 DEF Turns
<1>22. ReadRest
  BY <1>0, <1>1, <1>12, <1>13, <1>18 DEF ReadRest, ReadTypes
<1>23. /\ \A r \in W : rSlot[r].state # "queued"
       /\ \A r \in W : rSlot'[r].state = "queued" =>
            Readback!Task("readback", st, r) \in Carried'
  BY <1>1, <1>19
<1>24. \A u \in Carried' : u \in Carried \/
         (/\ Wanted(u, rStream', rSlot')
          /\ u.type = "readback" => rSlot'[u.slot].time = rSlot[u.slot].time)
  <2>1. rStream'[st] = y
    BY <1>0, <1>1, <1>5, <1>10, ReadOneStream
  <2>2. Wanted(t, rStream', rSlot') /\ rSlot'[t.slot].time = rSlot[t.slot].time
    BY <1>1, <1>8, <1>10, <1>11, <1>12, <2>1 DEF Wanted
  <2> QED BY <1>19, <2>2
<1>25. Carried \subseteq Carried'
  BY <1>19
<1> HIDE DEF W
<1> QED BY <1>1, <1>18, <1>20, <1>21, <1>22, <1>23, <1>24, <1>25, ReadOwnSlots

-----------------------------------------------------------------------------
(* Readbacks: the steps of the output thread *)

Freed(free, x, s) == free = IF x.active THEN Append(x.free, s) ELSE x.free

LEMMA ReturnFrameKeeps ==
    ASSUME ReadInv, NEW s \in ReadbackSlots, Readback!ReturnFrame(s)
    PROVE  ReadInv'
<1> PICK st : st = Readback!StreamOf(s)
  OBVIOUS
<1> PICK x : x = rStream[st]
  OBVIOUS
<1>0. /\ ReadTypes /\ StopInv /\ GpuInv
      /\ \A su \in Streams : Delivered(rStream[su], rSlot, rConsumed[su])
  BY DEF ReadInv
<1>1. /\ st \in Streams /\ s \in x.slots /\ rSlot[s].state = "cpu_reading"
      /\ UNCHANGED <<rTasks, rDelayed, rWorking, rStopping, rPosts, rGpu, rFence, rConsumed>>
  BY OwnerOf DEF Readback!ReturnFrame, Readback!worker
<1>2. /\ x \in ReadStreams /\ x.slots \subseteq ReadbackSlots /\ x.free \in Seq(ReadbackSlots)
      /\ x.frames \in Int /\ Delivered(x, rSlot, rConsumed[st])
  BY <1>0, <1>1, StreamFields
<1> PICK frames : frames = x.frames - 1
  OBVIOUS
<1> PICK free : Freed(free, x, s)
  BY DEF Freed
<1> DEFINE y == [x EXCEPT !.frames = frames, !.free = free]
           z == [rSlot[s] EXCEPT !.state = "free"]
           W == {s}
<1>3. rSlot' = [rSlot EXCEPT ![s] = z]
  BY DEF Readback!ReturnFrame
<1>4. rStream' = [rStream EXCEPT ![st] = y]
  <2>1. rStream' = [rStream EXCEPT ![st].frames = frames, ![st].free = free]
    BY DEF Readback!ReturnFrame, Freed
  <2> QED BY <2>1
<1>5. z \in ReadSlots /\ z.state = "free"
  <2>1. rSlot[s] \in ReadSlots
    BY <1>0 DEF ReadTypes
  <2> QED BY <2>1 DEF ReadSlots, Readback!States
<1>6. /\ rSlot' \in [ReadbackSlots -> ReadSlots] /\ rSlot'[s].state = "free"
      /\ \A r \in ReadbackSlots \ {s} : rSlot'[r] = rSlot[r]
  <2> HIDE DEF z
  <2> QED BY <1>0, <1>3, <1>5 DEF ReadTypes
<1>7. free \in Seq(ReadbackSlots) /\ Holds(free, x.slots, rSlot', "free")
  <2> PICK slots, slots2 : slots = rSlot /\ slots2 = rSlot'
    OBVIOUS
  <2> PICK o, owned : o = x.free /\ owned = x.slots
    OBVIOUS
  <2>1. /\ Holds(o, owned, slots, "free") /\ slots[s].state # "free" /\ s \in owned
        /\ slots2[s].state = "free" /\ o \in Seq(ReadbackSlots)
    BY <1>1, <1>2, <1>6 DEF Delivered
  <2>a. \A r \in owned \ {s} : slots2[r] = slots[r]
    BY <1>2, <1>6
  <2>2. Holds(o, owned, slots2, "free")
    <3>1. \A i \in DOMAIN o : o[i] \in owned \ {s} /\ slots2[o[i]] = slots[o[i]]
      BY <2>1, <2>a DEF Holds
    <3> QED BY <2>1, <3>1 DEF Holds
  <2>3. CASE Extends(free, o, s)
    <3>1. free \in Seq(ReadbackSlots) /\ Holds(free, owned, slots2, "free")
      <4>1. s \notin Range(o)
        BY <2>1 DEF Holds, Range
      <4>2. /\ Append(o, s) \in Seq(ReadbackSlots)
            /\ Holds(Append(o, s), owned, slots2, "free")
        BY <2>1, <2>2, <4>1, HeldMore
      <4> QED BY <2>3, <4>2 DEF Extends
    <3> QED BY <3>1
  <2>4. CASE free = o
    BY <2>1, <2>2, <2>4
  <2> QED BY <2>1, <2>3, <2>4 DEF Extends, Freed
<1>8. /\ y \in ReadStreams /\ y.made = x.made /\ y.active = x.active /\ y.slots = x.slots
      /\ y.free = free /\ y.ready = x.ready /\ y.time = x.time /\ y.targets = x.targets
  <2>1. frames \in Int /\ free \in Seq(ReadbackSlots)
    BY <1>2, <1>7
  <2> QED BY <1>2, <2>1 DEF ReadStreams
<1> HIDE DEF y, z
<1>9. Delivered(y, rSlot', rConsumed[st])
  <2> PICK slots, slots2 : slots = rSlot /\ slots2 = rSlot'
    OBVIOUS
  <2> PICK last : last = rConsumed[st]
    OBVIOUS
  <2> PICK ready : ready = x.ready
    OBVIOUS
  <2>1. /\ Delivered(x, slots, last) /\ x.made /\ last <= x.time - x.targets
        /\ Holds(ready, x.slots, slots, "ready") /\ Rising(ready, slots)
        /\ \A r \in x.slots : Frame(r, x, slots, last)
    BY <1>1, <1>2 DEF Delivered
  <2>2. /\ \A r \in x.slots \ {s} : slots2[r] = slots[r]
        /\ \A r \in W : slots2[r].state \in {"free", "cpu_reading"}
        /\ slots[s].state # "ready"
    BY <1>1, <1>2, <1>6
  <2>3. Holds(ready, x.slots, slots2, "ready")
    BY <2>1, <2>2, HeldWithout
  <2>4. Rising(ready, slots2)
    <3>1. \A i \in DOMAIN ready : ready[i] \in x.slots \ {s}
      BY <2>1, <2>2 DEF Holds
    <3> QED BY <2>1, <2>2, <3>1 DEF Rising
  <2>5. /\ \A r \in x.slots \ W : slots[r].state = "ready" =>
              \E i \in DOMAIN ready : ready[i] = r
        /\ \A r \in x.slots \ W : slots[r].state \in {"queued", "ready"} =>
              last < slots[r].time
    BY <2>1 DEF Frame
  <2>6. \A r \in x.slots \ W : slots2[r] = slots[r]
    BY <2>2
  <2> HIDE DEF W
  <2>7. Idles(x, y, slots, slots2, last, W)
    <3>1. /\ y.made /\ y.time = x.time /\ y.targets = x.targets
          /\ last <= x.time - x.targets /\ y.slots \ W \subseteq x.slots
      BY <1>8, <2>1
    <3>2. /\ \A r \in y.slots \ W : slots2[r] = slots[r]
          /\ \A r \in W : slots2[r].state \in {"free", "cpu_reading"}
      BY <1>8, <2>2, <2>6
    <3>3. /\ Holds(y.free, y.slots, slots2, "free") /\ Holds(y.ready, y.slots, slots2, "ready")
          /\ Rising(y.ready, slots2)
      BY <1>7, <1>8, <2>3, <2>4
    <3>4. /\ \A r \in y.slots \ W : slots[r].state = "ready" =>
                \E i \in DOMAIN y.ready : y.ready[i] = r
          /\ \A r \in y.slots \ W : slots[r].state \in {"queued", "ready"} =>
                last < slots[r].time
      BY <1>8, <2>5
    <3> QED BY <3>1, <3>2, <3>3, <3>4 DEF Idles
  <2>8. Delivered(y, slots2, last)
    BY <2>1, <2>7, DeliveredIdle
  <2> QED BY <2>8
<1>10. /\ Carried' = Carried /\ SpotInv'
       /\ InLine(InHand(rWorking'), rTasks', InPosts(rPosts'), rSlot)
  BY <1>1, ReadQueuesStay
<1>11. StopInv'
  BY <1>0, <1>1, <1>4, <1>8 DEF StopInv, ReadTypes
<1>12. Turns(st, y, W)
  <2>1. W \subseteq rStream[st].slots
    BY <1>1
  <2>2. \A r \in ReadbackSlots \ W : /\ rSlot'[r] = rSlot[r] /\ rFence'[r] = rFence[r]
                                     /\ rGpu'[r] = rGpu[r]
    BY <1>1, <1>6
  <2>3. StillDrawn(W)
    <3>1. ~rGpu'[s]
      BY <1>0, <1>1 DEF GpuInv
    <3> QED BY <3>1 DEF StillDrawn
  <2>4. /\ \A su \in Streams \ {st} : rConsumed'[su] = rConsumed[su]
        /\ Delivered(y, rSlot', rConsumed'[st])
    BY <1>1, <1>9
  <2> HIDE DEF W
  <2> QED BY <1>4, <1>8, <2>1, <2>2, <2>3, <2>4 DEF Turns
<1>13. ReadRest
  BY <1>0, <1>1, <1>6 DEF ReadRest, ReadTypes
<1>14. \A r \in W : rSlot[r].state # "queued" /\ rSlot'[r].state # "queued"
  BY <1>1, <1>6
<1> HIDE DEF W
<1> QED BY <1>1, <1>10, <1>11, <1>12, <1>13, <1>14, ReadOwnSlots

\* Two queues with nothing in common in one.
LEMMA HeldBoth ==
    ASSUME NEW S, NEW a \in Seq(S), NEW b \in Seq(S), NEW owned, NEW slots, NEW state,
           Holds(a, owned, slots, state), Holds(b, owned, slots, state),
           Range(a) \cap Range(b) = {}, NEW r, r = a \o b
    PROVE  r \in Seq(S) /\ Holds(r, owned, slots, state)
<1>3. /\ r \in Seq(S) /\ Len(a) \in Nat /\ Len(b) \in Nat /\ DOMAIN a = 1 .. Len(a)
      /\ DOMAIN b = 1 .. Len(b) /\ DOMAIN r = 1 .. (Len(a) + Len(b))
      /\ \A i \in 1 .. (Len(a) + Len(b)) : r[i] = IF i <= Len(a) THEN a[i] ELSE b[i - Len(a)]
  OBVIOUS
<1>4. \A i \in DOMAIN r : \/ i \in DOMAIN a /\ r[i] = a[i]
                          \/ i - Len(a) \in DOMAIN b /\ i \notin DOMAIN a /\ r[i] = b[i - Len(a)]
  BY <1>3
<1>5. \A i \in DOMAIN r : r[i] \in owned /\ slots[r[i]].state = state
  BY <1>4 DEF Holds
<1>6. \A i \in DOMAIN a, j \in DOMAIN b : a[i] # b[j]
  BY DEF Range
<1>7. ASSUME NEW i \in DOMAIN r, NEW j \in DOMAIN r, r[i] = r[j] PROVE i = j
  <2>1. CASE i \in DOMAIN a /\ j \in DOMAIN a
    BY <1>4, <1>7, <2>1, <1>3 DEF Holds
  <2>2. CASE i \notin DOMAIN a /\ j \notin DOMAIN a
    <3>1. i - Len(a) = j - Len(a)
      BY <1>4, <1>7, <2>2 DEF Holds
    <3> QED BY <1>3, <3>1
  <2> QED BY <1>4, <1>6, <1>7, <2>1, <2>2
<1> QED BY <1>3, <1>5, <1>7 DEF Holds

\* The ready frames of a stream: one is read, some are skipped, the later ones stay.
Divides(x, slots, s, skipped, ready) ==
    /\ skipped \in Seq(ReadbackSlots) /\ ready \in Seq(ReadbackSlots)
    /\ s \in x.slots /\ slots[s].state = "ready"
    /\ Holds(skipped, x.slots, slots, "ready") /\ Holds(ready, x.slots, slots, "ready")
    /\ \A i \in DOMAIN x.ready : \/ x.ready[i] = s \/ x.ready[i] \in Range(skipped)
                                 \/ x.ready[i] \in Range(ready)
    /\ s \notin Range(skipped) \cup Range(ready) /\ Range(skipped) \cap Range(ready) = {}
    /\ Rising(ready, slots)
    /\ \A r \in Range(ready) : slots[s].time < slots[r].time
    /\ \A r \in Range(skipped) : slots[r].time < slots[s].time

LEMMA DividesOldest ==
    ASSUME NEW x \in ReadStreams, NEW slots \in [ReadbackSlots -> ReadSlots], NEW last,
           Delivered(x, slots, last), x.ready # <<>>, NEW s, s = Head(x.ready),
           NEW skipped, skipped = <<>>, NEW ready, ready = Tail(x.ready)
    PROVE  Divides(x, slots, s, skipped, ready)
<1> PICK q : q = x.ready
  OBVIOUS
<1>1. /\ q \in Seq(ReadbackSlots) /\ Holds(q, x.slots, slots, "ready") /\ Rising(q, slots)
      /\ q # <<>>
  BY DEF Delivered, ReadStreams
<1>2. /\ ready \in Seq(ReadbackSlots) /\ s \in x.slots /\ slots[s].state = "ready"
      /\ Holds(ready, x.slots \ {s}, slots, "ready")
  BY <1>1, HeldTail
<1>3. skipped \in Seq(ReadbackSlots) /\ Holds(skipped, x.slots, slots, "ready") /\ Range(skipped) = {}
  BY DEF Holds, Range
<1>4. Range(q) = Range(ready) \cup {s}
  BY <1>1, Taking
<1>5. s \notin Range(ready) /\ Holds(ready, x.slots, slots, "ready")
  BY <1>2 DEF Holds, Range
<1>6. /\ s = q[1] /\ DOMAIN q = 1 .. Len(q) /\ Len(q) \in Nat /\ Len(q) >= 1
      /\ DOMAIN ready = 1 .. Len(q) - 1 /\ \A i \in 1 .. Len(q) - 1 : ready[i] = q[i + 1]
  BY <1>1
<1>7. Rising(ready, slots)
  <2> SUFFICES ASSUME NEW i \in DOMAIN ready, NEW j \in DOMAIN ready, i < j
               PROVE  slots[ready[i]].time < slots[ready[j]].time
    BY DEF Rising
  <2>1. /\ i + 1 \in DOMAIN q /\ j + 1 \in DOMAIN q /\ i + 1 < j + 1
        /\ ready[i] = q[i + 1] /\ ready[j] = q[j + 1]
    BY <1>6
  <2> QED BY <1>1, <2>1 DEF Rising
<1>8. \A r \in Range(ready) : slots[s].time < slots[r].time
  <2>1. \A i \in 1 .. Len(q) - 1 : slots[q[1]].time < slots[q[i + 1]].time
    BY <1>1, <1>6 DEF Rising
  <2> QED BY <1>6, <2>1 DEF Range
<1>9. \A i \in DOMAIN x.ready : x.ready[i] = s \/ x.ready[i] \in Range(ready)
  BY <1>4 DEF Range
<1> QED BY <1>2, <1>3, <1>5, <1>7, <1>8, <1>9 DEF Divides

LEMMA DividesLatest ==
    ASSUME NEW x \in ReadStreams, NEW slots \in [ReadbackSlots -> ReadSlots], NEW last,
           Delivered(x, slots, last), x.ready # <<>>, NEW s, s = x.ready[Len(x.ready)],
           NEW skipped, skipped = SubSeq(x.ready, 1, Len(x.ready) - 1), NEW ready, ready = <<>>
    PROVE  Divides(x, slots, s, skipped, ready)
<1> PICK q : q = x.ready
  OBVIOUS
<1>1. /\ q \in Seq(ReadbackSlots) /\ Holds(q, x.slots, slots, "ready") /\ q # <<>>
      /\ Rising(q, slots)
  BY DEF Delivered, ReadStreams
<1>2. Len(q) \in Nat /\ Len(q) >= 1 /\ DOMAIN q = 1 .. Len(q) /\ s = q[Len(q)]
  BY <1>1
<1>3. /\ skipped \in Seq(ReadbackSlots) /\ DOMAIN skipped = 1 .. Len(q) - 1
      /\ \A i \in 1 .. Len(q) - 1 : skipped[i] = q[i]
  BY <1>1, <1>2
<1>4. s \in x.slots /\ slots[s].state = "ready"
  BY <1>1, <1>2 DEF Holds
<1>5. Holds(skipped, x.slots, slots, "ready")
  <2>1. \A i \in DOMAIN skipped : i \in DOMAIN q /\ skipped[i] = q[i]
    BY <1>2, <1>3
  <2> QED BY <1>1, <2>1 DEF Holds
<1>6. s \notin Range(skipped)
  <2> SUFFICES ASSUME NEW i \in DOMAIN skipped, skipped[i] = s PROVE FALSE
    BY DEF Range
  <2>1. /\ i \in DOMAIN q /\ Len(q) \in DOMAIN q /\ i # Len(q) /\ q[i] = q[Len(q)]
    BY <1>2, <1>3
  <2> QED BY <1>1, <2>1 DEF Holds
<1>7. /\ ready \in Seq(ReadbackSlots) /\ Holds(ready, x.slots, slots, "ready")
      /\ Range(ready) = {} /\ Rising(ready, slots)
  BY DEF Holds, Range, Rising
<1>8. \A i \in DOMAIN x.ready : x.ready[i] = s \/ x.ready[i] \in Range(skipped)
  <2> SUFFICES ASSUME NEW i \in DOMAIN q, q[i] # s PROVE q[i] \in Range(skipped)
    OBVIOUS
  <2>1. i \in DOMAIN skipped /\ skipped[i] = q[i]
    BY <1>2, <1>3
  <2> QED BY <2>1 DEF Range
<1>9. \A r \in Range(skipped) : slots[r].time < slots[s].time
  <2> SUFFICES ASSUME NEW i \in DOMAIN skipped PROVE slots[skipped[i]].time < slots[s].time
    BY DEF Range
  <2>1. i \in DOMAIN q /\ Len(q) \in DOMAIN q /\ i < Len(q) /\ skipped[i] = q[i]
    BY <1>2, <1>3
  <2> QED BY <1>1, <1>2, <2>1 DEF Rising
<1> QED BY <1>3, <1>4, <1>5, <1>6, <1>7, <1>8, <1>9 DEF Divides

\* The slot of the frame that is read, and those that were skipped.
Left(s, skipped) == {s} \cup Range(skipped)

Consumes(x, y, slots, slots2, s, skipped, ready) ==
    /\ y.made = x.made /\ y.slots = x.slots /\ y.time = x.time /\ y.targets = x.targets
    /\ y.active = x.active /\ y.ready = ready /\ y.free = x.free \o skipped
    /\ slots2[s].state = "cpu_reading" /\ \A r \in Range(skipped) : slots2[r].state = "free"
    /\ \A r \in x.slots \ Left(s, skipped) : slots2[r] = slots[r]

LEMMA DeliveredConsumes ==
    ASSUME NEW x \in ReadStreams, NEW y, NEW slots \in [ReadbackSlots -> ReadSlots],
           NEW slots2, NEW last, NEW s, NEW skipped, NEW ready,
           Delivered(x, slots, last), Divides(x, slots, s, skipped, ready),
           Consumes(x, y, slots, slots2, s, skipped, ready)
    PROVE  y.free \in Seq(ReadbackSlots) /\ Delivered(y, slots2, slots[s].time)
<1> PICK last2 : last2 = slots[s].time
  OBVIOUS
<1> PICK owned : owned = x.slots
  OBVIOUS
<1> DEFINE W == Left(s, skipped)
<1>1. /\ owned \subseteq ReadbackSlots /\ x.time \in Nat /\ x.targets \in {0, 1}
      /\ x.free \in Seq(ReadbackSlots) /\ Holds(x.free, owned, slots, "free")
      /\ \A r \in owned : Frame(r, x, slots, last)
      /\ \A r, u \in owned : r # u => InOrder(r, u, slots)
      /\ ~x.made => owned = {}
  BY DEF Delivered, ReadStreams
<1>2. /\ skipped \in Seq(ReadbackSlots) /\ ready \in Seq(ReadbackSlots)
      /\ s \in owned /\ slots[s].state = "ready"
      /\ Holds(skipped, owned, slots, "ready") /\ Holds(ready, owned, slots, "ready")
      /\ \A i \in DOMAIN x.ready : \/ x.ready[i] = s \/ x.ready[i] \in Range(skipped)
                                   \/ x.ready[i] \in Range(ready)
      /\ s \notin Range(skipped) \cup Range(ready) /\ Range(skipped) \cap Range(ready) = {}
      /\ Rising(ready, slots)
      /\ \A r \in Range(ready) : last2 < slots[r].time
  BY DEF Divides
<1>3. /\ y.made = x.made /\ y.slots = owned /\ y.time = x.time /\ y.targets = x.targets
      /\ y.active = x.active /\ y.ready = ready
      /\ slots2[s].state = "cpu_reading" /\ \A r \in Range(skipped) : slots2[r].state = "free"
      /\ \A r \in owned \ W : slots2[r] = slots[r]
  BY DEF Consumes
<1>4. /\ \A r \in Range(skipped) : r \in owned /\ slots[r].state = "ready"
      /\ \A r \in Range(ready) : r \in owned /\ r \notin W /\ slots[r].state = "ready"
      /\ \A r \in W : r \in owned /\ slots[r].state = "ready"
  BY <1>2, ZenonT(60) DEF Holds, Range, Left
<1>5. y.free \in Seq(ReadbackSlots) /\ Holds(y.free, owned, slots2, "free")
  <2> PICK o : o = x.free
    OBVIOUS
  <2>1. o \in Seq(ReadbackSlots) /\ Holds(o, owned, slots, "free")
    BY <1>1
  <2>2. \A i \in DOMAIN o : o[i] \in owned /\ slots[o[i]].state = "free"
    BY <2>1 DEF Holds
  <2>3. \A i \in DOMAIN o : o[i] \in owned \ W
    BY <1>4, <2>2
  <2>4. \A i \in DOMAIN o : o[i] \in owned /\ slots2[o[i]].state = "free"
    BY <1>3, <2>2, <2>3
  <2>5. Holds(o, owned, slots2, "free")
    BY <2>1, <2>4 DEF Holds
  <2>6. Holds(skipped, owned, slots2, "free")
    <3>1. \A i \in DOMAIN skipped : skipped[i] \in Range(skipped)
      BY DEF Range
    <3> QED BY <1>2, <1>3, <1>4, <3>1 DEF Holds
  <2>7. Range(o) \cap Range(skipped) = {}
    <3>1. \A i \in DOMAIN o : o[i] \notin Range(skipped)
      BY <2>3 DEF Left
    <3> QED BY <3>1 DEF Range
  <2>8. y.free = o \o skipped
    BY DEF Consumes
  <2> QED BY <1>2, <2>1, <2>5, <2>6, <2>7, <2>8, HeldBoth
<1> HIDE DEF W
<1>6. Holds(ready, owned, slots2, "ready") /\ Rising(ready, slots2)
  <2>1. \A i \in DOMAIN ready : /\ ready[i] \in owned /\ slots2[ready[i]] = slots[ready[i]]
                                /\ slots2[ready[i]].state = "ready"
    <3>1. \A i \in DOMAIN ready : ready[i] \in Range(ready)
      BY DEF Range
    <3> QED BY <1>3, <1>4, <3>1
  <2> QED BY <1>2, <2>1 DEF Holds, Rising
<1>7. last2 <= x.time - x.targets
  <2>1. Frame(s, x, slots, last)
    BY <1>1, <1>2
  <2> QED BY <1>2, <2>1 DEF Frame
<1>8. \A r \in owned \ W : slots[r].state = "ready" => r \in Range(ready)
  <2> SUFFICES ASSUME NEW r \in owned \ W, slots[r].state = "ready" PROVE r \in Range(ready)
    OBVIOUS
  <2>1. \E i \in DOMAIN x.ready : x.ready[i] = r
    BY <1>1 DEF Frame
  <2>2. r # s /\ r \notin Range(skipped)
    BY DEF W, Left
  <2> QED BY <1>2, <2>1, <2>2
<1>9. \A r \in owned \ W : slots[r].state \in {"queued", "ready"} => last2 < slots[r].time
  <2> SUFFICES ASSUME NEW r \in owned \ W, slots[r].state \in {"queued", "ready"}
               PROVE  last2 < slots[r].time
    OBVIOUS
  <2>1. CASE slots[r].state = "ready"
    BY <1>2, <1>8, <2>1
  <2>2. CASE slots[r].state = "queued"
    <3>1. InOrder(s, r, slots)
      BY <1>1, <1>2, <2>2
    <3> QED BY <1>2, <2>2, <3>1 DEF InOrder
  <2> QED BY <2>1, <2>2
<1>10. Idles(x, y, slots, slots2, last2, W)
  <2>1. y.made /\ y.time = x.time /\ y.targets = x.targets /\ y.slots \ W \subseteq x.slots
    BY <1>1, <1>2, <1>3
  <2>2. /\ \A r \in y.slots \ W : slots2[r] = slots[r]
        /\ \A r \in W : slots2[r].state \in {"free", "cpu_reading"}
    BY <1>3 DEF W, Left
  <2>3. /\ Holds(y.free, y.slots, slots2, "free") /\ Holds(y.ready, y.slots, slots2, "ready")
        /\ Rising(y.ready, slots2)
    BY <1>3, <1>5, <1>6
  <2>4. \A r \in y.slots \ W : slots[r].state = "ready" =>
          \E i \in DOMAIN y.ready : y.ready[i] = r
    BY <1>3, <1>8 DEF Range
  <2>5. \A r \in y.slots \ W : slots[r].state \in {"queued", "ready"} => last2 < slots[r].time
    BY <1>3, <1>9
  <2> QED BY <1>7, <2>1, <2>2, <2>3, <2>4, <2>5 DEF Idles
<1>11. Delivered(y, slots2, last2)
  BY <1>10, DeliveredIdle
<1> QED BY <1>5, <1>11

LEMMA ReadReadsKeeps ==
    ASSUME ReadInv, NEW st \in Streams, NEW s, NEW skipped, NEW ready,
           Divides(rStream[st], rSlot, s, skipped, ready),
           Readback!Reads(st, s, skipped, ready)
    PROVE  ReadInv'
<1> PICK x : x = rStream[st]
  OBVIOUS
<1> DEFINE W == Left(s, skipped)
<1>0. /\ ReadTypes /\ StopInv /\ GpuInv
      /\ \A su \in Streams : Delivered(rStream[su], rSlot, rConsumed[su])
  BY DEF ReadInv
<1>1. /\ x.active /\ rConsumed' = [rConsumed EXCEPT ![st] = rSlot[s].time]
      /\ UNCHANGED <<rTasks, rDelayed, rWorking, rStopping, rPosts, rGpu, rFence>>
  BY DEF Readback!Reads, Readback!worker
<1>2. /\ x \in ReadStreams /\ x.slots \subseteq ReadbackSlots /\ x.frames \in Int
      /\ Delivered(x, rSlot, rConsumed[st])
  BY <1>0, StreamFields
<1>3. /\ s \in x.slots /\ s \in ReadbackSlots /\ rSlot[s].state = "ready"
      /\ s \notin Range(skipped) /\ ready \in Seq(ReadbackSlots)
      /\ \A r \in Range(skipped) : /\ r \in x.slots /\ r \in ReadbackSlots
                                   /\ rSlot[r].state = "ready"
  BY <1>2 DEF Divides, Holds, Range
<1> PICK free, frames : free = x.free \o skipped /\ frames = x.frames + 1
  OBVIOUS
<1> DEFINE y == [x EXCEPT !.ready = ready, !.free = free, !.frames = frames]
<1>4. rStream' = [rStream EXCEPT ![st] = y]
  <2>1. rStream' = [rStream EXCEPT ![st].ready = ready, ![st].free = free, ![st].frames = frames]
    BY DEF Readback!Reads
  <2> QED BY <2>1
<1>5. /\ rSlot' \in [ReadbackSlots -> ReadSlots] /\ rSlot'[s].state = "cpu_reading"
      /\ \A r \in Range(skipped) : rSlot'[r].state = "free"
      /\ \A r \in ReadbackSlots \ W : rSlot'[r] = rSlot[r]
  <2>1. rSlot' = [r \in ReadbackSlots |->
                    IF r = s THEN [rSlot[r] EXCEPT !.state = "cpu_reading"]
                    ELSE IF r \in Range(skipped) THEN [rSlot[r] EXCEPT !.state = "free"]
                    ELSE rSlot[r]]
    BY DEF Readback!Reads, Readback!Range, Range
  <2>2. \A r \in ReadbackSlots :
          /\ [rSlot[r] EXCEPT !.state = "cpu_reading"] \in ReadSlots
          /\ [rSlot[r] EXCEPT !.state = "free"] \in ReadSlots
          /\ [rSlot[r] EXCEPT !.state = "cpu_reading"].state = "cpu_reading"
          /\ [rSlot[r] EXCEPT !.state = "free"].state = "free"
          /\ rSlot[r] \in ReadSlots
    BY <1>0 DEF ReadTypes, ReadSlots, Readback!States
  <2>3. rSlot' \in [ReadbackSlots -> ReadSlots]
    BY <2>1, <2>2
  <2>4. rSlot'[s].state = "cpu_reading" /\ \A r \in Range(skipped) : rSlot'[r].state = "free"
    BY <1>3, <2>1, <2>2
  <2>5. \A r \in ReadbackSlots \ W : rSlot'[r] = rSlot[r]
    BY <2>1 DEF Left
  <2> QED BY <2>3, <2>4, <2>5
<1>6. /\ y.made = x.made /\ y.active = x.active /\ y.slots = x.slots
      /\ y.free = free /\ y.ready = ready /\ y.time = x.time /\ y.targets = x.targets
  BY <1>2 DEF ReadStreams
<1>7. free \in Seq(ReadbackSlots) /\ Delivered(y, rSlot', rSlot[s].time)
  <2> PICK slots, slots2 : slots = rSlot /\ slots2 = rSlot'
    OBVIOUS
  <2> PICK last : last = rConsumed[st]
    OBVIOUS
  <2>1. /\ slots \in [ReadbackSlots -> ReadSlots] /\ Delivered(x, slots, last)
        /\ Divides(x, slots, s, skipped, ready)
    BY <1>0, <1>2 DEF ReadTypes
  <2>2. \A r \in x.slots \ Left(s, skipped) : slots2[r] = slots[r]
    BY <1>2, <1>5
  <2> HIDE DEF y
  <2>3. Consumes(x, y, slots, slots2, s, skipped, ready)
    BY <1>5, <1>6, <2>2 DEF Consumes
  <2>4. y.free \in Seq(ReadbackSlots) /\ Delivered(y, slots2, slots[s].time)
    BY <1>2, <2>1, <2>3, DeliveredConsumes
  <2> QED BY <1>6, <2>4
<1>8. y \in ReadStreams
  <2>1. frames \in Int /\ free \in Seq(ReadbackSlots) /\ ready \in Seq(ReadbackSlots)
    BY <1>2, <1>3, <1>7
  <2> QED BY <1>2, <2>1 DEF ReadStreams
<1> HIDE DEF y
<1>9. /\ rConsumed' \in [Streams -> Nat] /\ rConsumed'[st] = rSlot[s].time
      /\ \A su \in Streams \ {st} : rConsumed'[su] = rConsumed[su]
  <2>1. rSlot[s].time \in Nat
    BY <1>0, <1>3 DEF ReadTypes, ReadSlots
  <2> QED BY <1>0, <1>1, <2>1 DEF ReadTypes
<1>10. /\ Carried' = Carried /\ SpotInv'
       /\ InLine(InHand(rWorking'), rTasks', InPosts(rPosts'), rSlot)
  BY <1>1, ReadQueuesStay
<1>11. StopInv'
  BY <1>0, <1>1 DEF StopInv
<1>a. \A r \in W : /\ r \in x.slots /\ r \in ReadbackSlots /\ rSlot[r].state = "ready"
                   /\ rSlot'[r].state \in {"free", "cpu_reading"}
  BY <1>3, <1>5 DEF Left
<1> HIDE DEF W
<1>12. Turns(st, y, W)
  <2>1. W \subseteq rStream[st].slots
    BY <1>a
  <2>2. \A r \in ReadbackSlots \ W : /\ rSlot'[r] = rSlot[r] /\ rFence'[r] = rFence[r]
                                     /\ rGpu'[r] = rGpu[r]
    BY <1>1, <1>5 DEF W
  <2>3. StillDrawn(W)
    <3>1. \A r \in W : ~rGpu'[r]
      BY <1>0, <1>1, <1>a DEF GpuInv
    <3> QED BY <3>1 DEF StillDrawn
  <2>4. /\ \A su \in Streams \ {st} : rConsumed'[su] = rConsumed[su]
        /\ Delivered(y, rSlot', rConsumed'[st])
    BY <1>7, <1>9
  <2> QED BY <1>4, <1>6, <1>8, <2>1, <2>2, <2>3, <2>4 DEF Turns
<1>13. ReadRest
  BY <1>0, <1>1, <1>5, <1>9 DEF ReadRest, ReadTypes
<1>14. \A r \in W : rSlot[r].state # "queued" /\ rSlot'[r].state # "queued"
  BY <1>a
<1> QED BY <1>10, <1>11, <1>12, <1>13, <1>14, ReadOwnSlots

LEMMA ReadConsumeKeeps ==
    ASSUME ReadInv, NEW st \in Streams,
           Readback!TryConsumeOldest(st) \/ Readback!TryConsumeLatest(st)
    PROVE  ReadInv'
<1> PICK x : x = rStream[st]
  OBVIOUS
<1>1. /\ x \in ReadStreams /\ rSlot \in [ReadbackSlots -> ReadSlots]
      /\ Delivered(x, rSlot, rConsumed[st])
  BY StreamFields DEF ReadInv, ReadTypes
<1>2. CASE Readback!TryConsumeOldest(st)
  <2> PICK s, skipped, ready : s = Head(x.ready) /\ skipped = <<>> /\ ready = Tail(x.ready)
    OBVIOUS
  <2>1. x.ready # <<>> /\ Readback!Reads(st, s, skipped, ready)
    BY <1>2 DEF Readback!TryConsumeOldest
  <2>2. Divides(x, rSlot, s, skipped, ready)
    BY <1>1, <2>1, DividesOldest
  <2> QED BY <2>1, <2>2, ReadReadsKeeps
<1>3. CASE Readback!TryConsumeLatest(st)
  <2> PICK s, skipped, ready : /\ s = x.ready[Len(x.ready)] /\ ready = <<>>
                               /\ skipped = SubSeq(x.ready, 1, Len(x.ready) - 1)
    OBVIOUS
  <2>1. x.ready # <<>> /\ Readback!Reads(st, s, skipped, ready)
    BY <1>3 DEF Readback!TryConsumeLatest, Readback!Last, Readback!Front
  <2>2. Divides(x, rSlot, s, skipped, ready)
    BY <1>1, <2>1, DividesLatest
  <2> QED BY <2>1, <2>2, ReadReadsKeeps
<1> QED BY <1>2, <1>3

-----------------------------------------------------------------------------
(* Readbacks: streams begin and end *)

LEMMA ReadCreateKeeps ==
    ASSUME ReadInv, NEW st \in Streams, Readback!CreateStream(st)
    PROVE  ReadInv'
<1> PICK x : x = rStream[st]
  OBVIOUS
<1>0. /\ ReadTypes /\ StopInv /\ WantedInv /\ SpotInv /\ OrderInv
      /\ \A su \in Streams : Delivered(rStream[su], rSlot, rConsumed[su])
  BY DEF ReadInv
<1>1. /\ ~x.made /\ ~rStopping
      /\ UNCHANGED <<rSlot, rTasks, rDelayed, rWorking, rStopping, rGpu, rFence, rConsumed>>
  BY DEF Readback!CreateStream, Readback!worker
<1>2. x.slots = {} /\ x.time = 0 /\ x.targets = 0 /\ rConsumed[st] <= 0
  BY <1>0, <1>1 DEF Delivered
<1> DEFINE y == [Readback!NewStream EXCEPT !.made = TRUE, !.active = TRUE,
                                           !.pending = InitialReadbackSlots]
           W == {}
<1>3. rStream' = [rStream EXCEPT ![st] = y]
  BY DEF Readback!CreateStream
<1>4. /\ y \in ReadStreams /\ y.made /\ y.active /\ y.slots = {} /\ y.free = <<>>
      /\ y.ready = <<>> /\ y.time = 0 /\ y.targets = 0
  <2> PICK n, b : n = Readback!NewStream /\ b = InitialReadbackSlots
    OBVIOUS
  <2>1. /\ n \in ReadStreams /\ n.slots = {} /\ n.free = <<>> /\ n.ready = <<>>
        /\ n.time = 0 /\ n.targets = 0
    BY DEF Readback!NewStream, ReadStreams
  <2>2. b \in Int /\ y = [n EXCEPT !.made = TRUE, !.active = TRUE, !.pending = b]
    BY TransfersAssumption
  <2> HIDE DEF y
  <2> QED BY <2>1, <2>2 DEF ReadStreams
<1> HIDE DEF y
<1>5. Delivered(y, rSlot, rConsumed[st])
  <2>1. Holds(<<>>, {}, rSlot, "free") /\ Holds(<<>>, {}, rSlot, "ready") /\ Rising(<<>>, rSlot)
    BY DEF Holds, Rising
  <2>2. 0 <= MaxFrames
    BY TransfersAssumption
  <2> QED BY <1>2, <1>4, <2>1, <2>2 DEF Delivered
<1> PICK q : q = [i \in 1 .. InitialReadbackSlots |-> Readback!Task("allocate", st, None)]
  OBVIOUS
<1> PICK t : t = Readback!Task("allocate", st, None)
  OBVIOUS
<1>6. rPosts' = [rPosts EXCEPT ![st] = q]
  BY DEF Readback!CreateStream
<1>7. t \in Readback!Tasks /\ t.type = "allocate" /\ t.stream = st
  BY DEF Readback!Task, Readback!Tasks
<1>8. q \in Seq(Readback!Tasks) /\ \A u \in Range(q) : u = t
  BY <1>7, TransfersAssumption DEF Range
<1>9. /\ rPosts' \in [Streams -> Seq(Readback!Tasks)] /\ rPosts'[st] = q
      /\ \A su \in Streams \ {st} : rPosts'[su] = rPosts[su]
  BY <1>0, <1>6, <1>8 DEF ReadTypes
<1>10. \A u \in InPosts(rPosts') : u \in InPosts(rPosts) \/ u = t
  BY <1>8, <1>9 DEF InPosts
<1>11. \A u \in Carried' \cup Range(rDelayed') : u \in Carried \cup Range(rDelayed) \/ u = t
  BY <1>1, <1>10 DEF Carried
<1>12. \A u \in Carried : u.type = "readback" => u \in Carried'
  <2> SUFFICES ASSUME NEW su \in Streams, NEW u \in Range(rPosts[su]), u.type = "readback"
               PROVE  u \in InPosts(rPosts')
    BY <1>1 DEF Carried, InPosts
  <2>1. u.stream = su /\ u \in Carried
    BY <1>0 DEF SpotInv, Carried, InPosts
  <2>2. u.slot \in rStream[su].slots
    BY <1>0, <2>1 DEF WantedInv, Wanted
  <2>3. su # st
    BY <1>2, <2>2
  <2> QED BY <1>9, <2>3 DEF InPosts
<1>13. InLine(InHand(rWorking'), rTasks', InPosts(rPosts'), rSlot)
  <2>1. \A u : Before(u, t, rSlot)
    BY <1>7 DEF Before
  <2> QED BY <1>0, <1>1, <1>10, <2>1 DEF OrderInv, InLine
<1>14. SpotInv'
  <2>1. Single(q) /\ \A u \in Range(q) : u.stream = st
    BY <1>7, <1>8 DEF Single
  <2> QED BY <1>0, <1>1, <1>9, <2>1 DEF SpotInv
<1>15. StopInv'
  BY <1>1 DEF StopInv
<1>16. /\ rStream' \in [Streams -> ReadStreams] /\ rStream'[st] = y
       /\ \A su \in Streams \ {st} : rStream'[su] = rStream[su]
  BY <1>0, <1>3, <1>4, ReadOneStream
<1>17. ReadTypes'
  BY <1>0, <1>1, <1>9, <1>16 DEF ReadTypes
<1>18. /\ \A su \in Streams \ {st} : /\ rStream'[su] = rStream[su]
                                     /\ rConsumed'[su] = rConsumed[su]
                                     /\ W \cap rStream[su].slots = {}
       /\ \A s \in ReadbackSlots \ W : /\ rSlot'[s] = rSlot[s] /\ rFence'[s] = rFence[s]
                                       /\ rGpu'[s] => rGpu[s]
       /\ \A s \in W : FALSE
  BY <1>1, <1>16
<1>19. /\ rStream[st].slots \subseteq rStream'[st].slots
       /\ rStream'[st].slots \subseteq rStream[st].slots \cup W
       /\ Delivered(rStream'[st], rSlot', rConsumed'[st])
  BY <1>1, <1>2, <1>4, <1>5, <1>16
<1>20. \A u \in Carried' \cup Range(rDelayed') :
         \/ Wanted(u, rStream', rSlot')
         \/ /\ u \in Carried \cup Range(rDelayed)
            /\ u.type = "readback" => u.slot \notin W
            /\ u.type = "destroy_stream" /\ u.stream = st =>
                 rStream'[st].made /\ ~rStream'[st].active
  <2> SUFFICES ASSUME NEW u \in Carried' \cup Range(rDelayed'), u # t
               PROVE  /\ u \in Carried \cup Range(rDelayed)
                      /\ ~(u.type = "destroy_stream" /\ u.stream = st)
    BY <1>7 DEF Wanted
  <2>1. u \in Carried \cup Range(rDelayed)
    BY <1>11
  <2> QED BY <1>0, <1>1, <2>1 DEF WantedInv, Wanted
<1>21. \A u \in Carried' : u.type = "readback" => rSlot'[u.slot].time = rSlot[u.slot].time
  BY <1>1
<1> HIDE DEF W
<1>22. \A u \in Carried : u.type = "readback" => u \in Carried' \/ u.slot \in W
  BY <1>12
<1> QED BY <1>13, <1>14, <1>15, <1>17, <1>18, <1>19, <1>20, <1>21, <1>22, ReadStep

LEMMA ReadCloseKeeps ==
    ASSUME ReadInv, NEW st \in Streams, Readback!CloseStream(st)
    PROVE  ReadInv'
<1> PICK x : x = rStream[st]
  OBVIOUS
<1>0. /\ ReadTypes /\ StopInv /\ WantedInv
      /\ \A su \in Streams : Delivered(rStream[su], rSlot, rConsumed[su])
  BY DEF ReadInv
<1>1. /\ x.active /\ rPosts[st] = <<>>
      /\ UNCHANGED <<rSlot, rTasks, rDelayed, rWorking, rStopping, rGpu, rFence, rConsumed>>
  BY DEF Readback!CloseStream, Readback!Ready, Readback!worker
<1>2. x \in ReadStreams /\ Delivered(x, rSlot, rConsumed[st]) /\ x.made
  BY <1>0, <1>1, StreamFields DEF Delivered
<1> DEFINE y == [x EXCEPT !.active = FALSE]  W == {}
<1>3. rStream' = [rStream EXCEPT ![st] = y]
  BY DEF Readback!CloseStream
<1>4. /\ y \in ReadStreams /\ y.made = x.made /\ ~y.active /\ y.slots = x.slots
      /\ y.free = x.free /\ y.ready = x.ready /\ y.time = x.time /\ y.targets = x.targets
  BY <1>2 DEF ReadStreams
<1> HIDE DEF y
<1>5. Delivered(y, rSlot, rConsumed[st])
  BY <1>2, <1>4 DEF Delivered, Frame
<1> PICK q : q = <<Readback!Task("destroy_stream", st, None)>>
  OBVIOUS
<1> PICK t : t = Readback!Task("destroy_stream", st, None)
  OBVIOUS
<1>6. rPosts' = [rPosts EXCEPT ![st] = q]
  BY DEF Readback!CloseStream
<1>7. /\ rPosts' \in [Streams -> Seq(Readback!Tasks)]
      /\ Range(rDelayed') = Range(rDelayed)
      /\ \A u : u \in Carried' <=> u \in Carried \/ u = t
      /\ InLine(InHand(rWorking'), rTasks', InPosts(rPosts'), rSlot)
      /\ SpotInv'
  BY <1>1, <1>6, ReadPostsOthers
<1>8. t.type = "destroy_stream" /\ t.stream = st
  BY DEF Readback!Task
<1>15. StopInv'
  BY <1>0, <1>1 DEF StopInv
<1>16. /\ rStream' \in [Streams -> ReadStreams] /\ rStream'[st] = y
       /\ \A su \in Streams \ {st} : rStream'[su] = rStream[su]
  BY <1>0, <1>3, <1>4, ReadOneStream
<1>17. ReadTypes'
  BY <1>0, <1>1, <1>7, <1>16 DEF ReadTypes
<1>18. /\ \A su \in Streams \ {st} : /\ rStream'[su] = rStream[su]
                                     /\ rConsumed'[su] = rConsumed[su]
                                     /\ W \cap rStream[su].slots = {}
       /\ \A s \in ReadbackSlots \ W : /\ rSlot'[s] = rSlot[s] /\ rFence'[s] = rFence[s]
                                       /\ rGpu'[s] => rGpu[s]
       /\ \A s \in W : FALSE
  BY <1>1, <1>16
<1>19. /\ rStream[st].slots \subseteq rStream'[st].slots
       /\ rStream'[st].slots \subseteq rStream[st].slots \cup W
       /\ Delivered(rStream'[st], rSlot', rConsumed'[st])
  BY <1>1, <1>4, <1>5, <1>16
<1>20. \A u \in Carried' \cup Range(rDelayed') :
         \/ Wanted(u, rStream', rSlot')
         \/ /\ u \in Carried \cup Range(rDelayed)
            /\ u.type = "readback" => u.slot \notin W
            /\ u.type = "destroy_stream" /\ u.stream = st =>
                 rStream'[st].made /\ ~rStream'[st].active
  <2>1. Wanted(t, rStream', rSlot')
    BY <1>2, <1>4, <1>8, <1>16 DEF Wanted
  <2>2. rStream'[st].made /\ ~rStream'[st].active
    BY <1>2, <1>4, <1>16
  <2> QED BY <1>7, <2>1, <2>2
<1>21. \A u \in Carried' : u.type = "readback" => rSlot'[u.slot].time = rSlot[u.slot].time
  BY <1>1
<1> HIDE DEF W
<1>22. \A u \in Carried : u.type = "readback" => u \in Carried' \/ u.slot \in W
  BY <1>7
<1> QED BY <1>7, <1>15, <1>17, <1>18, <1>19, <1>20, <1>21, <1>22, ReadStep

LEMMA ReadInit == Readback!Init => ReadInv
<1> SUFFICES ASSUME Readback!Init PROVE ReadInv
  OBVIOUS
<1> DEFINE x == Readback!NewStream  z == Readback!NewSlot(0)
<1>1. /\ rStream = [st \in Streams |-> x] /\ rSlot = [s \in ReadbackSlots |-> z]
      /\ rTasks = <<>> /\ rDelayed = <<>> /\ rWorking = None /\ rStopping = FALSE
      /\ rPosts = [st \in Streams |-> <<>>] /\ rGpu = [s \in ReadbackSlots |-> FALSE]
      /\ rFence = [s \in ReadbackSlots |-> FALSE] /\ rConsumed = [st \in Streams |-> 0]
  BY DEF Readback!Init
<1>2. /\ x \in ReadStreams /\ ~x.made /\ ~x.active /\ x.slots = {} /\ x.free = <<>>
      /\ x.ready = <<>> /\ x.time = 0 /\ x.targets = 0
  BY DEF Readback!NewStream, ReadStreams
<1>3. z \in ReadSlots
  BY DEF Readback!NewSlot, ReadSlots, Readback!States
<1> HIDE DEF x, z
<1>4. ReadTypes
  <2>1. \A S : <<>> \in Seq(S)
    OBVIOUS
  <2>2. rTasks \in Seq(Readback!Tasks) /\ rDelayed \in Seq(Readback!Tasks)
    BY <1>1, <2>1
  <2>3. rPosts \in [Streams -> Seq(Readback!Tasks)]
    BY <1>1, <2>1
  <2>4. /\ rStream \in [Streams -> ReadStreams] /\ rSlot \in [ReadbackSlots -> ReadSlots]
        /\ rWorking \in Readback!Tasks \cup {None} /\ rStopping \in BOOLEAN
        /\ rFence \in [ReadbackSlots -> BOOLEAN] /\ rGpu \in [ReadbackSlots -> BOOLEAN]
        /\ rConsumed \in [Streams -> Nat]
    BY <1>1, <1>2, <1>3
  <2> QED BY <2>2, <2>3, <2>4 DEF ReadTypes
<1>5. Apart(rStream)
  BY <1>1, <1>2 DEF Apart
<1>6. \A st \in Streams : Delivered(rStream[st], rSlot, rConsumed[st])
  <2> SUFFICES Delivered(x, rSlot, 0)
    BY <1>1
  <2>1. Holds(<<>>, {}, rSlot, "free") /\ Holds(<<>>, {}, rSlot, "ready") /\ Rising(<<>>, rSlot)
    BY DEF Holds, Rising
  <2>2. 0 <= MaxFrames
    BY TransfersAssumption
  <2> QED BY <1>2, <2>1, <2>2 DEF Delivered
<1>7. \A st \in Streams : rPosts[st] = <<>> /\ rStream[st].slots = {}
  BY <1>1, <1>2
<1>8. Range(rTasks) = {} /\ Range(rDelayed) = {} /\ InPosts(rPosts) = {} /\ InHand(rWorking) = {}
  BY <1>1, <1>7 DEF Range, InPosts, InHand
<1>9. WantedInv /\ QueuedInv /\ StopInv
  BY <1>1, <1>7, <1>8 DEF WantedInv, QueuedInv, StopInv, Carried
<1>10. SpotInv
  <2>1. \A st \in Streams : Range(rPosts[st]) = {}
    BY <1>7, Nothing
  <2> QED BY <1>1, <1>8, <2>1 DEF SpotInv, Single
<1>11. OrderInv
  BY <1>1, <1>8 DEF OrderInv, InLine, Line
<1>12. GpuInv
  BY <1>1 DEF GpuInv
<1> QED BY <1>4, <1>5, <1>6, <1>9, <1>10, <1>11, <1>12 DEF ReadInv

LEMMA ReadNextKeeps ==
    ASSUME ReadInv, Readback!Next \/ UNCHANGED rVars
    PROVE  ReadInv'
<1>1. CASE Readback!AllocateSlot
  BY <1>1, ReadAllocateKeeps
<1>2. CASE Readback!BeginReadback
  BY <1>2, BeginReadbackKeeps
<1>3. CASE Readback!DestroyStream
  BY <1>3, ReadDestroyKeeps
<1>4. CASE \E success \in BOOLEAN : rWorking # None /\ Readback!FinishReadback(success)
  BY <1>4, FinishReadbackKeeps
<1>5. ASSUME NEW st \in Streams,
             \/ Readback!CreateStream(st) \/ Readback!CloseStream(st) \/ Readback!Post(st)
             \/ Readback!TryAcquireRenderTarget(st) \/ Readback!RetryElapses(st)
             \/ Readback!TryConsumeOldest(st) \/ Readback!TryConsumeLatest(st)
      PROVE  ReadInv'
  BY <1>5, ReadCreateKeeps, ReadCloseKeeps, ReadPostKeeps, ReadTryAcquireKeeps,
     ReadRetryElapsesKeeps, ReadConsumeKeeps
<1>6. ASSUME NEW s \in ReadbackSlots,
             Readback!Submit(s) \/ Readback!GpuFinishes(s) \/ Readback!ReturnFrame(s)
      PROVE  ReadInv'
  BY <1>6, ReadSubmitKeeps, ReadGpuFinishesKeeps, ReturnFrameKeeps
<1>7. CASE Readback!Stop \/ UNCHANGED rVars
  BY <1>7, ReadStopKeeps
<1>8. CASE Readback!Drained /\ Readback!Idle /\ UNCHANGED Readback!vars
  <2>1. UNCHANGED rVars
    BY <1>8 DEF rVars, Readback!vars
  <2> QED BY <2>1, ReadStopKeeps
<1> QED BY <1>1, <1>2, <1>3, <1>4, <1>5, <1>6, <1>7, <1>8 DEF Readback!Next, Readback!Worker

LEMMA SlotsOneUser ==
    ASSUME ReadInv
    PROVE  Readback!SlotsHaveOneUser
<1>2. \A s \in Readback!InUse : rGpu[s] => rSlot[s].state \in {"rendering", "queued"}
  <2>1. Readback!InUse \subseteq ReadbackSlots
    BY StreamFields DEF Readback!InUse, ReadInv
  <2> QED BY <2>1 DEF ReadInv, GpuInv
<1>3. rWorking # None => /\ ~rGpu[rWorking.slot] /\ rWorking.slot \in Readback!InUse
                         /\ rSlot[rWorking.slot].state = "queued"
  <2> SUFFICES ASSUME rWorking # None
               PROVE  /\ ~rGpu[rWorking.slot] /\ rWorking.slot \in Readback!InUse
                      /\ rSlot[rWorking.slot].state = "queued"
    OBVIOUS
  <2> PICK st, s : st = rWorking.stream /\ s = rWorking.slot
    OBVIOUS
  <2>1. st \in Streams /\ s \in rStream[st].slots /\ rSlot[s].state = "queued" /\ ~rGpu[s]
    BY Oldest
  <2> QED BY <2>1 DEF Readback!InUse
<1> QED BY <1>2, <1>3 DEF Readback!SlotsHaveOneUser

-----------------------------------------------------------------------------
(* Readbacks: the refinement *)

Waiting == {"queued", "ready"}
Newest(x) == x.time - x.targets
Offered(x, slots) == {slots[s].time : s \in {s \in x.slots : slots[s].state \in Waiting}}

\* Frames!Next for one stream, whose frames may also be lost none of.
Streaming(st) ==
    \/ \E t \in 1 .. MaxFrames :
         /\ t > Newest(rStream[st]) /\ Newest(rStream'[st]) = t
         /\ Offered(rStream'[st], rSlot') = Offered(rStream[st], rSlot) \cup {t}
         /\ rConsumed'[st] = rConsumed[st]
    \/ /\ Offered(rStream'[st], rSlot') \subseteq Offered(rStream[st], rSlot)
       /\ Newest(rStream'[st]) = Newest(rStream[st]) /\ rConsumed'[st] = rConsumed[st]
    \/ \E t \in Offered(rStream[st], rSlot) :
         /\ t > rConsumed[st] /\ rConsumed'[st] = t
         /\ Offered(rStream'[st], rSlot') = {u \in Offered(rStream[st], rSlot) : u > t}
         /\ Newest(rStream'[st]) = Newest(rStream[st])

\* No frame of the stream is new, and none is read.
Quiet(st) ==
    /\ Newest(rStream'[st]) = Newest(rStream[st]) /\ rConsumed'[st] = rConsumed[st]
    /\ \A s \in rStream'[st].slots : rSlot'[s].state \in Waiting =>
         /\ s \in rStream[st].slots /\ rSlot[s].state \in Waiting
         /\ rSlot'[s].time = rSlot[s].time

LEMMA QuietStreams == ASSUME NEW st, Quiet(st) PROVE Streaming(st)
<1>1. Offered(rStream'[st], rSlot') \subseteq Offered(rStream[st], rSlot)
  BY DEF Quiet, Offered
<1> QED BY <1>1 DEF Quiet, Streaming

\* A stream that keeps its times and gets no slot, and slots that keep theirs.
LEMMA QuietSlots ==
    ASSUME NEW st, rConsumed'[st] = rConsumed[st],
           rStream'[st].time = rStream[st].time, rStream'[st].targets = rStream[st].targets,
           rStream'[st].slots \subseteq rStream[st].slots,
           \A s \in rStream[st].slots : rSlot'[s].state \in Waiting =>
             rSlot[s].state \in Waiting /\ rSlot'[s].time = rSlot[s].time
    PROVE  Streaming(st)
<1>1. Quiet(st)
  BY DEF Quiet, Newest
<1> QED BY <1>1, QuietStreams

LEMMA NextStream ==
    ASSUME ReadInv, rTasks \o rDelayed # <<>>
    PROVE  Readback!NextTask.stream \in Streams
<1>1. ReadTypes
  BY DEF ReadInv
<1>2. Readback!NextTask \in Carried \cup Range(rDelayed)
  BY <1>1, ReadNexts DEF Carried
<1> QED BY <1>1, <1>2, Wants

\* Of one stream at most some fields change that are not its times.
LEMMA SameTimes ==
    ASSUME rStream \in [Streams -> ReadStreams], NEW st \in Streams, NEW su \in Streams,
           NEW x, x = rStream[su], NEW y, rStream' = [rStream EXCEPT ![su] = y],
           y.time = x.time, y.targets = x.targets, NEW more, y.slots \subseteq x.slots \cup more
    PROVE  /\ rStream'[st].time = rStream[st].time /\ rStream'[st].targets = rStream[st].targets
           /\ rStream'[st].slots \subseteq rStream[st].slots \cup more
OBVIOUS

LEMMA AllocateStreams ==
    ASSUME ReadInv, NEW st \in Streams, Readback!AllocateSlot PROVE Streaming(st)
<1> PICK su : su = Readback!NextTask.stream
  OBVIOUS
<1>0. rStream \in [Streams -> ReadStreams] /\ rSlot \in [ReadbackSlots -> ReadSlots]
  BY DEF ReadInv, ReadTypes
<1>s. su \in Streams
  <2>1. rTasks \o rDelayed # <<>>
    BY DEF Readback!AllocateSlot, Readback!IsNext
  <2> QED BY <2>1, NextStream
<1> PICK x, v, o : x = rStream[su] /\ v = x.pending - 1 /\ o = {}
  OBVIOUS
<1>x. x \in ReadStreams
  BY <1>0, <1>s
<1>1. rConsumed' = rConsumed
  BY DEF Readback!AllocateSlot
<1> DEFINE Fails == UNCHANGED rSlot /\ (\/ rStream' = [rStream EXCEPT ![su].pending = @ - 1]
                                       \/ rStream' = [rStream EXCEPT ![su].pending = @ - 1,
                                                   ![su].failed = TRUE, ![su].waiting = TRUE])
           Makes == \E bytes \in ActualBytes :
             LET s == CHOOSE s \in ReadbackSlots : s \notin Readback!InUse IN
             /\ Readback!InUse # ReadbackSlots
             /\ rStream' = [rStream EXCEPT ![su].pending = @ - 1,
                               ![su].failed = FALSE, ![su].waiting = FALSE,
                               ![su].slots = @ \cup {s}, ![su].free = Append(@, s)]
             /\ rSlot' = [rSlot EXCEPT ![s] = Readback!NewSlot(bytes)]
<1>2. Fails \/ Makes
  BY DEF Readback!AllocateSlot
<1>3. CASE Fails
  <2>1. /\ rStream'[st].time = rStream[st].time /\ rStream'[st].targets = rStream[st].targets
        /\ rStream'[st].slots \subseteq rStream[st].slots /\ rSlot' = rSlot
    <3> DEFINE z == [x EXCEPT !.pending = v]
               f == [x EXCEPT !.pending = v, !.failed = TRUE, !.waiting = TRUE]
    <3>1. PICK y \in {z, f} : rStream' = [rStream EXCEPT ![su] = y]
      BY <1>3
    <3>2. y.time = x.time /\ y.targets = x.targets /\ y.slots = x.slots
      BY <1>x, <3>1 DEF ReadStreams
    <3> HIDE DEF z, f
    <3>3. y.slots \subseteq x.slots \cup o
      BY <3>2
    <3>4. /\ rStream'[st].time = rStream[st].time /\ rStream'[st].targets = rStream[st].targets
          /\ rStream'[st].slots \subseteq rStream[st].slots \cup o
      BY <1>0, <1>s, <3>1, <3>2, <3>3, SameTimes
    <3> QED BY <1>3, <3>4
  <2> QED BY <1>1, <2>1, QuietSlots
<1>4. CASE Makes
  <2> PICK s : s = CHOOSE r \in ReadbackSlots : r \notin Readback!InUse
    OBVIOUS
  <2>1. PICK bytes \in ActualBytes :
             /\ Readback!InUse # ReadbackSlots
             /\ rStream' = [rStream EXCEPT ![su].pending = @ - 1,
                               ![su].failed = FALSE, ![su].waiting = FALSE,
                               ![su].slots = @ \cup {s}, ![su].free = Append(@, s)]
             /\ rSlot' = [rSlot EXCEPT ![s] = Readback!NewSlot(bytes)]
    BY <1>4
  <2>2. s \in ReadbackSlots
    <3>1. Readback!InUse \subseteq ReadbackSlots
      BY StreamFields DEF Readback!InUse, ReadInv
    <3> QED BY <2>1, <3>1
  <2>3. rSlot'[s].state = "free" /\ \A r \in ReadbackSlots \ {s} : rSlot'[r] = rSlot[r]
    BY <1>0, <2>1, <2>2 DEF Readback!NewSlot
  <2>4. /\ rStream'[st].time = rStream[st].time /\ rStream'[st].targets = rStream[st].targets
        /\ rStream'[st].slots \subseteq rStream[st].slots \cup {s}
    <3> PICK more : more = {s}
      OBVIOUS
    <3> DEFINE free == Append(x.free, s)
               slots == x.slots \cup more
               y == [rStream[su] EXCEPT !.pending = v, !.failed = FALSE, !.waiting = FALSE,
                                             !.slots = slots, !.free = free]
    <3>1. rStream' = [rStream EXCEPT ![su].pending = v, ![su].failed = FALSE,
                          ![su].waiting = FALSE, ![su].slots = slots, ![su].free = free]
      BY <2>1
    <3> HIDE DEF free, slots
    <3>2. rStream' = [rStream EXCEPT ![su] = y]
      BY <3>1
    <3>3. y.time = x.time /\ y.targets = x.targets /\ y.slots = slots
      BY <1>x DEF ReadStreams
    <3> HIDE DEF y
    <3>4. y.slots \subseteq x.slots \cup more
      BY <3>3 DEF slots
    <3>5. /\ rStream'[st].time = rStream[st].time /\ rStream'[st].targets = rStream[st].targets
          /\ rStream'[st].slots \subseteq rStream[st].slots \cup more
      BY <1>0, <1>s, <3>2, <3>3, <3>4, SameTimes
    <3> QED BY <3>5
  <2>5. rStream[st].slots \subseteq ReadbackSlots
    BY StreamFields DEF ReadInv
  <2>6. Quiet(st)
    BY <1>1, <2>3, <2>4, <2>5 DEF Quiet, Newest, Waiting
  <2> QED BY <2>6, QuietStreams
<1> QED BY <1>2, <1>3, <1>4

LEMMA WorkerStreams ==
    ASSUME ReadInv, NEW st \in Streams,
           \/ Readback!BeginReadback \/ Readback!DestroyStream
           \/ \E success \in BOOLEAN : rWorking # None /\ Readback!FinishReadback(success)
    PROVE  Streaming(st)
<1>0. /\ rStream \in [Streams -> ReadStreams] /\ rSlot \in [ReadbackSlots -> ReadSlots]
      /\ rStream[st].slots \subseteq ReadbackSlots
  BY StreamFields DEF ReadInv, ReadTypes
<1>1. CASE Readback!BeginReadback
  <2>1. UNCHANGED <<rStream, rSlot, rConsumed>>
    BY <1>1 DEF Readback!BeginReadback
  <2> QED BY <2>1, QuietSlots
<1>2. CASE Readback!DestroyStream
  <2> PICK su : su = Readback!NextTask.stream
    OBVIOUS
  <2> PICK o, e : o = {} /\ e = <<>>
    OBVIOUS
  <2>s. su \in Streams
    <3>1. rTasks \o rDelayed # <<>>
      BY <1>2 DEF Readback!DestroyStream, Readback!IsNext
    <3> QED BY <3>1, NextStream
  <2>1. /\ UNCHANGED <<rSlot, rConsumed>>
        /\ \/ rStream' = rStream
           \/ rStream' = [rStream EXCEPT ![su].slots = o, ![su].free = e, ![su].ready = e]
    BY <1>2 DEF Readback!DestroyStream
  <2>2. /\ rStream'[st].time = rStream[st].time /\ rStream'[st].targets = rStream[st].targets
        /\ rStream'[st].slots \subseteq rStream[st].slots
    <3> PICK x : x = rStream[su]
      OBVIOUS
    <3> DEFINE y == [rStream[su] EXCEPT !.slots = o, !.free = e, !.ready = e]
    <3>0. \/ rStream' = rStream
          \/ rStream' = [rStream EXCEPT ![su] = y]
      BY <2>1
    <3>1. CASE rStream' = rStream
      BY <3>1
    <3>2. CASE rStream' = [rStream EXCEPT ![su] = y]
      <4>1. y.time = x.time /\ y.targets = x.targets /\ y.slots = o /\ x \in ReadStreams
        BY <1>0, <2>s DEF ReadStreams
      <4> HIDE DEF y
      <4>2. y.slots \subseteq x.slots \cup o
        BY <4>1
      <4>3. /\ rStream'[st].time = rStream[st].time /\ rStream'[st].targets = rStream[st].targets
            /\ rStream'[st].slots \subseteq rStream[st].slots \cup o
        BY <1>0, <2>s, <3>2, <4>1, <4>2, SameTimes
      <4> QED BY <4>3
    <3> HIDE DEF y
    <3> QED BY <3>0, <3>1, <3>2
  <2> QED BY <2>1, <2>2, QuietSlots
<1>3. ASSUME NEW success \in BOOLEAN, rWorking # None, Readback!FinishReadback(success)
      PROVE  Streaming(st)
  <2> PICK su, s : su = rWorking.stream /\ s = rWorking.slot
    OBVIOUS
  <2>1. su \in Streams /\ s \in ReadbackSlots /\ rSlot[s].state = "queued"
    BY <1>3, Oldest
  <2>2. /\ rConsumed' = rConsumed
        /\ \E state \in {"ready", "free"} : rSlot' = [rSlot EXCEPT ![s].state = state]
        /\ \/ rStream' = [rStream EXCEPT ![su].ready = Append(@, s)]
           \/ rStream' = [rStream EXCEPT ![su].free = Append(@, s)]
           \/ rStream' = [rStream EXCEPT ![su].free = @]
    BY <1>3 DEF Readback!FinishReadback, Readback!Finish
  <2>3. /\ rStream'[st].time = rStream[st].time /\ rStream'[st].targets = rStream[st].targets
        /\ rStream'[st].slots \subseteq rStream[st].slots
    <3> PICK x, o, a, b : x = rStream[su] /\ o = {} /\ a = Append(x.ready, s) /\ b = Append(x.free, s)
      OBVIOUS
    <3> DEFINE f == [x EXCEPT !.ready = a]  g == [x EXCEPT !.free = b]  h == [x EXCEPT !.free = @]
    <3>1. PICK y \in {f, g, h} : rStream' = [rStream EXCEPT ![su] = y]
      BY <2>2
    <3>2. y.time = x.time /\ y.targets = x.targets /\ y.slots = x.slots
      <4> x \in ReadStreams
        BY <1>0, <2>1
      <4> QED BY <3>1 DEF ReadStreams
    <3> HIDE DEF f, g, h
    <3>3. y.slots \subseteq x.slots \cup o
      BY <3>2
    <3>4. /\ rStream'[st].time = rStream[st].time /\ rStream'[st].targets = rStream[st].targets
          /\ rStream'[st].slots \subseteq rStream[st].slots \cup o
      BY <1>0, <2>1, <3>1, <3>2, <3>3, SameTimes
    <3> QED BY <3>4
  <2>4. \A r \in ReadbackSlots : rSlot'[r].time = rSlot[r].time /\ (r # s => rSlot'[r] = rSlot[r])
    BY <1>0, <2>1, <2>2 DEF ReadSlots
  <2> QED BY <1>0, <2>1, <2>2, <2>3, <2>4, QuietSlots DEF Waiting
<1> QED BY <1>1, <1>2, <1>3

LEMMA OwnerStreams ==
    ASSUME ReadInv, NEW st \in Streams, NEW su \in Streams,
           \/ Readback!CreateStream(su) \/ Readback!CloseStream(su) \/ Readback!Post(su)
           \/ Readback!RetryElapses(su)
    PROVE  Streaming(st)
<1>0. /\ rStream \in [Streams -> ReadStreams] /\ rSlot \in [ReadbackSlots -> ReadSlots]
      /\ \A sv \in Streams : Delivered(rStream[sv], rSlot, rConsumed[sv])
  BY DEF ReadInv, ReadTypes
<1>1. CASE Readback!CreateStream(su)
  <2> PICK y : y = [Readback!NewStream EXCEPT !.made = TRUE, !.active = TRUE,
                                              !.pending = InitialReadbackSlots]
    OBVIOUS
  <2>1. y.slots = {} /\ y.time = 0 /\ y.targets = 0
    BY DEF Readback!NewStream
  <2>2. /\ UNCHANGED <<rSlot, rConsumed>> /\ ~rStream[su].made
        /\ rStream' = [rStream EXCEPT ![su] = y]
    BY <1>1 DEF Readback!CreateStream
  <2>3. rStream[su].time = 0 /\ rStream[su].targets = 0
    BY <1>0, <2>2 DEF Delivered
  <2>4. /\ rStream'[st].time = rStream[st].time /\ rStream'[st].targets = rStream[st].targets
        /\ rStream'[st].slots \subseteq rStream[st].slots
    BY <1>0, <2>1, <2>2, <2>3
  <2> QED BY <2>2, <2>4, QuietSlots
<1>2. CASE \/ Readback!CloseStream(su) \/ Readback!Post(su) \/ Readback!RetryElapses(su)
  <2>1. /\ UNCHANGED <<rSlot, rConsumed>>
        /\ \/ rStream' = [rStream EXCEPT ![su].active = FALSE]
           \/ rStream' = [rStream EXCEPT ![su].waiting = FALSE]
           \/ rStream' = rStream
    BY <1>2 DEF Readback!CloseStream, Readback!Post, Readback!RetryElapses
  <2>2. /\ rStream'[st].time = rStream[st].time /\ rStream'[st].targets = rStream[st].targets
        /\ rStream'[st].slots \subseteq rStream[st].slots
    <3> PICK x, o : x = rStream[su] /\ o = {}
      OBVIOUS
    <3> DEFINE f == [x EXCEPT !.active = FALSE]  g == [x EXCEPT !.waiting = FALSE]
    <3>1. CASE rStream' = rStream
      BY <3>1
    <3>2. CASE \E y \in {f, g} : rStream' = [rStream EXCEPT ![su] = y]
      <4>1. PICK y \in {f, g} : rStream' = [rStream EXCEPT ![su] = y]
        BY <3>2
      <4>2. y.time = x.time /\ y.targets = x.targets /\ y.slots = x.slots
        <5> x \in ReadStreams
          BY <1>0
        <5> QED BY <4>1 DEF ReadStreams
      <4> HIDE DEF f, g
      <4>3. y.slots \subseteq x.slots \cup o
        BY <4>2
      <4>4. /\ rStream'[st].time = rStream[st].time /\ rStream'[st].targets = rStream[st].targets
            /\ rStream'[st].slots \subseteq rStream[st].slots \cup o
        BY <1>0, <4>1, <4>2, <4>3, SameTimes
      <4> QED BY <4>4
    <3> QED BY <2>1, <3>1, <3>2
  <2> QED BY <2>1, <2>2, QuietSlots
<1> QED BY <1>1, <1>2

LEMMA AcquireStreams ==
    ASSUME ReadInv, NEW st \in Streams, NEW su \in Streams, Readback!TryAcquireRenderTarget(su)
    PROVE  Streaming(st)
<1> PICK x : x = rStream[su]
  OBVIOUS
<1> PICK s : s = Head(x.free)
  OBVIOUS
<1> PICK o : o = {}
  OBVIOUS
<1>0. /\ rStream \in [Streams -> ReadStreams] /\ rSlot \in [ReadbackSlots -> ReadSlots]
      /\ Delivered(x, rSlot, rConsumed[su])
      /\ rStream[st].slots \subseteq ReadbackSlots
  BY StreamFields DEF ReadInv, ReadTypes
<1>1. x \in ReadStreams /\ x.time \in Nat /\ x.targets \in {0, 1} /\ x.free \in Seq(ReadbackSlots)
  BY <1>0 DEF ReadStreams
<1>2. x.free # <<>> => s \in ReadbackSlots /\ rSlot[s].state = "free"
  <2>1. Holds(x.free, x.slots, rSlot, "free")
    BY <1>0 DEF Delivered
  <2> QED BY <1>1, <2>1, HeldTail
<1> DEFINE Takes == /\ x.free # <<>> /\ x.targets = 0
                    /\ rStream' = [rStream EXCEPT ![su].free = Tail(@), ![su].targets = @ + 1,
                                                  ![su].time = @ + 1]
                    /\ rSlot' = [rSlot EXCEPT ![s].state = "rendering",
                                              ![s].time = rStream[su].time + 1]
           Returns == /\ x.free # <<>>
                      /\ rStream' = [rStream EXCEPT ![su].free = Append(Tail(@), s)]
                      /\ rSlot' = [rSlot EXCEPT ![s].time = 0]
           Allocates == /\ rStream' = [rStream EXCEPT ![su].pending = @ + 1]
                        /\ rSlot' = rSlot
<1>3. rConsumed' = rConsumed /\ (Takes \/ Returns \/ Allocates)
  BY DEF Readback!TryAcquireRenderTarget
<1>4. CASE Takes
  <2> DEFINE free == Tail(x.free)  one == x.targets + 1  time == x.time + 1
             y == [rStream[su] EXCEPT !.free = free, !.targets = one, !.time = time]
  <2>1. rStream' = [rStream EXCEPT ![su].free = free, ![su].targets = one, ![su].time = time]
    BY <1>4
  <2>2. time - one = x.time - x.targets
    BY <1>1
  <2> HIDE DEF free, one, time
  <2>3. rStream' = [rStream EXCEPT ![su] = y]
    BY <2>1
  <2>4. y.time = time /\ y.targets = one /\ y.slots = x.slots
    BY <1>1 DEF ReadStreams
  <2> HIDE DEF y
  <2>5. /\ st = su => rStream'[st] = y
        /\ st # su => rStream'[st] = rStream[st]
    BY <1>0, <2>3
  <2>6. /\ Newest(rStream'[st]) = Newest(rStream[st]) /\ rStream'[st].slots = rStream[st].slots
    <3>1. CASE st = su
      BY <2>2, <2>4, <2>5, <3>1 DEF Newest
    <3>2. CASE st # su
      BY <2>5, <3>2
    <3> QED BY <3>1, <3>2
  <2>7. rSlot'[s].state = "rendering" /\ \A r \in ReadbackSlots \ {s} : rSlot'[r] = rSlot[r]
    <3>1. rSlot' = [rSlot EXCEPT ![s].state = "rendering", ![s].time = time]
      BY <1>4 DEF time
    <3>2. s \in ReadbackSlots
      BY <1>2, <1>4
    <3>3. rSlot[s] \in ReadSlots
      BY <1>0, <3>2
    <3> QED BY <1>0, <3>1, <3>2, <3>3 DEF ReadSlots
  <2>8. Quiet(st)
    BY <1>0, <1>3, <2>6, <2>7 DEF Quiet, Waiting
  <2> QED BY <2>8, QuietStreams
<1>5. CASE Returns
  <2> DEFINE free == Append(Tail(x.free), s)
             y == [rStream[su] EXCEPT !.free = free]
  <2>1. rStream' = [rStream EXCEPT ![su] = y]
    BY <1>5
  <2> HIDE DEF free
  <2>2. y.time = x.time /\ y.targets = x.targets /\ y.slots = x.slots
    BY <1>1 DEF ReadStreams
  <2> HIDE DEF y
  <2>3. y.slots \subseteq x.slots \cup o
    BY <2>2
  <2>4. /\ rStream'[st].time = rStream[st].time /\ rStream'[st].targets = rStream[st].targets
        /\ rStream'[st].slots \subseteq rStream[st].slots \cup o
    BY <1>0, <2>1, <2>2, <2>3, SameTimes
  <2>5. rSlot'[s].state = "free" /\ \A r \in ReadbackSlots \ {s} : rSlot'[r] = rSlot[r]
    BY <1>0, <1>2, <1>5 DEF ReadSlots
  <2> QED BY <1>0, <1>3, <2>4, <2>5, QuietSlots DEF Waiting
<1>6. CASE Allocates
  <2> DEFINE v == x.pending + 1  y == [rStream[su] EXCEPT !.pending = v]
  <2>1. rStream' = [rStream EXCEPT ![su] = y]
    BY <1>6
  <2> HIDE DEF v
  <2>2. y.time = x.time /\ y.targets = x.targets /\ y.slots = x.slots
    BY <1>1 DEF ReadStreams
  <2> HIDE DEF y
  <2>3. y.slots \subseteq x.slots \cup o
    BY <2>2
  <2>4. /\ rStream'[st].time = rStream[st].time /\ rStream'[st].targets = rStream[st].targets
        /\ rStream'[st].slots \subseteq rStream[st].slots \cup o
    BY <1>0, <2>1, <2>2, <2>3, SameTimes
  <2> QED BY <1>3, <1>6, <2>4, QuietSlots
<1> QED BY <1>3, <1>4, <1>5, <1>6

\* The frame that is submitted is offered: it is newer than every one before it.
LEMMA SubmitStreams ==
    ASSUME ReadInv, NEW st \in Streams, NEW s \in ReadbackSlots, Readback!Submit(s)
    PROVE  Streaming(st)
<1> PICK su : su = Readback!StreamOf(s)
  OBVIOUS
<1> PICK x : x = rStream[su]
  OBVIOUS
<1>0. /\ rStream \in [Streams -> ReadStreams] /\ rSlot \in [ReadbackSlots -> ReadSlots]
      /\ Apart(rStream) /\ rStream[st].slots \subseteq ReadbackSlots
  BY StreamFields DEF ReadInv, ReadTypes
<1>1. /\ su \in Streams /\ s \in x.slots /\ rSlot[s].state = "rendering" /\ rConsumed' = rConsumed
  BY OwnerOf DEF Readback!Submit, Readback!SubmitTarget, Readback!Ready
<1>2. /\ x \in ReadStreams /\ Delivered(x, rSlot, rConsumed[su]) /\ rConsumed[su] \in Nat
      /\ x.time \in Nat /\ x.slots \subseteq ReadbackSlots
  BY <1>1, StreamFields DEF ReadInv
<1>3. /\ x.targets = 1 /\ rSlot[s].time = x.time /\ x.time <= MaxFrames /\ x.time >= 1
      /\ MaxFrames \in Nat
  BY <1>1, <1>2, TransfersAssumption DEF Delivered, Frame
<1> DEFINE zero == x.targets - 1  y == [rStream[su] EXCEPT !.targets = zero]
<1>4. zero = 0
  BY <1>3
<1>5. rStream' = [rStream EXCEPT ![su] = y]
  BY DEF Readback!Submit, Readback!SubmitTarget
<1> HIDE DEF zero
<1>6. y.time = x.time /\ y.targets = 0 /\ y.slots = x.slots
  BY <1>2, <1>4 DEF ReadStreams
<1> HIDE DEF y
<1>7. /\ rSlot'[s].state = "queued" /\ rSlot'[s].time = rSlot[s].time
      /\ \A r \in ReadbackSlots \ {s} : rSlot'[r] = rSlot[r]
  <2>1. rSlot' = [rSlot EXCEPT ![s].state = "queued"]
    BY DEF Readback!Submit, Readback!SubmitTarget
  <2> QED BY <1>0, <2>1 DEF ReadSlots
<1>8. CASE st # su
  <2>1. rStream'[st] = rStream[st] /\ s \notin rStream[st].slots
    BY <1>0, <1>1, <1>5, <1>8 DEF Apart
  <2> QED BY <1>0, <1>1, <1>7, <2>1, QuietSlots
<1>9. CASE st = su
  <2>1. rStream[st] = x /\ rStream'[st] = y
    BY <1>0, <1>5, <1>9
  <2>2. \A u : u \in Offered(y, rSlot') <=> u \in Offered(x, rSlot) \/ u = x.time
    <3>1. ASSUME NEW r \in x.slots, rSlot'[r].state \in Waiting
          PROVE  rSlot'[r].time \in Offered(x, rSlot) \/ rSlot'[r].time = x.time
      <4>1. CASE r = s
        BY <1>3, <1>7, <4>1
      <4>2. CASE r # s
        <5>1. rSlot'[r] = rSlot[r]
          BY <1>2, <1>7, <4>2
        <5> QED BY <3>1, <5>1 DEF Offered
      <4> QED BY <4>1, <4>2
    <3>2. ASSUME NEW r \in x.slots, rSlot[r].state \in Waiting
          PROVE  rSlot[r].time \in Offered(y, rSlot')
      <4>1. r # s
        BY <1>1, <3>2 DEF Waiting
      <4>2. rSlot'[r] = rSlot[r]
        BY <1>2, <1>7, <4>1
      <4> QED BY <1>6, <3>2, <4>2 DEF Offered
    <3>3. x.time \in Offered(y, rSlot')
      BY <1>1, <1>3, <1>6, <1>7 DEF Offered, Waiting
    <3> QED BY <1>6, <3>1, <3>2, <3>3 DEF Offered
  <2>3. Offered(y, rSlot') = Offered(x, rSlot) \cup {x.time}
    BY <2>2
  <2>4. x.time \in 1 .. MaxFrames /\ x.time > Newest(x) /\ Newest(y) = x.time
    BY <1>2, <1>3, <1>6 DEF Newest
  <2> QED BY <1>1, <2>1, <2>3, <2>4 DEF Streaming
<1> QED BY <1>8, <1>9

LEMMA ReturnStreams ==
    ASSUME ReadInv, NEW st \in Streams, NEW s \in ReadbackSlots, Readback!ReturnFrame(s)
    PROVE  Streaming(st)
<1> PICK su : su = Readback!StreamOf(s)
  OBVIOUS
<1> PICK x, o : x = rStream[su] /\ o = {}
  OBVIOUS
<1>0. /\ rStream \in [Streams -> ReadStreams] /\ rSlot \in [ReadbackSlots -> ReadSlots]
      /\ rStream[st].slots \subseteq ReadbackSlots
  BY StreamFields DEF ReadInv, ReadTypes
<1>1. su \in Streams /\ x \in ReadStreams /\ rConsumed' = rConsumed
  BY <1>0, OwnerOf DEF Readback!ReturnFrame
<1> PICK free, frames : Freed(free, x, s) /\ frames = x.frames - 1
  BY DEF Freed
<1> DEFINE y == [rStream[su] EXCEPT !.frames = frames, !.free = free]
<1>2. rStream' = [rStream EXCEPT ![su] = y]
  <2>1. rStream' = [rStream EXCEPT ![su].frames = frames, ![su].free = free]
    BY DEF Readback!ReturnFrame, Freed
  <2> QED BY <2>1
<1>3. y.time = x.time /\ y.targets = x.targets /\ y.slots = x.slots
  BY <1>1 DEF ReadStreams
<1> HIDE DEF y
<1>4. y.slots \subseteq x.slots \cup o
  BY <1>3
<1>5. /\ rStream'[st].time = rStream[st].time /\ rStream'[st].targets = rStream[st].targets
      /\ rStream'[st].slots \subseteq rStream[st].slots \cup o
  BY <1>0, <1>1, <1>2, <1>3, <1>4, SameTimes
<1>6. rSlot'[s].state = "free" /\ \A r \in ReadbackSlots \ {s} : rSlot'[r] = rSlot[r]
  <2>1. rSlot' = [rSlot EXCEPT ![s].state = "free"]
    BY DEF Readback!ReturnFrame
  <2> QED BY <1>0, <2>1 DEF ReadSlots
<1> QED BY <1>0, <1>1, <1>5, <1>6, QuietSlots DEF Waiting

Later(offered, t) == {u \in offered : u > t}
Shows(x, y, slots, slots2, last, t) ==
    /\ t \in Offered(x, slots) /\ t > last /\ Newest(y) = Newest(x)
    /\ Offered(y, slots2) = Later(Offered(x, slots), t)

\* The frame that is read is shown, and ends the chance of the older ones.
LEMMA ReadsShow ==
    ASSUME NEW x \in ReadStreams, NEW y, NEW slots \in [ReadbackSlots -> ReadSlots],
           NEW slots2 \in [ReadbackSlots -> ReadSlots], NEW last, NEW s, NEW skipped, NEW ready,
           Delivered(x, slots, last), Divides(x, slots, s, skipped, ready),
           Consumes(x, y, slots, slots2, s, skipped, ready)
    PROVE  Shows(x, y, slots, slots2, last, slots[s].time)
<1> PICK t : t = slots[s].time
  OBVIOUS
<1> PICK owned : owned = x.slots
  OBVIOUS
<1>1. /\ owned \subseteq ReadbackSlots /\ s \in owned /\ slots[s].state = "ready"
      /\ Frame(s, x, slots, last) /\ \A r \in Range(skipped) : r \in owned /\ slots[r].time < t
  BY SMTT(30) DEF Delivered, Divides, ReadStreams, Holds, Range
<1>2. /\ y.slots = owned /\ Newest(y) = Newest(x)
      /\ slots2[s].state = "cpu_reading" /\ \A r \in Range(skipped) : slots2[r].state = "free"
      /\ \A r \in owned \ Left(s, skipped) : slots2[r] = slots[r]
  BY DEF Consumes, Newest
<1>3. t \in Nat /\ t > last /\ \A r \in owned : slots[r].time \in Nat
  <2>1. \A r \in owned : slots[r].time \in Nat
    BY <1>1 DEF ReadSlots
  <2>2. last < t
    BY <1>1 DEF Frame
  <2> QED BY <1>1, <2>1, <2>2
<1>4. \A r \in owned : slots2[r].state \in Waiting =>
        /\ slots2[r] = slots[r] /\ slots[r].time > t
  <2> SUFFICES ASSUME NEW r \in owned, slots2[r].state \in Waiting
               PROVE  slots2[r] = slots[r] /\ slots[r].time > t
    OBVIOUS
  <2>1. r \notin Left(s, skipped)
    BY <1>2 DEF Left, Waiting
  <2>2. slots2[r] = slots[r]
    BY <1>2, <2>1
  <2>3. Delivered(y, slots2, t)
    BY DeliveredConsumes
  <2>4. Frame(r, y, slots2, t)
    BY <1>2, <2>3 DEF Delivered
  <2>5. t < slots2[r].time
    BY <2>4 DEF Frame, Waiting
  <2> QED BY <2>2, <2>5
<1>5. \A r \in owned : slots[r].state \in Waiting /\ slots[r].time > t => slots2[r] = slots[r]
  <2> SUFFICES ASSUME NEW r \in owned, slots[r].time > t PROVE r \notin Left(s, skipped)
    BY <1>2
  <2>1. r # s
    BY <1>3
  <2>2. r \notin Range(skipped)
    BY <1>1, <1>3
  <2> QED BY <2>1, <2>2 DEF Left
<1>6. t \in Offered(x, slots)
  BY <1>1 DEF Offered, Waiting
<1>7. Offered(y, slots2) = {u \in Offered(x, slots) : u > t}
  <2>1. ASSUME NEW u \in Offered(y, slots2) PROVE u \in Offered(x, slots) /\ u > t
    <3>1. PICK r \in owned : slots2[r].state \in Waiting /\ slots2[r].time = u
      BY <1>2 DEF Offered
    <3>2. slots2[r] = slots[r] /\ slots[r].time > t
      BY <1>4, <3>1
    <3> QED BY <3>1, <3>2 DEF Offered
  <2>2. ASSUME NEW u \in Offered(x, slots), u > t PROVE u \in Offered(y, slots2)
    <3>1. PICK r \in owned : slots[r].state \in Waiting /\ slots[r].time = u
      BY DEF Offered
    <3>2. slots2[r] = slots[r]
      BY <1>5, <2>2, <3>1
    <3> QED BY <1>2, <3>1, <3>2 DEF Offered
  <2> QED BY <2>1, <2>2
<1> QED BY <1>2, <1>3, <1>6, <1>7 DEF Later, Shows

LEMMA ReadsStreams ==
    ASSUME ReadInv, NEW st \in Streams, NEW su \in Streams, NEW s, NEW skipped, NEW ready,
           Divides(rStream[su], rSlot, s, skipped, ready),
           Readback!Reads(su, s, skipped, ready)
    PROVE  Streaming(st)
<1> PICK x : x = rStream[su]
  OBVIOUS
<1>0. /\ rStream \in [Streams -> ReadStreams] /\ rSlot \in [ReadbackSlots -> ReadSlots]
      /\ rConsumed \in [Streams -> Nat] /\ Apart(rStream)
      /\ x \in ReadStreams /\ Delivered(x, rSlot, rConsumed[su])
      /\ rStream[st].slots \subseteq ReadbackSlots
  BY StreamFields DEF ReadInv, ReadTypes
<1>1. rConsumed' = [rConsumed EXCEPT ![su] = rSlot[s].time]
  BY DEF Readback!Reads
<1>2. \A r \in Left(s, skipped) : r \in x.slots
  BY DEF Divides, Holds, Range, Left
<1> PICK free, frames : free = x.free \o skipped /\ frames = x.frames + 1
  OBVIOUS
<1> DEFINE y == [x EXCEPT !.ready = ready, !.free = free, !.frames = frames]
<1>3. rStream' = [rStream EXCEPT ![su] = y]
  <2>1. rStream' = [rStream EXCEPT ![su].ready = ready, ![su].free = free, ![su].frames = frames]
    BY DEF Readback!Reads
  <2> QED BY <2>1
<1>4. /\ y.made = x.made /\ y.active = x.active /\ y.slots = x.slots
      /\ y.free = free /\ y.ready = ready /\ y.time = x.time /\ y.targets = x.targets
  BY <1>0 DEF ReadStreams
<1> HIDE DEF y
<1>5. /\ rSlot'[s].state = "cpu_reading" /\ rSlot' \in [ReadbackSlots -> ReadSlots]
      /\ \A r \in Range(skipped) : rSlot'[r].state = "free"
      /\ \A r \in ReadbackSlots \ Left(s, skipped) : rSlot'[r] = rSlot[r]
  <2>1. rSlot' = [r \in ReadbackSlots |->
                    IF r = s THEN [rSlot[r] EXCEPT !.state = "cpu_reading"]
                    ELSE IF r \in Range(skipped) THEN [rSlot[r] EXCEPT !.state = "free"]
                    ELSE rSlot[r]]
    BY DEF Readback!Reads, Readback!Range, Range
  <2>2. \A r \in ReadbackSlots :
          /\ [rSlot[r] EXCEPT !.state = "cpu_reading"] \in ReadSlots
          /\ [rSlot[r] EXCEPT !.state = "free"] \in ReadSlots
          /\ [rSlot[r] EXCEPT !.state = "cpu_reading"].state = "cpu_reading"
          /\ [rSlot[r] EXCEPT !.state = "free"].state = "free"
          /\ rSlot[r] \in ReadSlots
    BY <1>0 DEF ReadSlots, Readback!States
  <2>3. x.slots \subseteq ReadbackSlots /\ s \notin Range(skipped)
    BY <1>0 DEF Divides, ReadStreams
  <2>4. \A r \in Left(s, skipped) : r \in ReadbackSlots
    BY <1>2, <2>3
  <2>5. rSlot' \in [ReadbackSlots -> ReadSlots]
    BY <2>1, <2>2
  <2>6. rSlot'[s].state = "cpu_reading" /\ \A r \in Range(skipped) : rSlot'[r].state = "free"
    BY <2>1, <2>2, <2>3, <2>4 DEF Left
  <2>7. \A r \in ReadbackSlots \ Left(s, skipped) : rSlot'[r] = rSlot[r]
    BY <2>1 DEF Left
  <2> QED BY <2>5, <2>6, <2>7
<1>6. CASE st # su
  <2>1. rStream'[st] = rStream[st] /\ rConsumed'[st] = rConsumed[st]
    BY <1>0, <1>1, <1>3, <1>6
  <2>2. \A r \in rStream[st].slots : r \notin Left(s, skipped)
    BY <1>0, <1>2, <1>6 DEF Apart
  <2>3. \A r \in rStream[st].slots : rSlot'[r] = rSlot[r]
    BY <1>0, <1>5, <2>2
  <2> QED BY <2>1, <2>3, QuietSlots
<1>7. CASE st = su
  <2> PICK slots, slots2, last, t : /\ slots = rSlot /\ slots2 = rSlot' /\ last = rConsumed[su]
                                    /\ t = slots[s].time
    OBVIOUS
  <2>1. rStream[st] = x /\ rStream'[st] = y /\ rConsumed[st] = last /\ rConsumed'[st] = t
    BY <1>0, <1>1, <1>3, <1>7
  <2>2. x.slots \subseteq ReadbackSlots
    BY <1>0 DEF ReadStreams
  <2>3. Consumes(x, y, slots, slots2, s, skipped, ready)
    BY <1>4, <1>5, <2>2 DEF Consumes
  <2>4. /\ slots \in [ReadbackSlots -> ReadSlots] /\ slots2 \in [ReadbackSlots -> ReadSlots]
        /\ Delivered(x, slots, last) /\ Divides(x, slots, s, skipped, ready)
    BY <1>0, <1>5
  <2>5. Shows(x, y, slots, slots2, last, slots[s].time)
    BY <1>0, <2>3, <2>4, ReadsShow
  <2> QED BY <2>1, <2>5 DEF Streaming, Shows, Later
<1> QED BY <1>6, <1>7

LEMMA ConsumeStreams ==
    ASSUME ReadInv, NEW st \in Streams, NEW su \in Streams,
           Readback!TryConsumeOldest(su) \/ Readback!TryConsumeLatest(su)
    PROVE  Streaming(st)
<1> PICK x : x = rStream[su]
  OBVIOUS
<1>1. /\ x \in ReadStreams /\ rSlot \in [ReadbackSlots -> ReadSlots]
      /\ Delivered(x, rSlot, rConsumed[su])
  BY StreamFields DEF ReadInv, ReadTypes
<1>2. CASE Readback!TryConsumeOldest(su)
  <2> PICK s, skipped, ready : s = Head(x.ready) /\ skipped = <<>> /\ ready = Tail(x.ready)
    OBVIOUS
  <2>1. x.ready # <<>> /\ Readback!Reads(su, s, skipped, ready)
    BY <1>2 DEF Readback!TryConsumeOldest
  <2>2. Divides(x, rSlot, s, skipped, ready)
    BY <1>1, <2>1, DividesOldest
  <2> QED BY <2>1, <2>2, ReadsStreams
<1>3. CASE Readback!TryConsumeLatest(su)
  <2> PICK s, skipped, ready : /\ s = x.ready[Len(x.ready)] /\ ready = <<>>
                               /\ skipped = SubSeq(x.ready, 1, Len(x.ready) - 1)
    OBVIOUS
  <2>1. x.ready # <<>> /\ Readback!Reads(su, s, skipped, ready)
    BY <1>3 DEF Readback!TryConsumeLatest, Readback!Last, Readback!Front
  <2>2. Divides(x, rSlot, s, skipped, ready)
    BY <1>1, <2>1, DividesLatest
  <2> QED BY <2>1, <2>2, ReadsStreams
<1> QED BY <1>2, <1>3

LEMMA ReadNextStreams ==
    ASSUME ReadInv, NEW st \in Streams, Readback!Next \/ UNCHANGED rVars
    PROVE  Streaming(st)
<1>1. CASE Readback!Worker
  BY <1>1, AllocateStreams, WorkerStreams DEF Readback!Worker
<1>2. ASSUME NEW su \in Streams,
             \/ Readback!CreateStream(su) \/ Readback!CloseStream(su) \/ Readback!Post(su)
             \/ Readback!TryAcquireRenderTarget(su) \/ Readback!RetryElapses(su)
             \/ Readback!TryConsumeOldest(su) \/ Readback!TryConsumeLatest(su)
      PROVE  Streaming(st)
  BY <1>2, OwnerStreams, AcquireStreams, ConsumeStreams
<1>3. ASSUME NEW s \in ReadbackSlots, Readback!Submit(s) \/ Readback!ReturnFrame(s)
      PROVE  Streaming(st)
  BY <1>3, SubmitStreams, ReturnStreams
<1>4. CASE UNCHANGED <<rStream, rSlot, rConsumed>>
  BY <1>4, QuietSlots
<1>5. ASSUME NEW s \in ReadbackSlots, Readback!GpuFinishes(s) PROVE Streaming(st)
  BY <1>4, <1>5 DEF Readback!GpuFinishes
<1>6. CASE Readback!Stop
  BY <1>4, <1>6 DEF Readback!Stop
<1>7. CASE UNCHANGED rVars
  BY <1>4, <1>7 DEF rVars
<1>8. CASE Readback!Drained /\ Readback!Idle /\ UNCHANGED Readback!vars
  BY <1>4, <1>8 DEF Readback!vars
<1> QED BY <1>1, <1>2, <1>3, <1>5, <1>6, <1>7, <1>8 DEF Readback!Next

-----------------------------------------------------------------------------
(* The services and their backends *)

LEMMA AllInitially == AllInit => IInv
BY UploadInit, ReadInit, BackendInit DEF AllInit, IInv

\* The parts share nothing: the ones that do not move keep their invariants.
LEMMA UploadStays == ASSUME UploadInv, UNCHANGED vars PROVE UploadInv'
BY UploadStep

LEMMA ReadStays == ASSUME ReadInv, UNCHANGED rVars PROVE ReadInv'
BY ReadNextKeeps

LEMMA BackendStays == ASSUME BackendInv, UNCHANGED bVars PROVE BackendInv'
BY DEF BackendInv, BackendTypes, bVars

LEMMA AllKeeps == IInv /\ [AllNext]_AllVars => IInv'
<1> SUFFICES ASSUME IInv, [AllNext]_AllVars PROVE IInv'
  OBVIOUS
<1>0. UploadInv /\ ReadInv /\ BackendInv
  BY DEF IInv
<1>1. CASE Next /\ UNCHANGED <<rVars, bVars>>
  BY <1>0, <1>1, UploadStep, ReadStays, BackendStays DEF IInv
<1>2. CASE Readback!Next /\ UNCHANGED <<vars, bVars>>
  BY <1>0, <1>2, UploadStays, ReadNextKeeps, BackendStays DEF IInv
<1>3. CASE Backend!Next /\ UNCHANGED <<vars, rVars>>
  BY <1>0, <1>3, UploadStays, ReadStays, BackendStep DEF IInv
<1>4. CASE UNCHANGED AllVars
  BY <1>0, <1>4, UploadStays, ReadStays, BackendStays DEF IInv, AllVars
<1> QED BY <1>1, <1>2, <1>3, <1>4 DEF AllNext

(* The inductive invariant holds in every reachable state. *)
THEOREM TransfersInvariance == AllSpec => []IInv
BY AllInitially, AllKeeps, PTL DEF AllSpec

(* What the render thread or the GPU still uses is not transferred into,       *)
(* handed out or destroyed, the worker reads back only what the GPU has drawn, *)
(* and no copy that shows is disturbed, with any number of streams and slots,  *)
(* any budget and any backends (texture_upload.cpp and texture_readback.cpp,   *)
(* the workers and the callers; texture_frame.cpp, the fences; the backends).  *)
THEOREM TransfersStayUndisturbed == AllSpec => []TransfersAreUndisturbed
<1>1. IInv => TransfersAreUndisturbed
  BY SamplingUndisturbed, SlotsOneUser, CopiesUndisturbed DEF IInv, TransfersAreUndisturbed
<1> QED BY <1>1, TransfersInvariance, PTL

-----------------------------------------------------------------------------
(* The readback service implements FrameStream *)

LEMMA FramesInitially == AllInit => Frames!Init
<1> SUFFICES ASSUME AllInit PROVE Frames!Init
  OBVIOUS
<1> PICK st : st = CHOOSE su \in Streams : TRUE
  OBVIOUS
<1>1. st \in Streams
  BY TransfersAssumption
<1>2. rStream[st] = Readback!NewStream /\ rConsumed[st] = 0
  BY <1>1 DEF AllInit, Readback!Init
<1>3. Newest(rStream[st]) = 0 /\ Offered(rStream[st], rSlot) = {}
  BY <1>2 DEF Readback!NewStream, Newest, Offered
<1> QED BY <1>2, <1>3 DEF Frames!Init, Newest, Offered, Waiting

LEMMA FramesStep ==
    ASSUME NEW st, st = CHOOSE su \in Streams : TRUE, Streaming(st)
    PROVE  [Frames!Next]_(Frames!frames)
<1>1. CASE \E t \in 1 .. MaxFrames :
         /\ t > Newest(rStream[st]) /\ Newest(rStream'[st]) = t
         /\ Offered(rStream'[st], rSlot') = Offered(rStream[st], rSlot) \cup {t}
         /\ rConsumed'[st] = rConsumed[st]
  <2>1. Frames!Offer
    BY <1>1 DEF Frames!Offer, Newest, Offered, Waiting
  <2> QED BY <2>1 DEF Frames!Next
<1>2. CASE /\ Offered(rStream'[st], rSlot') \subseteq Offered(rStream[st], rSlot)
           /\ Newest(rStream'[st]) = Newest(rStream[st]) /\ rConsumed'[st] = rConsumed[st]
  <2>1. Frames!Lose
    BY <1>2 DEF Frames!Lose, Newest, Offered, Waiting
  <2> QED BY <2>1 DEF Frames!Next
<1>3. CASE \E t \in Offered(rStream[st], rSlot) :
         /\ t > rConsumed[st] /\ rConsumed'[st] = t
         /\ Offered(rStream'[st], rSlot') = {u \in Offered(rStream[st], rSlot) : u > t}
         /\ Newest(rStream'[st]) = Newest(rStream[st])
  <2>1. Frames!Show
    BY <1>3 DEF Frames!Show, Newest, Offered, Waiting
  <2> QED BY <2>1 DEF Frames!Next
<1> QED BY <1>1, <1>2, <1>3 DEF Streaming

LEMMA FramesNext == IInv /\ [AllNext]_AllVars => [Frames!Next]_(Frames!frames)
<1> SUFFICES ASSUME IInv, [AllNext]_AllVars PROVE [Frames!Next]_(Frames!frames)
  OBVIOUS
<1> PICK st : st = CHOOSE su \in Streams : TRUE
  OBVIOUS
<1>1. st \in Streams
  BY TransfersAssumption
<1>2. Readback!Next \/ UNCHANGED rVars
  BY DEF AllNext, AllVars
<1>3. Streaming(st)
  BY <1>1, <1>2, ReadNextStreams DEF IInv
<1> QED BY <1>3, FramesStep

(* An output is shown the frames of its stream in the order they were drawn    *)
(* in, each at most once, whether it consumes the oldest or the latest         *)
(* (texture_readback.cpp, submit, readback_slot, try_consume_oldest and        *)
(* try_consume_latest): the service implements FrameStream.                    *)
THEOREM ReadbacksDeliverFrames == AllSpec => ReadbackDeliversFrames
BY AllInitially, AllKeeps, FramesInitially, FramesNext, PTL
   DEF AllSpec, ReadbackDeliversFrames, Frames!Spec

=============================================================================
