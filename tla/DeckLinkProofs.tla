----------------------------- MODULE DeckLinkProofs -----------------------------
(***************************************************************************)
(* Machine-checked proofs about the DeckLink part of the program: about    *)
(* captures and playbacks on one device, for any set of them and of modes  *)
(* and any sizes of the queues, and about what a node shows of the         *)
(* devices, for any number of devices and changes.                         *)
(*                                                                         *)
(* For the first the argument is about who holds the reservation of a      *)
(* device: from the frame that starts it until the task that has retired   *)
(* it, and while it does, there is a task that will, or a node that will   *)
(* post it. For the second it is the same for each of the three things     *)
(* that have a version: what has been observed is never ahead of it, and   *)
(* as long as the two are equal what is shown is what the version was      *)
(* counted for.                                                            *)
(***************************************************************************)
EXTENDS DeckLinkControl, DeckLinkDevices, TLAPS

-----------------------------------------------------------------------------
(* The tasks of an object c, in a queue T with task R in hand *)

Hand(R, c) == R # None /\ R.object = c
Named(T, c) == \E i \in DOMAIN T : T[i].object = c
HasTask(T, op, c) == \E i \in DOMAIN T : T[i].op = op /\ T[i].object = c

\* The task op of c comes before every other task of c.
ComesFirst(T, R, op, c) ==
    \A i \in DOMAIN T : T[i].op = op /\ T[i].object = c =>
        /\ ~Hand(R, c)
        /\ \A j \in DOMAIN T : j < i => T[j].object # c

InputWork == [op : Inputs, object : Captures]
OutputWork == [op : Output!Outputs, object : Playbacks]
Work == InputWork \cup OutputWork

-----------------------------------------------------------------------------
(* The inductive invariant *)

\* The executor is closed when no output is left, and so is the registry.
ExecutorInv ==
    /\ tasks \in Seq(Work) /\ running \in Work \cup {None} /\ closing \in BOOLEAN
    /\ registry \in BOOLEAN
    /\ ~registry \/ closing => output_node = "gone" /\ output_holder = None

\* No task refers to it.
Unused(c) == ~Hand(running, c) /\ ~Named(tasks, c)

\* Its first task is to come.
Starting(op, c) ==
    HasTask(tasks, op, c) \/ (Hand(running, c) /\ running.op = op /\ at = "begin")

\* The atomics of a callback_s.
Recorded == [phase : Phases, stop_requested : BOOLEAN, terminal : {"stopped", "failed"},
             pending : Modes \cup {None}, mode : Modes \cup {None}]

InputTypes ==
    /\ node \in {"alive", "gone"} /\ selection \in Options \cup {Unset}
    /\ capture \in Captures \cup {None} /\ render \in Captures \cup {None}
    /\ holder \in Captures \cup {None}
    /\ object \in [Captures -> Recorded]
    /\ listed \in BOOLEAN
    /\ device \in [user : Captures \cup {None}, callback : Captures \cup {None},
                   streaming : BOOLEAN]
    /\ pool \in [Captures -> {"none", "open", "shutting"}]
    /\ lent \in [Captures -> BOOLEAN] /\ queued \in [Captures -> 0..QueueBound]
    /\ sdk \in [call : {"none", "frame", "format"}, object : Captures \cup {None},
                mode : Modes \cup {None}]
    /\ sdk.call # "none" => sdk.object # None

\* The reservation.
Reserved(c) ==
    /\ pool[c] # "none" => holder = c
    /\ object[c].phase # "none" /\ ~object[c].stop_requested => holder = c
    /\ lent[c] \/ queued[c] > 0 \/ (sdk.call = "frame" /\ sdk.object = c) => pool[c] # "none"

\* The object.
Alive(c) ==
    object[c].phase = "none" =>
        /\ object[c] = Absent /\ Unused(c)
        /\ c \notin {capture, render, device.callback, sdk.object}

\* The tasks.
Tasked(c) ==
    /\ ComesFirst(tasks, running, "start input", c)
    /\ Starting("start input", c) => holder = c
    /\ HasTask(tasks, "retire input", c) => object[c].stop_requested
    /\ Hand(running, c) =>
          /\ running.op = "retire input" => object[c].stop_requested
          /\ at \in {"enabled", "checking", "deciding"} \cup Modes => holder = c
          /\ at \in Modes => device.callback = c
          /\ at \in {"stopped", "failed"} =>
                object[c].stop_requested /\ device.user # c /\ device.callback # c

InputInv ==
    /\ device.streaming <=> device.user # None
    /\ device.user # None => device.callback = device.user /\ pool[device.user] = "open"
    /\ device.callback # None => holder = device.callback
    /\ \A c \in Captures : Reserved(c) /\ Alive(c) /\ Tasked(c)

Frames == [ready : 0..PipelineBound, queued : 0..Output!Capacity, shown : BOOLEAN,
           scheduled : 0..Target]

\* The atomics of a callback_s.
Noted == [phase : Output!Phases, stop_requested : BOOLEAN, pump_posted : BOOLEAN]

OutputTypes ==
    /\ output_node \in {"alive", "gone"} /\ output_selection \in Output!Selections \cup {Unset}
    /\ playback \in Playbacks \cup {None} /\ output_holder \in Playbacks \cup {None}
    /\ output_sdk \in Playbacks \cup {None} /\ drawing \in BOOLEAN
    /\ output_object \in [Playbacks -> Noted]
    /\ wanted \in [Playbacks -> Output!Selections]
    /\ output_device \in [user : Playbacks \cup {None}, callback : Playbacks \cup {None},
                          playing : BOOLEAN, keyer : BOOLEAN]
    /\ path \in [Playbacks -> {"none", "plain", "keyed"}]
    /\ frames \in [Playbacks -> Frames]
    /\ observed \in [Playbacks -> BOOLEAN]

Ending == {"retire output", "fail output"}

\* Its retirement is to come or under way.
Retiring(p) ==
    \/ \E op \in Ending : HasTask(tasks, op, p)
    \/ Hand(running, p) /\ (running.op \in Ending \/ at \in {"stopped", "failed"})

\* The reservation.
Booked(p) ==
    /\ path[p] # "none" \/ frames[p].scheduled > 0 => output_holder = p
    /\ output_object[p].phase # "none" /\ ~output_object[p].stop_requested => output_holder = p
    /\ output_object[p].phase \in {"stopped", "failed"} => output_holder # p
    /\ output_holder = p => IF output_object[p].stop_requested THEN Retiring(p) ELSE playback = p

\* The object.
Kept(p) ==
    output_object[p].phase = "none" =>
        /\ output_object[p] = Output!Absent /\ Unused(p)
        /\ p \notin {playback, output_device.callback, output_sdk}

\* The frames.
Filled(p) ==
    /\ output_object[p].phase \in {"prerolling", "running"} => output_device.user = p
    /\ output_object[p].phase = "running" /\ ~output_object[p].stop_requested
           => frames[p].scheduled = Target
    /\ output_object[p].phase = "running" /\ output_sdk = p => frames[p].scheduled > 0
    /\ path[p] # "none" /\ output_device.user = p => (output_device.keyer <=> path[p] = "keyed")

\* The tasks.
Ordered(p) ==
    /\ ComesFirst(tasks, running, "start output", p)
    /\ Starting("start output", p) =>
          output_holder = p /\ output_object[p].phase \in {"starting", "stopping"}
    /\ \A op \in Ending : HasTask(tasks, op, p) => output_object[p].stop_requested
    /\ Hand(running, p) =>
          /\ running.op \in Ending => output_object[p].stop_requested
          /\ at \in {"initialized", "ready", "pumping", "playing"} =>
                output_holder = p /\ output_device.user = p
          /\ at = "pumping" => output_object[p].phase # "running"
          /\ at = "playing" => frames[p].shown
          /\ at \in {"stopped", "failed"} => output_object[p].stop_requested

PlaybackInv(p) == Booked(p) /\ Kept(p) /\ Filled(p) /\ Ordered(p)

DeviceInv ==
    /\ output_device.user # None => output_holder = output_device.user
    /\ output_device.callback # None => output_holder = output_device.callback
    /\ output_device.playing => output_device.user # None /\ frames[output_device.user].shown
    /\ output_node = "gone" => playback = None

OutputInv == DeviceInv /\ \A p \in Playbacks : PlaybackInv(p)

InputPart == InputTypes /\ InputInv
OutputPart == OutputTypes /\ OutputInv
IInv == ExecutorInv /\ InputPart /\ OutputPart

-----------------------------------------------------------------------------
(* What the executor does to the tasks of an object *)

\* A task goes to the end of the queue.
LEMMA Posting ==
    ASSUME NEW S, NEW T \in Seq(S), NEW w \in S, NEW c
    PROVE  /\ Named(Append(T, w), c) <=> Named(T, c) \/ w.object = c
           /\ \A op : HasTask(Append(T, w), op, c) <=>
                          HasTask(T, op, c) \/ (w.op = op /\ w.object = c)
           /\ \A R, op :
                 /\ ComesFirst(T, R, op, c)
                 /\ w.op = op /\ w.object = c => ~Named(T, c) /\ ~Hand(R, c)
                 => ComesFirst(Append(T, w), R, op, c)
<1>1. /\ Len(T) \in Nat /\ DOMAIN T = 1..Len(T)
      /\ DOMAIN Append(T, w) = 1..Len(T) + 1
      /\ \A i \in 1..Len(T) : Append(T, w)[i] = T[i]
      /\ Append(T, w)[Len(T) + 1] = w
  OBVIOUS
<1> DEFINE U == Append(T, w)
<1> HIDE DEF U
<1>2. \A i : i \in 1..Len(T) + 1 <=> i \in 1..Len(T) \/ i = Len(T) + 1
  BY <1>1
<1>3. Named(U, c) <=> Named(T, c) \/ w.object = c
  BY <1>1, <1>2 DEF U, Named
<1>4. \A op : HasTask(U, op, c) <=> HasTask(T, op, c) \/ (w.op = op /\ w.object = c)
  BY <1>1, <1>2 DEF U, HasTask
<1>5. ASSUME NEW R, NEW op, ComesFirst(T, R, op, c),
             w.op = op /\ w.object = c => ~Named(T, c) /\ ~Hand(R, c)
      PROVE  ComesFirst(U, R, op, c)
  BY <1>1, <1>2, <1>5 DEF U, ComesFirst, Named
<1> QED BY <1>3, <1>4, <1>5 DEF U

\* The first task is taken.
LEMMA Taking ==
    ASSUME NEW S, NEW T \in Seq(S), T # <<>>, NEW c
    PROVE  /\ Named(T, c) <=> Named(Tail(T), c) \/ Head(T).object = c
           /\ \A op : HasTask(T, op, c) <=>
                          HasTask(Tail(T), op, c) \/ (Head(T).op = op /\ Head(T).object = c)
           /\ \A R, op : ComesFirst(T, R, op, c) => ComesFirst(Tail(T), Head(T), op, c)
<1> DEFINE U == Tail(T)
<1>1. /\ Len(T) \in Nat \ {0} /\ DOMAIN T = 1..Len(T)
      /\ DOMAIN U = 1..Len(T) - 1
      /\ \A i \in 1..Len(T) - 1 : U[i] = T[i + 1]
      /\ Head(T) = T[1]
  OBVIOUS
<1> HIDE DEF U
<1>2. \A i : i \in 1..Len(T) => i = 1 \/ i - 1 \in 1..Len(T) - 1
  BY <1>1
<1>3. \A i \in 1..Len(T) - 1 : i \in Int /\ i + 1 \in 1..Len(T) /\ i + 1 > 1
  BY <1>1
<1>4. 1 \in 1..Len(T)
  BY <1>1
<1>5. \A i \in 1..Len(T) : i = 1 \/ T[i] = U[i - 1]
  BY <1>1, <1>2
<1>6. Named(T, c) <=> Named(U, c) \/ Head(T).object = c
  BY <1>1, <1>2, <1>3, <1>4, <1>5 DEF Named
<1>7. \A op : HasTask(T, op, c) <=> HasTask(U, op, c) \/ (Head(T).op = op /\ Head(T).object = c)
  BY <1>1, <1>2, <1>3, <1>4, <1>5 DEF HasTask
<1>8. ASSUME NEW R, NEW op, ComesFirst(T, R, op, c)
      PROVE  ComesFirst(U, Head(T), op, c)
  <2> SUFFICES ASSUME NEW i \in DOMAIN U, U[i].op = op, U[i].object = c
               PROVE  ~Hand(Head(T), c) /\ \A j \in DOMAIN U : j < i => U[j].object # c
    BY DEF ComesFirst
  <2>1. i \in Int /\ i + 1 \in DOMAIN T /\ T[i + 1] = U[i] /\ 1 < i + 1 /\ 1 \in DOMAIN T
    BY <1>1, <1>3, <1>4
  <2>2. \A j \in DOMAIN T : j < i + 1 => T[j].object # c
    BY <1>8, <2>1 DEF ComesFirst
  <2>3. T[1].object # c
    BY <2>1, <2>2
  <2>4. \A j \in DOMAIN U : j < i => j + 1 \in DOMAIN T /\ j + 1 < i + 1 /\ T[j + 1] = U[j]
    BY <1>1, <1>3, <2>1
  <2> QED BY <1>1, <2>2, <2>3, <2>4 DEF Hand
<1> QED BY <1>6, <1>7, <1>8 DEF U

\* The task in hand ends.
LEMMA Finishing ==
    ASSUME NEW T, NEW R, NEW op, NEW c, ComesFirst(T, R, op, c)
    PROVE  ComesFirst(T, None, op, c)
BY DEF ComesFirst, Hand

-----------------------------------------------------------------------------
(* A step of the other side *)

Elsewhere(C) ==
    /\ running' = running \/ (running' = None /\ \A c \in C : ~Hand(running, c))
    /\ at' = at \/ \A c \in C : ~Hand(running', c)
    /\ tasks' = tasks \/ \E w \in Work : w.object \notin C /\ tasks' = Append(tasks, w)

\* The sentinels, and what is a task of whom.
LEMMA Constants ==
    /\ None \notin Captures /\ None \notin Playbacks /\ None \notin Modes /\ None \notin Work
    /\ \A w \in InputWork : w.object \in Captures /\ w.object \notin Playbacks /\ w \in Work
    /\ \A w \in OutputWork : w.object \in Playbacks /\ w.object \notin Captures /\ w \in Work
    /\ \A w \in Work : w.object \in Captures => w.op \in Inputs
    /\ \A w \in Work : w.object \in Playbacks => w.op \in Output!Outputs
    /\ \A m \in Modes :
          m \notin {"begin", "enabled", "checking", "deciding", "stopped", "failed"}
BY InputAssumption, PlaybacksAssumption DEF Output!OutputAssumption, InputWork, OutputWork, Work

\* The sizes.
LEMMA Bounds ==
    /\ QueueBound \in Nat \ {0} /\ Target \in Nat \ {0}
    /\ Headroom \in Nat /\ PipelineBound \in Nat /\ Output!Capacity \in Nat
BY InputAssumption, PlaybacksAssumption DEF Output!OutputAssumption, Output!Capacity

\* A step of one side does not disturb the tasks of the other.
LEMMA Undisturbed ==
    ASSUME tasks \in Seq(Work), NEW C, Elsewhere(C), NEW c \in C
    PROVE  /\ Named(tasks', c) <=> Named(tasks, c)
           /\ \A op : HasTask(tasks', op, c) <=> HasTask(tasks, op, c)
           /\ \A op : ComesFirst(tasks, running, op, c) => ComesFirst(tasks', running', op, c)
           /\ Hand(running', c) <=> Hand(running, c)
           /\ Hand(running, c) => running' = running /\ at' = at
<1>1. /\ Named(tasks', c) <=> Named(tasks, c)
      /\ \A op : HasTask(tasks', op, c) <=> HasTask(tasks, op, c)
      /\ \A op : ComesFirst(tasks, running, op, c) => ComesFirst(tasks', running, op, c)
  <2>1. CASE tasks' = tasks
    BY <2>1
  <2>2. ASSUME NEW w \in Work, w.object \notin C, tasks' = Append(tasks, w)
        PROVE  <1>1!1 /\ <1>1!2 /\ <1>1!3
    <3>1. w.object # c
      BY <2>2
    <3> QED BY <2>2, <3>1, Posting
  <2> QED BY <2>1, <2>2 DEF Elsewhere
<1>2. (Hand(running', c) <=> Hand(running, c)) /\ (Hand(running, c) => running' = running /\ at' = at)
  BY DEF Elsewhere, Hand
<1>3. running' = running \/ running' = None
  BY DEF Elsewhere
<1> QED BY <1>1, <1>2, <1>3, Finishing

\* So nothing of the output changes with a step of the input,
LEMMA OutputUndisturbed ==
    ASSUME ExecutorInv, OutputPart, UNCHANGED output, Elsewhere(Playbacks)
    PROVE  OutputPart'
<1> USE DEF output
<1>1. OutputTypes'
  BY DEF OutputPart, OutputTypes
<1>2. ASSUME NEW p \in Playbacks PROVE PlaybackInv(p)'
  <2>1. PlaybackInv(p)
    BY DEF OutputPart, OutputInv
  <2>2. /\ Named(tasks', p) <=> Named(tasks, p)
        /\ \A op : HasTask(tasks', op, p) <=> HasTask(tasks, op, p)
        /\ \A op : ComesFirst(tasks, running, op, p) => ComesFirst(tasks', running', op, p)
        /\ Hand(running', p) <=> Hand(running, p)
        /\ Hand(running, p) => running' = running /\ at' = at
    BY Undisturbed DEF ExecutorInv
  <2> QED BY <2>1, <2>2 DEF PlaybackInv, Booked, Kept, Filled, Ordered, Unused, Starting, Retiring
<1>3. OutputInv'
  BY <1>2 DEF OutputPart, OutputInv, DeviceInv
<1> QED BY <1>1, <1>3 DEF OutputPart

\* and nothing of the input with a step of the output.
LEMMA InputUndisturbed ==
    ASSUME ExecutorInv, InputPart, UNCHANGED input, listed' \in BOOLEAN, Elsewhere(Captures)
    PROVE  InputPart'
<1> USE DEF input, input_node, buffers
<1>1. InputTypes'
  BY DEF InputPart, InputTypes
<1>2. ASSUME NEW c \in Captures PROVE (Reserved(c) /\ Alive(c) /\ Tasked(c))'
  <2>1. Reserved(c) /\ Alive(c) /\ Tasked(c)
    BY DEF InputPart, InputInv
  <2>2. /\ Named(tasks', c) <=> Named(tasks, c)
        /\ \A op : HasTask(tasks', op, c) <=> HasTask(tasks, op, c)
        /\ \A op : ComesFirst(tasks, running, op, c) => ComesFirst(tasks', running', op, c)
        /\ Hand(running', c) <=> Hand(running, c)
        /\ Hand(running, c) => running' = running /\ at' = at
    BY Undisturbed DEF ExecutorInv
  <2> QED BY <2>1, <2>2 DEF Reserved, Alive, Tasked, Unused, Starting
<1>3. InputInv'
  BY <1>2 DEF InputPart, InputInv
<1> QED BY <1>1, <1>3 DEF InputPart

-----------------------------------------------------------------------------
(* The input *)

\* What a step of the input does with the executor.
InputsUse ==
    /\ UNCHANGED <<closing, registry>>
    /\ running' = running \/ (running' = None /\ running # None /\ running.object \in Captures)
    /\ at' = at \/ (running # None /\ running.object \in Captures)
    /\ tasks' = tasks \/ \E w \in InputWork : tasks' = Append(tasks, w)

\* The executor and the output do not see more of it.
LEMMA InputAlone ==
    ASSUME IInv, InputsUse, UNCHANGED output
    PROVE  ExecutorInv' /\ OutputPart'
<1>0. ExecutorInv /\ OutputPart
  BY DEF IInv
<1>1. tasks' \in Seq(Work)
  BY <1>0, Constants DEF ExecutorInv, InputsUse
<1>2. ExecutorInv'
  BY <1>0, <1>1 DEF ExecutorInv, InputsUse, output
<1>3. Elsewhere(Playbacks)
  BY Constants, PlaybacksAssumption DEF Elsewhere, InputsUse, Hand
<1> QED BY <1>0, <1>2, <1>3, OutputUndisturbed

\* What it posts is there, unless the executor is closed.
LEMMA PostsOne ==
    ASSUME tasks \in Seq(Work), NEW w \in Work, tasks' = Posted(<<w>>), running' = running
    PROVE  /\ tasks' = IF closing THEN tasks ELSE Append(tasks, w)
           /\ \A c : /\ Named(tasks', c) => Named(tasks, c) \/ w.object = c
                     /\ \A op : HasTask(tasks', op, c) =>
                                    HasTask(tasks, op, c) \/ (w.op = op /\ w.object = c)
                     /\ \A op : /\ ComesFirst(tasks, running, op, c)
                                /\ w.op = op /\ w.object = c =>
                                       ~Named(tasks, c) /\ ~Hand(running, c)
                                => ComesFirst(tasks', running', op, c)
                     /\ ~closing => \A op : HasTask(tasks', op, c) <=>
                                    HasTask(tasks, op, c) \/ (w.op = op /\ w.object = c)
                     /\ \A op : HasTask(tasks, op, c) => HasTask(tasks', op, c)
<1>1. tasks' = IF closing THEN tasks ELSE Append(tasks, w)
  <2>1. tasks \o <<w>> = Append(tasks, w)
    OBVIOUS
  <2> QED BY <2>1 DEF Posted
<1>2. ASSUME NEW c
      PROVE  /\ Named(tasks', c) => Named(tasks, c) \/ w.object = c
             /\ \A op : HasTask(tasks', op, c) =>
                            HasTask(tasks, op, c) \/ (w.op = op /\ w.object = c)
             /\ \A op : /\ ComesFirst(tasks, running, op, c)
                        /\ w.op = op /\ w.object = c =>
                               ~Named(tasks, c) /\ ~Hand(running, c)
                        => ComesFirst(tasks', running', op, c)
             /\ ~closing => \A op : HasTask(tasks', op, c) <=>
                            HasTask(tasks, op, c) \/ (w.op = op /\ w.object = c)
             /\ \A op : HasTask(tasks, op, c) => HasTask(tasks', op, c)
  <2>1. CASE closing
    BY <1>1, <2>1
  <2>2. CASE ~closing
    <3> DEFINE U == Append(tasks, w)
    <3>1. /\ Named(U, c) <=> Named(tasks, c) \/ w.object = c
          /\ \A op : HasTask(U, op, c) <=> HasTask(tasks, op, c) \/ (w.op = op /\ w.object = c)
          /\ \A R, op : /\ ComesFirst(tasks, R, op, c)
                        /\ w.op = op /\ w.object = c => ~Named(tasks, c) /\ ~Hand(R, c)
                        => ComesFirst(U, R, op, c)
      BY Posting, Zenon
    <3>2. tasks' = U
      BY <1>1, <2>2
    <3> HIDE DEF U
    <3> QED BY <3>1, <3>2, <2>2
  <2> QED BY <2>1, <2>2
<1> QED BY <1>1, <1>2

\* A callback_s that nothing refers to is as if it had never been.
Reclaimed(c) ==
    /\ object'[c] = Absent /\ ~Hand(running', c) /\ ~Named(tasks', c)
    /\ capture' # c /\ render' # c /\ device'.callback # c /\ sdk'.object # c

LEMMA InputObjects ==
    ASSUME NEW changed, Objects(changed), NEW c \in Captures
    PROVE  object'[c] = changed[c] \/ Reclaimed(c)
BY DEF Objects, Referred, Reclaimed, Hand, Named

LEMMA ReclaimedObjects ==
    ASSUME NEW c, Reclaimed(c)
    PROVE  /\ object'[c] = Absent /\ object'[c].phase = "none"
           /\ ~Hand(running', c) /\ ~Named(tasks', c) /\ \A op : ~HasTask(tasks', op, c)
           /\ \A op : ComesFirst(tasks', running', op, c)
           /\ c \notin {capture', render', device'.callback, sdk'.object}
BY DEF Reclaimed, Absent, Hand, Named, HasTask, ComesFirst

\* and what they are.
LEMMA InputObjectTypes ==
    ASSUME NEW changed, Objects(changed),
           NEW S, Absent \in S, \A c \in Captures : changed[c] \in S
    PROVE  object' \in [Captures -> S]
BY DEF Objects

LEMMA AbsentIsRecorded == Absent \in Recorded
BY DEF Absent, Recorded, Phases

\* A change of its atomics.
LEMMA FieldsChange ==
    ASSUME NEW r \in Recorded
    PROVE  /\ \A v \in Phases : [r EXCEPT !.phase = v] \in Recorded
           /\ \A v \in BOOLEAN : [r EXCEPT !.stop_requested = v] \in Recorded
           /\ \A v \in Modes \cup {None} : [r EXCEPT !.pending = v] \in Recorded
           /\ \A v \in Modes \cup {None} : [r EXCEPT !.mode = v] \in Recorded
           /\ \A v \in {"stopped", "failed"} : [r EXCEPT !.terminal = v] \in Recorded
BY DEF Recorded

\* A capture fails.
LEMMA FieldsFail ==
    ASSUME NEW r \in Recorded,
           NEW f, f = [r EXCEPT !.stop_requested = TRUE, !.terminal = "failed",
                                !.phase = "release_requested"]
    PROVE  f \in Recorded /\ f.phase # "none" /\ f.stop_requested
BY DEF Recorded, Phases

\* A capture asks for its frames to be released.
LEMMA FieldsPend ==
    ASSUME NEW r \in Recorded, NEW v \in Modes \cup {None},
           NEW f, f = [r EXCEPT !.pending = v, !.phase = "release_requested"]
    PROVE  f \in Recorded /\ f.phase # "none" /\ f.stop_requested = r.stop_requested
BY DEF Recorded, Phases

\* The streams of a capture have started.
LEMMA FieldsRun ==
    ASSUME NEW r \in Recorded, NEW v \in Modes \cup {None},
           NEW f, f = [r EXCEPT !.mode = v, !.phase = "running"]
    PROVE  f \in Recorded /\ f.phase # "none" /\ f.stop_requested = r.stop_requested
BY DEF Recorded, Phases

\* The frames of a capture go for it to be reconfigured.
LEMMA InputReleaseFrames ==
    ASSUME IInv, ReleaseFrames, UNCHANGED <<output, registry>>
    PROVE  IInv'
<1>0. ExecutorInv /\ InputTypes /\ InputInv
  BY DEF IInv, InputPart
<1> DEFINE w == Task("reconfigure input", capture)
<1>1. /\ w \in InputWork /\ w \in Work /\ w.op = "reconfigure input" /\ w.object = capture
      /\ capture \in Captures
  BY <1>0, Constants DEF ReleaseFrames, InputTypes, Task, InputWork, Inputs
<1>2. tasks \in Seq(Work) /\ tasks' = Posted(<<w>>) /\ running' = running
  BY <1>0 DEF ExecutorInv, ReleaseFrames
<1> HIDE DEF w
<1>3. InputsUse
  BY <1>1, <1>2, PostsOne DEF ReleaseFrames, InputsUse
<1>4. InputTypes'
  <2>1. object' \in [Captures -> Recorded]
    <3>1. [object[capture] EXCEPT !.phase = "reconfiguring"] \in Recorded
      BY <1>0, <1>1, FieldsChange DEF InputTypes, Phases
    <3> QED BY <1>0, <1>1, <3>1 DEF ReleaseFrames, InputTypes, Changed
  <2>2. queued' \in [Captures -> 0..QueueBound]
    <3>1. 0 \in 0..QueueBound
      BY Bounds
    <3>2. queued \in [Captures -> 0..QueueBound] /\ queued' = [queued EXCEPT ![capture] = 0]
      BY <1>0 DEF ReleaseFrames, InputTypes
    <3> QED BY <3>1, <3>2
  <2> QED BY <1>0, <2>1, <2>2, ZenonT(60) DEF ReleaseFrames, InputTypes, input_node
<1>5. ASSUME NEW c \in Captures PROVE (Reserved(c) /\ Alive(c) /\ Tasked(c))'
  <2>1. Reserved(c) /\ Alive(c) /\ Tasked(c)
    BY <1>0 DEF InputInv
  <2>2. /\ object'[c].phase = (IF c = capture THEN "reconfiguring" ELSE object[c].phase)
        /\ object'[c].stop_requested = object[c].stop_requested
        /\ IF c = capture THEN object[c].phase = "release_requested" ELSE object'[c] = object[c]
        /\ UNCHANGED <<running, at, capture, render, holder, device, pool, lent, sdk>>
    BY <1>0, ZenonT(60) DEF ReleaseFrames, InputTypes, Changed, Recorded, input_node
  <2>a. queued'[c] = queued[c] \/ queued'[c] = 0
    BY <1>0, <1>1 DEF ReleaseFrames, InputTypes
  <2>3. Reserved(c)'
    BY <2>1, <2>2, <2>a DEF Reserved
  <2>4. Alive(c)'
    BY <1>1, <1>2, <2>1, <2>2, PostsOne DEF Alive, Unused
  <2>5. Tasked(c)'
    BY <1>1, <1>2, <2>1, <2>2, PostsOne DEF Tasked, Starting
  <2> QED BY <2>3, <2>4, <2>5
<1>6. InputInv'
  BY <1>0, <1>5 DEF ReleaseFrames, InputInv
<1> QED BY <1>3, <1>4, <1>6, InputAlone DEF IInv, InputPart

\* A capture that has stopped is dropped.
LEMMA InputDropStopped ==
    ASSUME IInv, DropStopped, UNCHANGED <<output, registry>>
    PROVE  IInv'
<1>0. ExecutorInv /\ InputTypes /\ InputInv
  BY DEF IInv, InputPart
<1>1. /\ UNCHANGED <<tasks, running, at, closing, node, render, holder, listed, device, pool, lent,
                     queued, sdk>>
      /\ capture' = None /\ selection' = Unset /\ Objects(object)
  BY DEF DropStopped, executor, buffers
<1>2. InputsUse
  BY <1>1 DEF InputsUse
<1>3. InputTypes'
  <2>1. object' \in [Captures -> Recorded]
    BY <1>0, <1>1, AbsentIsRecorded, InputObjectTypes DEF InputTypes
  <2> QED BY <1>0, <1>1, <2>1 DEF InputTypes
<1>4. ASSUME NEW c \in Captures PROVE (Reserved(c) /\ Alive(c) /\ Tasked(c))'
  <2>1. Reserved(c) /\ Alive(c) /\ Tasked(c)
    BY <1>0 DEF InputInv
  <2>2. object'[c] = object[c] \/ Reclaimed(c)
    BY <1>1, InputObjects
  <2> QED BY <1>1, <2>1, <2>2, Constants, ReclaimedObjects DEF Reserved, Alive, Tasked, Unused, Starting
<1>5. InputInv'
  BY <1>0, <1>1, <1>4 DEF InputInv
<1> QED BY <1>2, <1>3, <1>5, InputAlone DEF IInv, InputPart

\* A frame of the program begins to let go of a capture.
LEMMA InputStopCapture ==
    ASSUME IInv, NEW alive \in {"alive", "gone"}, StopCapture(Unset, alive),
           UNCHANGED <<output, registry>>
    PROVE  IInv'
<1>0. ExecutorInv /\ InputTypes /\ InputInv
  BY DEF IInv, InputPart
<1>1. /\ UNCHANGED <<tasks, running, at, closing, object, holder, listed, device, pool, lent, sdk>>
      /\ capture # None /\ render' = capture /\ capture' = None /\ selection' = Unset /\ node' = alive
      /\ queued' = [queued EXCEPT ![capture] = 0]
  BY DEF StopCapture, executor
<1>2. InputsUse
  BY <1>1 DEF InputsUse
<1>3. InputTypes'
  <2>1. 0 \in 0..QueueBound
    BY Bounds
  <2> QED BY <1>0, <1>1, <2>1 DEF InputTypes
<1>4. ASSUME NEW c \in Captures PROVE (Reserved(c) /\ Alive(c) /\ Tasked(c))'
  <2>1. Reserved(c) /\ Alive(c) /\ Tasked(c)
    BY <1>0 DEF InputInv
  <2>2. queued'[c] = queued[c] \/ queued'[c] = 0
    BY <1>0, <1>1 DEF InputTypes
  <2>3. c # None
    BY Constants
  <2>4. Reserved(c)'
    BY <1>1, <2>1, <2>2 DEF Reserved
  <2>5. (Alive(c) /\ Tasked(c))'
    BY <1>1, <2>1, <2>3 DEF Alive, Tasked, Unused, Starting
  <2> QED BY <2>4, <2>5
<1>5. InputInv'
  BY <1>0, <1>1, <1>4 DEF InputInv
<1> QED BY <1>2, <1>3, <1>5, InputAlone DEF IInv, InputPart

\* The node is destroyed.
LEMMA InputRemoveNode ==
    ASSUME IInv, RemoveNode, UNCHANGED <<output, registry>>
    PROVE  IInv'
<1>1. CASE StopCapture(Unset, "gone")
  BY <1>1, InputStopCapture
<1>2. CASE /\ capture = None
           /\ node' = "gone" /\ selection' = Unset
           /\ UNCHANGED <<executor, capture, render, object, holder, listed, device, buffers, sdk>>
  <2>0. ExecutorInv /\ InputTypes /\ InputInv
    BY DEF IInv, InputPart
  <2>1. InputsUse
    BY <1>2 DEF InputsUse, executor
  <2>2. InputTypes'
    BY <1>2, <2>0 DEF InputTypes, buffers
  <2>3. InputInv'
    BY <1>2, <2>0 DEF InputInv, Reserved, Alive, Tasked, Unused, Starting, executor, buffers
  <2> QED BY <2>1, <2>2, <2>3, InputAlone DEF IInv, InputPart
<1> QED BY <1>1, <1>2 DEF RemoveNode

\* The capture is asked to stop.
LEMMA InputStopAsync ==
    ASSUME IInv, StopAsync, UNCHANGED <<output, registry>>
    PROVE  IInv'
<1>0. ExecutorInv /\ InputTypes /\ InputInv
  BY DEF IInv, InputPart
<1> DEFINE w == Task("retire input", render)
           posts == object[render].phase \in {"running", "release_requested"}
           r == object[render]
           changed == [object EXCEPT ![render] =
                          [@ EXCEPT !.terminal = "stopped", !.stop_requested = TRUE,
                                    !.phase = IF posts THEN "stopping" ELSE r.phase]]
<1>1. /\ w \in InputWork /\ w \in Work /\ w.op = "retire input" /\ w.object = render
      /\ render \in Captures
  BY <1>0, Constants DEF StopAsync, InputTypes, Task, InputWork, Inputs
<1>2. /\ tasks \in Seq(Work) /\ tasks' = IF posts THEN Posted(<<w>>) ELSE tasks
      /\ UNCHANGED <<running, at, closing, node, selection, capture, holder, listed, device, pool,
                     lent, queued, sdk>>
      /\ render' = None
      /\ Objects(changed)
  BY <1>0 DEF ExecutorInv, StopAsync, buffers
<1>3. /\ changed[render] \in Recorded /\ changed[render].stop_requested
      /\ r.phase # "none" /\ changed[render].phase # "none"
      /\ \A c \in Captures : c # render => changed[c] = object[c]
  <2>1. r \in Recorded /\ r.phase # "none" /\ object \in [Captures -> Recorded]
    BY <1>0, <1>1 DEF InputTypes, InputInv, Alive
  <2>2. \A c \in Captures : c # render => changed[c] = object[c]
    BY <2>1
  <2> HIDE DEF posts
  <2>3. /\ changed[render] \in Recorded /\ changed[render].stop_requested
        /\ changed[render].phase \in {r.phase, "stopping"}
    BY <1>1, <2>1 DEF Recorded, Phases
  <2> QED BY <2>1, <2>2, <2>3
<1>4. /\ tasks' = tasks \/ tasks' = Append(tasks, w)
      /\ \A c : /\ Named(tasks', c) => Named(tasks, c) \/ render = c
                /\ \A op : HasTask(tasks', op, c) =>
                               HasTask(tasks, op, c) \/ ("retire input" = op /\ render = c)
                /\ ComesFirst(tasks, running, "start input", c) =>
                      ComesFirst(tasks', running', "start input", c)
  BY <1>1, <1>2, PostsOne
<1>5. InputsUse
  BY <1>1, <1>2, <1>4 DEF InputsUse
<1>6. InputTypes'
  <2>1. \A c \in Captures : changed[c] \in Recorded
    BY <1>0, <1>3 DEF InputTypes
  <2>2. object' \in [Captures -> Recorded]
    BY <1>2, <2>1, AbsentIsRecorded, InputObjectTypes
  <2> QED BY <1>0, <1>2, <2>2, ZenonT(60) DEF InputTypes
<1>7. ASSUME NEW c \in Captures PROVE (Reserved(c) /\ Alive(c) /\ Tasked(c))'
  <2>1. Reserved(c) /\ Alive(c) /\ Tasked(c) /\ c # None
    BY <1>0, Constants DEF InputInv
  <2>2. object'[c] = changed[c] \/ Reclaimed(c)
    BY <1>2, InputObjects
  <2>3. CASE Reclaimed(c)
    BY <1>2, <1>4, <2>1, <2>3, ReclaimedObjects DEF Reserved, Alive, Tasked, Unused, Starting
  <2>4. CASE object'[c] = changed[c]
    BY <1>2, <1>3, <1>4, <2>1, <2>4 DEF Reserved, Alive, Tasked, Unused, Starting
  <2> QED BY <2>2, <2>3, <2>4
<1>8. InputInv'
  BY <1>0, <1>2, <1>7 DEF InputInv
<1> QED BY <1>5, <1>6, <1>8, InputAlone DEF IInv, InputPart

\* A selection is committed, with a new capture or without.
LEMMA InputStart ==
    ASSUME IInv, NEW chosen \in Options, Start(chosen), UNCHANGED <<output, registry>>
    PROVE  IInv'
<1>0. ExecutorInv /\ InputTypes /\ InputInv
  BY DEF IInv, InputPart
<1>1. CASE chosen = "disabled" /\ selection' = chosen /\ UNCHANGED <<executor, capture, object, holder>>
  <2>1. UNCHANGED <<tasks, running, at, closing, node, capture, render, object, holder, listed, device,
                    pool, lent, queued, sdk>>
    BY <1>1 DEF Start, executor, buffers
  <2>2. InputsUse
    BY <2>1 DEF InputsUse
  <2>3. InputTypes'
    BY <1>0, <1>1, <2>1 DEF InputTypes
  <2>4. InputInv'
    BY <1>0, <2>1 DEF InputInv, Reserved, Alive, Tasked, Unused, Starting
  <2> QED BY <2>2, <2>3, <2>4, InputAlone DEF IInv, InputPart
<1>2. ASSUME NEW c \in Captures,
             holder = None, object[c].phase = "none",
             capture' = c, holder' = c, selection' = chosen,
             tasks' = Posted(<<Task("start input", c)>>),
             object' = [object EXCEPT ![c] = [Absent EXCEPT !.phase = "starting"]],
             UNCHANGED <<running, at, closing>>
      PROVE  IInv'
  <2> DEFINE w == Task("start input", c)
             o == [Absent EXCEPT !.phase = "starting"]
  <2>1. w \in InputWork /\ w \in Work /\ w.op = "start input" /\ w.object = c
    BY Constants DEF Task, InputWork, Inputs
  <2>2. UNCHANGED <<node, render, listed, device, pool, lent, queued, sdk>>
    BY DEF Start, buffers
  <2>3. o \in Recorded /\ o.phase = "starting"
    BY DEF Absent, Recorded, Phases
  <2>4. tasks \in Seq(Work) /\ tasks' = Posted(<<w>>) /\ object' = [object EXCEPT ![c] = o]
    BY <1>0, <1>2 DEF ExecutorInv
  <2> HIDE DEF w, o
  <2>5. InputsUse
    BY <1>2, <2>1, <2>4, PostsOne DEF InputsUse
  <2>6. InputTypes'
    <3>1. object' \in [Captures -> Recorded]
      BY <1>0, <2>3, <2>4 DEF InputTypes
    <3> QED BY <1>0, <1>2, <2>2, <3>1 DEF InputTypes
  <2>7. ASSUME NEW d \in Captures PROVE (Reserved(d) /\ Alive(d) /\ Tasked(d))'
    <3>1. Reserved(d) /\ Alive(d) /\ Tasked(d) /\ Alive(c) /\ d # None
      BY <1>0, Constants DEF InputInv
    <3>2. /\ Unused(c) /\ c \notin {capture, render, device.callback, sdk.object}
          /\ object'[d] = IF d = c THEN o ELSE object[d]
      BY <1>0, <1>2, <2>4, <3>1 DEF Alive, InputTypes
    <3>3. /\ Named(tasks', d) => Named(tasks, d) \/ c = d
          /\ HasTask(tasks', "retire input", d) => HasTask(tasks, "retire input", d)
          /\ HasTask(tasks', "start input", d) => HasTask(tasks, "start input", d) \/ c = d
          /\ ComesFirst(tasks', running', "start input", d)
      BY <1>2, <2>1, <2>4, <3>1, <3>2, PostsOne DEF Unused, Tasked
    <3>4. Reserved(d)'
      BY <1>2, <2>2, <2>3, <3>1, <3>2 DEF Reserved
    <3>5. Alive(d)'
      BY <1>2, <2>2, <2>3, <3>1, <3>2, <3>3 DEF Alive, Unused
    <3>6. ~HasTask(tasks, "retire input", c) /\ ~Hand(running, c)
      BY <3>2 DEF Unused, Named, HasTask
    <3>7. ASSUME d = c PROVE Tasked(d)'
      <4>1. ~Hand(running', d)
        BY <1>2, <3>6, <3>7
      <4>2. ~HasTask(tasks', "retire input", d)
        BY <3>3, <3>6, <3>7
      <4> QED BY <1>2, <3>3, <3>7, <4>1, <4>2 DEF Tasked, Starting
    <3>8. ASSUME d # c PROVE Tasked(d)'
      BY <1>2, <2>2, <3>1, <3>2, <3>3, <3>8 DEF Tasked, Starting
    <3> QED BY <3>4, <3>5, <3>7, <3>8
  <2>8. InputInv'
    BY <1>0, <1>2, <2>2, <2>7, Constants DEF InputInv, InputTypes
  <2> QED BY <2>5, <2>6, <2>8, InputAlone DEF IInv, InputPart
<1> QED BY <1>1, <1>2 DEF Start

\* A frame of the program uses frames of the queue.
LEMMA InputUseFrames ==
    ASSUME IInv, UseFrames, UNCHANGED <<output, registry>>
    PROVE  IInv'
<1>0. ExecutorInv /\ InputTypes /\ InputInv
  BY DEF IInv, InputPart
<1>1. UNCHANGED <<tasks, running, at, closing, node, selection, capture, render, object, holder, listed,
                  device, pool, lent, sdk>>
  BY DEF UseFrames, executor, input_node
<1>2. PICK n \in 0..queued[capture] - 1 : queued' = [queued EXCEPT ![capture] = n]
  BY DEF UseFrames
<1>3. capture \in Captures /\ queued[capture] \in 0..QueueBound /\ QueueBound \in Nat
  BY <1>0, Bounds DEF UseFrames, InputTypes
<1>4. n \in 0..QueueBound /\ queued[capture] > 0
  BY <1>2, <1>3
<1>5. InputsUse
  BY <1>1 DEF InputsUse
<1>6. InputTypes'
  <2>1. queued' \in [Captures -> 0..QueueBound]
    BY <1>0, <1>2, <1>4 DEF InputTypes
  <2> QED BY <1>0, <1>1, <2>1 DEF InputTypes
<1>7. ASSUME NEW c \in Captures PROVE (Reserved(c) /\ Alive(c) /\ Tasked(c))'
  <2>1. Reserved(c) /\ Alive(c) /\ Tasked(c)
    BY <1>0 DEF InputInv
  <2>2. queued'[c] > 0 => queued[c] > 0
    BY <1>0, <1>2, <1>4 DEF InputTypes
  <2>3. Reserved(c)'
    BY <1>1, <2>1, <2>2 DEF Reserved
  <2>4. (Alive(c) /\ Tasked(c))'
    BY <1>1, <2>1 DEF Alive, Tasked, Unused, Starting
  <2> QED BY <2>3, <2>4
<1>8. InputInv'
  BY <1>0, <1>1, <1>7 DEF InputInv
<1> QED BY <1>5, <1>6, <1>8, InputAlone DEF IInv, InputPart

\* The render thread.
LEMMA InputNode ==
    ASSUME IInv, Node, UNCHANGED <<output, registry>>
    PROVE  IInv'
<1>1. ASSUME NEW chosen \in Options, LetGo(chosen) PROVE IInv'
  <2>1. StopCapture(Unset, node) /\ node \in {"alive", "gone"}
    BY <1>1 DEF LetGo
  <2> QED BY <2>1, InputStopCapture
<1> QED
  BY <1>1, InputReleaseFrames, InputDropStopped, InputStopAsync, InputStart, InputRemoveNode,
     InputUseFrames DEF Node, Prepare

-----------------------------------------------------------------------------
(* The callbacks of the SDK *)

\* The SDK calls the capture that has the reservation, and a frame has a pool.
LEMMA InputCalled ==
    ASSUME InputTypes, InputInv, Calls
    PROVE  /\ device.callback \in Captures /\ device.callback = device.user
           /\ holder = device.callback /\ pool[device.callback] = "open"
           /\ object[device.callback].phase # "none" /\ sdk = NoCall
<1>1. /\ device.streaming /\ sdk = NoCall /\ device.user \in Captures \cup {None} /\ device.user # None
  BY DEF Calls, InputTypes, InputInv
<1>2. /\ device.callback \in Captures /\ device.callback = device.user
      /\ holder = device.callback /\ pool[device.callback] = "open"
  BY <1>1 DEF InputInv
<1> QED BY <1>1, <1>2 DEF InputInv, Alive

\* A callback begins.
LEMMA InputCallbackBegins ==
    ASSUME IInv, Calls,
           \/ sdk' = [call |-> "frame", object |-> device.callback, mode |-> None]
           \/ \E m \in Modes : sdk' = [call |-> "format", object |-> device.callback, mode |-> m],
           UNCHANGED <<executor, input_node, object, holder, listed, device, buffers>>,
           UNCHANGED <<output, registry>>
    PROVE  IInv'
<1>0. ExecutorInv /\ InputTypes /\ InputInv
  BY DEF IInv, InputPart
<1>1. UNCHANGED <<tasks, running, at, closing, node, selection, capture, render, object, holder, listed,
                  device, pool, lent, queued>>
  BY DEF executor, input_node, buffers
<1>2. /\ device.callback \in Captures /\ device.callback = device.user
      /\ holder = device.callback /\ pool[device.callback] = "open"
      /\ object[device.callback].phase # "none" /\ sdk = NoCall
  BY <1>0, InputCalled
<1>3. /\ sdk' \in [call : {"none", "frame", "format"}, object : Captures \cup {None},
                   mode : Modes \cup {None}]
      /\ sdk'.object = device.callback
  BY <1>2
<1>4. InputsUse
  BY <1>1 DEF InputsUse
<1>5. InputTypes'
  BY <1>0, <1>1, <1>2, <1>3, Constants DEF InputTypes
<1>6. ASSUME NEW c \in Captures PROVE (Reserved(c) /\ Alive(c) /\ Tasked(c))'
  <2>1. Reserved(c) /\ Alive(c) /\ Tasked(c)
    BY <1>0 DEF InputInv
  <2>2. Reserved(c)'
    BY <1>1, <1>2, <1>3, <2>1 DEF Reserved
  <2>3. Alive(c)'
    BY <1>1, <1>2, <1>3, <2>1 DEF Alive, Unused
  <2>4. Tasked(c)'
    BY <1>1, <2>1 DEF Tasked, Starting
  <2> QED BY <2>2, <2>3, <2>4
<1>7. InputInv'
  BY <1>0, <1>1, <1>6 DEF InputInv
<1> QED BY <1>4, <1>5, <1>7, InputAlone DEF IInv, InputPart

\* A callback ends, with a frame in the queue or not, and asks for something or not.
LEMMA InputCallbackEnds ==
    ASSUME IInv, sdk.call # "none", sdk' = NoCall, NEW changed, Objects(changed),
           \A c \in Captures :
              /\ changed[c] \in Recorded
              /\ changed[c] = object[c] \/ (c = sdk.object /\ changed[c].phase # "none")
              /\ object[c].stop_requested => changed[c].stop_requested,
           queued' \in [Captures -> 0..QueueBound],
           \A c \in Captures : queued'[c] = queued[c] \/ pool[c] # "none",
           UNCHANGED <<executor, input_node, holder, listed, device, pool, lent>>,
           UNCHANGED <<output, registry>>
    PROVE  IInv'
<1>0. ExecutorInv /\ InputTypes /\ InputInv
  BY DEF IInv, InputPart
<1>1. UNCHANGED <<tasks, running, at, closing, node, selection, capture, render, holder, listed,
                  device, pool, lent>>
  BY DEF executor, input_node
<1>2. NoCall \in [call : {"none", "frame", "format"}, object : Captures \cup {None},
                  mode : Modes \cup {None}] /\ NoCall.call = "none" /\ NoCall.object = None
  BY DEF NoCall
<1>3. InputsUse
  BY <1>1 DEF InputsUse
<1>4. InputTypes'
  <2>1. object' \in [Captures -> Recorded]
    BY AbsentIsRecorded, InputObjectTypes
  <2> QED BY <1>0, <1>1, <1>2, <2>1 DEF InputTypes
<1>5. ASSUME NEW c \in Captures PROVE (Reserved(c) /\ Alive(c) /\ Tasked(c))'
  <2>1. Reserved(c) /\ Alive(c) /\ Tasked(c) /\ c # None
    BY <1>0, Constants DEF InputInv
  <2>2. object'[c] = changed[c] \/ Reclaimed(c)
    BY InputObjects
  <2>3. CASE Reclaimed(c)
    <3>1. Reserved(c)'
      BY <1>1, <1>2, <2>1, <2>3, ReclaimedObjects DEF Reserved
    <3>2. (Alive(c) /\ Tasked(c))'
      BY <1>1, <1>2, <2>1, <2>3, ReclaimedObjects DEF Alive, Tasked, Unused, Starting
    <3> QED BY <3>1, <3>2
  <2>4. CASE object'[c] = changed[c]
    <3>1. c = sdk.object => object[c].phase # "none"
      BY <2>1 DEF Alive
    <3>2. Reserved(c)'
      BY <1>1, <1>2, <2>1, <2>4, <3>1 DEF Reserved
    <3>3. Alive(c)'
      BY <1>1, <1>2, <2>1, <2>4 DEF Alive, Unused
    <3>4. Tasked(c)'
      BY <1>1, <1>2, <2>1, <2>4 DEF Tasked, Starting
    <3> QED BY <3>2, <3>3, <3>4
  <2> QED BY <2>2, <2>3, <2>4
<1>6. InputInv'
  BY <1>0, <1>1, <1>5 DEF InputInv
<1> QED BY <1>3, <1>4, <1>6, InputAlone DEF IInv, InputPart

\* The callbacks, and the buffers that come back.
LEMMA InputCallback ==
    ASSUME IInv, Callback, UNCHANGED <<output, registry>>
    PROVE  IInv'
<1>0. ExecutorInv /\ InputTypes /\ InputInv
  BY DEF IInv, InputPart
<1>a. /\ object \in [Captures -> Recorded] /\ queued \in [Captures -> 0..QueueBound]
      /\ sdk.call # "none" => sdk.object \in Captures
      /\ sdk.mode \in Modes \cup {None}
  BY <1>0 DEF InputTypes
<1>1. ASSUME FrameArrives PROVE IInv'
  BY <1>1, InputCallbackBegins DEF FrameArrives, Calls
<1>2. ASSUME NEW mode \in Modes, FormatChanges(mode) PROVE IInv'
  BY <1>2, InputCallbackBegins DEF FormatChanges, Calls
<1>3. ASSUME PushFrame PROVE IInv'
  <2>1. sdk.call = "frame" /\ sdk.object \in Captures /\ pool[sdk.object] # "none"
    BY <1>0, <1>a, <1>3 DEF PushFrame, InputInv, Reserved
  <2>2. queued[sdk.object] \in 0..QueueBound /\ QueueBound \in Nat
    BY <1>a, <2>1, Bounds
  <2>3. /\ queued' \in [Captures -> 0..QueueBound]
        /\ \A c \in Captures : queued'[c] = queued[c] \/ pool[c] # "none"
    <3> DEFINE n == IF queued[sdk.object] < QueueBound THEN queued[sdk.object] + 1
                    ELSE queued[sdk.object]
    <3>1. n \in 0..QueueBound
      BY <2>2
    <3>2. queued' = [queued EXCEPT ![sdk.object] = n]
      BY <1>3 DEF PushFrame
    <3> HIDE DEF n
    <3> QED BY <1>a, <2>1, <3>1, <3>2
  <2> QED BY <1>a, <1>3, <2>1, <2>3, InputCallbackEnds DEF PushFrame
<1>4. ASSUME FrameFails PROVE IInv'
  <2> DEFINE o == [object[sdk.object] EXCEPT !.stop_requested = TRUE, !.terminal = "failed",
                                             !.phase = "release_requested"]
             changed == IF object[sdk.object].stop_requested THEN object
                        ELSE [object EXCEPT ![sdk.object] = o]
  <2>1. o \in Recorded /\ o.phase # "none" /\ o.stop_requested
    BY <1>a, <1>4, FieldsFail DEF FrameFails
  <2>2. Objects(changed)
    BY <1>4 DEF FrameFails
  <2> HIDE DEF o
  <2>3. \A c \in Captures :
           /\ changed[c] \in Recorded
           /\ changed[c] = object[c] \/ (c = sdk.object /\ changed[c].phase # "none")
           /\ object[c].stop_requested => changed[c].stop_requested
    BY <1>a, <2>1
  <2> HIDE DEF changed
  <2> QED BY <1>a, <1>4, <2>2, <2>3, InputCallbackEnds DEF FrameFails, buffers
<1>5. ASSUME RequestRelease PROVE IInv'
  <2> DEFINE o == [object[sdk.object] EXCEPT !.pending = sdk.mode, !.phase = "release_requested"]
             changed == [object EXCEPT ![sdk.object] = o]
  <2>1. /\ o \in Recorded /\ o.phase # "none"
        /\ object[sdk.object].stop_requested => o.stop_requested
    BY <1>a, <1>5, FieldsPend DEF RequestRelease
  <2>2. Objects(changed)
    BY <1>5 DEF RequestRelease
  <2> HIDE DEF o
  <2>3. \A c \in Captures :
           /\ changed[c] \in Recorded
           /\ changed[c] = object[c] \/ (c = sdk.object /\ changed[c].phase # "none")
           /\ object[c].stop_requested => changed[c].stop_requested
    BY <1>a, <2>1
  <2> HIDE DEF changed
  <2> QED BY <1>a, <1>5, <2>2, <2>3, InputCallbackEnds DEF RequestRelease, buffers
<1> QED BY <1>1, <1>2, <1>3, <1>4, <1>5 DEF Callback

\* The SDK gives buffers back.
LEMMA InputReturnBuffers ==
    ASSUME IInv, NEW c \in Captures, ReturnBuffers(c), UNCHANGED <<output, registry>>
    PROVE  IInv'
<1>0. ExecutorInv /\ InputTypes /\ InputInv
  BY DEF IInv, InputPart
<1>1. /\ UNCHANGED <<tasks, running, at, closing, node, selection, capture, render, object, holder,
                     listed, device, pool, queued, sdk>>
      /\ lent' = [lent EXCEPT ![c] = FALSE]
  BY DEF ReturnBuffers, executor, input_node
<1>2. InputsUse
  BY <1>1 DEF InputsUse
<1>3. InputTypes'
  BY <1>0, <1>1 DEF InputTypes
<1>4. ASSUME NEW d \in Captures PROVE (Reserved(d) /\ Alive(d) /\ Tasked(d))'
  <2>1. Reserved(d) /\ Alive(d) /\ Tasked(d)
    BY <1>0 DEF InputInv
  <2>2. lent'[d] => lent[d]
    BY <1>0, <1>1 DEF InputTypes
  <2>3. Reserved(d)'
    BY <1>1, <2>1, <2>2 DEF Reserved
  <2>4. (Alive(d) /\ Tasked(d))'
    BY <1>1, <2>1 DEF Alive, Tasked, Unused, Starting
  <2> QED BY <2>3, <2>4
<1>5. InputInv'
  BY <1>0, <1>1, <1>4 DEF InputInv
<1> QED BY <1>2, <1>3, <1>5, InputAlone DEF IInv, InputPart

\* The device comes or goes.
LEMMA DeviceListed ==
    ASSUME IInv, Discover, UNCHANGED <<output, registry>>
    PROVE  IInv'
<1>0. ExecutorInv /\ InputTypes /\ InputInv
  BY DEF IInv, InputPart
<1>1. /\ UNCHANGED <<tasks, running, at, closing, node, selection, capture, render, object, holder,
                     device, pool, lent, queued, sdk>>
      /\ listed' = ~listed
  BY DEF Discover, executor, input_node, buffers
<1>2. InputsUse
  BY <1>1 DEF InputsUse
<1>3. InputTypes'
  BY <1>0, <1>1 DEF InputTypes
<1>4. InputInv'
  BY <1>0, <1>1 DEF InputInv, Reserved, Alive, Tasked, Unused, Starting
<1> QED BY <1>2, <1>3, <1>4, InputAlone DEF IInv, InputPart

-----------------------------------------------------------------------------
(* The tasks of the input *)

\* A task of the input in hand.
LEMMA InputInHand ==
    ASSUME IInv, NEW op, NEW step, InHand(op, step)
    PROVE  /\ running # None /\ running.object \in Captures /\ running.op = op /\ at = step
           /\ Hand(running, running.object)
           /\ \A c : Hand(running, c) => c = running.object
           /\ ~HasTask(tasks, "start input", running.object)
           /\ object[running.object].phase # "none"
           /\ Reserved(running.object) /\ Tasked(running.object)
<1>1. running # None /\ running.object \in Captures /\ running.op = op /\ at = step
  BY DEF InHand
<1>2. /\ Hand(running, running.object) /\ \A c : Hand(running, c) => c = running.object
  BY <1>1 DEF Hand
<1>3. Reserved(running.object) /\ Alive(running.object) /\ Tasked(running.object)
  BY <1>1 DEF IInv, InputPart, InputInv
<1>4. ~HasTask(tasks, "start input", running.object) /\ object[running.object].phase # "none"
  BY <1>2, <1>3 DEF Alive, Unused, Tasked, ComesFirst, HasTask
<1> QED BY <1>1, <1>2, <1>3, <1>4

\* A retirement begins: the SDK is told, and the pool shuts down.
LEMMA InputRetires ==
    ASSUME IInv, running # None, running.object \in Captures,
           NEW changed \in [Captures -> Recorded], NEW final \in {"stopped", "failed"},
           Retire(changed, final),
           changed[running.object].stop_requested,
           \A c \in Captures : c # running.object => changed[c] = object[c],
           UNCHANGED <<output, registry>>
    PROVE  IInv'
<1> DEFINE r == running.object
<1>0. ExecutorInv /\ InputTypes /\ InputInv
  BY DEF IInv, InputPart
<1>1. /\ UNCHANGED <<tasks, running, closing, node, selection, capture, render, holder, listed, lent,
                     queued, sdk>>
      /\ at' = final
      /\ object' = [changed EXCEPT ![r].phase = "stopping"]
      /\ pool' = [pool EXCEPT ![r] = IF @ = "none" THEN @ ELSE "shutting"]
  BY DEF Retire, Reach, PoolShut, input_node
<1>2. device' = IF holder = r THEN [user |-> None, callback |-> None, streaming |-> FALSE]
                ELSE device
  BY DEF Retire, SdkStopped
<1>a. Hand(running, r) /\ (\A c : Hand(running, c) => c = r) /\ r \in Captures /\ r # None
  BY Constants DEF Hand
<1> HIDE DEF r
<1>3. /\ object'[r].stop_requested /\ object'[r].phase = "stopping" /\ object'[r] \in Recorded
      /\ \A c \in Captures : c # r => object'[c] = object[c]
      /\ object' \in [Captures -> Recorded]
  <2>1. /\ changed[r] \in Recorded /\ changed[r].stop_requested
        /\ object'[r] = [changed[r] EXCEPT !.phase = "stopping"]
        /\ \A c \in Captures : c # r => object'[c] = object[c]
    BY <1>1, <1>a DEF r
  <2>2. /\ object'[r].stop_requested /\ object'[r].phase = "stopping" /\ object'[r] \in Recorded
    BY <2>1 DEF Recorded, Phases
  <2>3. object' \in [Captures -> Recorded]
    <3>1. DOMAIN object' = Captures /\ object' = [c \in Captures |-> object'[c]]
      BY <1>1
    <3>2. \A c \in Captures : object'[c] \in Recorded
      BY <1>0, <2>1, <2>2 DEF InputTypes
    <3> QED BY <3>1, <3>2
  <2> QED BY <2>1, <2>2, <2>3
<1>4. /\ pool' \in [Captures -> {"none", "open", "shutting"}]
      /\ \A c \in Captures : (pool'[c] = "none" <=> pool[c] = "none") /\ (c # r => pool'[c] = pool[c])
  BY <1>0, <1>1, <1>a DEF InputTypes
<1>5. /\ device'.user # r /\ device'.callback # r
      /\ device'.user # None => device'.user = device.user
      /\ device'.callback # None => device'.callback = device.callback
      /\ device'.callback = device'.user \/ device'.user = None
      /\ device'.streaming <=> device'.user # None
      /\ device' \in [user : Captures \cup {None}, callback : Captures \cup {None},
                      streaming : BOOLEAN]
  BY <1>0, <1>2, <1>a DEF InputTypes, InputInv
<1>6. InputsUse
  BY <1>1, <1>a DEF InputsUse, r
<1>7. InputTypes'
  BY <1>0, <1>1, <1>3, <1>4, <1>5 DEF InputTypes
<1>8. ASSUME NEW c \in Captures PROVE (Reserved(c) /\ Alive(c) /\ Tasked(c))'
  <2>1. Reserved(c) /\ Alive(c) /\ Tasked(c) /\ c # None
    BY <1>0, Constants DEF InputInv
  <2>2. Reserved(c)'
    BY <1>1, <1>3, <1>4, <2>1 DEF Reserved
  <2>3. Alive(c)'
    BY <1>1, <1>3, <1>5, <2>1 DEF Alive, Unused
  <2>4. Tasked(c)'
    <3>1. final \notin Modes /\ final # "begin" /\ final \notin {"enabled", "checking", "deciding"}
      BY Constants
    <3>2. CASE c = r
      BY <1>1, <1>3, <1>5, <2>1, <3>1, <3>2 DEF Tasked, Starting
    <3>3. CASE c # r
      BY <1>1, <1>a, <1>3, <2>1, <3>3 DEF Tasked, Starting
    <3> QED BY <3>2, <3>3
  <2> QED BY <2>2, <2>3, <2>4
<1>9. InputInv'
  BY <1>0, <1>1, <1>4, <1>5, <1>8 DEF InputInv
<1> QED BY <1>6, <1>7, <1>9, InputAlone DEF IInv, InputPart

\* A retirement ends: the pool is empty, and the reservation goes.
LEMMA InputRetireEnds ==
    ASSUME IInv, RetireEnds, UNCHANGED <<output, registry>>
    PROVE  IInv'
<1> DEFINE r == running.object
<1>0. ExecutorInv /\ InputTypes /\ InputInv
  BY DEF IInv, InputPart
<1>1. PICK final \in {"stopped", "failed"} :
         /\ AnyInHand(final) /\ PoolDrained(r)
         /\ pool' = [pool EXCEPT ![r] = "none"]
         /\ holder' = (IF holder = r THEN None ELSE holder)
         /\ Finish
         /\ UNCHANGED <<input_node, listed, device, lent, queued, sdk>>
         /\ Objects(Changed(r, "phase", final))
  BY DEF RetireEnds
<1>2. PICK op \in Inputs : InHand(op, final)
  BY <1>1 DEF AnyInHand
<1>3. /\ running # None /\ r \in Captures /\ Hand(running, r) /\ (\A c : Hand(running, c) => c = r)
      /\ at = final /\ ~HasTask(tasks, "start input", r) /\ Tasked(r) /\ r # None
  BY <1>2, InputInHand, Constants
<1>4. object[r].stop_requested /\ device.user # r /\ device.callback # r
  BY <1>3 DEF Tasked
<1>5. ~lent[r] /\ queued[r] = 0 /\ ~(sdk.call = "frame" /\ sdk.object = r)
  BY <1>1 DEF PoolDrained
<1>6. /\ UNCHANGED <<tasks, closing, node, selection, capture, render, listed, device, lent, queued,
                     sdk>>
      /\ running' = None
  BY <1>1 DEF Finish, input_node
<1> DEFINE changed == [object EXCEPT ![r].phase = final]
<1>7. Objects(changed)
  BY <1>1 DEF Changed
<1> HIDE DEF r
<1>8. /\ changed[r] \in Recorded /\ changed[r].stop_requested /\ changed[r].phase # "none"
      /\ \A c \in Captures : c # r => changed[c] = object[c]
  <2>1. /\ object \in [Captures -> Recorded] /\ changed[r] = [object[r] EXCEPT !.phase = final]
        /\ \A c \in Captures : c # r => changed[c] = object[c]
    BY <1>0, <1>3 DEF InputTypes
  <2> HIDE DEF changed
  <2>2. object[r] \in Recorded
    BY <1>3, <2>1
  <2> QED BY <1>4, <2>1, <2>2 DEF Recorded, Phases
<1> HIDE DEF changed
<1>9. InputsUse
  BY <1>1, <1>3, <1>6 DEF InputsUse, r
<1>10. InputTypes'
  <2>1. \A c \in Captures : changed[c] \in Recorded
    BY <1>0, <1>8 DEF InputTypes
  <2>2. object' \in [Captures -> Recorded]
    BY <1>7, <2>1, AbsentIsRecorded, InputObjectTypes
  <2> QED BY <1>0, <1>1, <1>6, <2>2 DEF InputTypes
<1>11. ASSUME NEW c \in Captures PROVE (Reserved(c) /\ Alive(c) /\ Tasked(c))'
  <2>1. Reserved(c) /\ Alive(c) /\ Tasked(c) /\ c # None
    BY <1>0, Constants DEF InputInv
  <2>2. object'[c] = changed[c] \/ Reclaimed(c)
    BY <1>7, InputObjects
  <2>3. /\ pool'[c] = (IF c = r THEN "none" ELSE pool[c])
        /\ c # r => (holder = c <=> holder' = c)
    BY <1>0, <1>1, <1>3, <2>1 DEF InputTypes
  <2>4. ~(queued[r] > 0)
    BY <1>5
  <2>5. ~Hand(running', c) /\ ComesFirst(tasks', running', "start input", c)
    BY <1>6, <2>1, Finishing DEF Hand, Tasked
  <2>6. CASE Reclaimed(c)
    <3>1. Reserved(c)'
      BY <1>5, <1>6, <2>1, <2>3, <2>4, <2>6, ReclaimedObjects DEF Reserved
    <3>2. (Alive(c) /\ Tasked(c))'
      BY <2>5, <2>6, ReclaimedObjects DEF Alive, Tasked, Unused, Starting
    <3> QED BY <3>1, <3>2
  <2>7. CASE object'[c] = changed[c]
    <3>1. Reserved(c)'
      BY <1>5, <1>6, <1>8, <2>1, <2>3, <2>4, <2>7 DEF Reserved
    <3>2. Alive(c)'
      BY <1>6, <1>8, <2>1, <2>5, <2>7 DEF Alive, Unused
    <3>3. Tasked(c)'
      BY <1>3, <1>6, <1>8, <2>1, <2>3, <2>5, <2>7 DEF Tasked, Starting
    <3> QED BY <3>1, <3>2, <3>3
  <2> QED BY <2>2, <2>6, <2>7
<1>12. InputInv'
  <2>1. device.callback # None => holder' = device.callback
    BY <1>0, <1>1, <1>4 DEF InputInv
  <2>2. device.user # None => pool'[device.user] = "open"
    BY <1>0, <1>1, <1>4 DEF InputInv, InputTypes
  <2> QED BY <1>0, <1>6, <1>11, <2>1, <2>2 DEF InputInv
<1> QED BY <1>9, <1>10, <1>12, InputAlone DEF IInv, InputPart

\* A task of the capture that has the reservation goes on to another place.
LEMMA InputGoesOn ==
    ASSUME IInv, NEW op, NEW step, InHand(op, step), holder = running.object,
           at' \notin {"begin", "stopped", "failed"}, at' \in Modes => device'.callback = running.object,
           NEW o \in Recorded, object' = [object EXCEPT ![running.object] = o],
           o.phase # "none", o.stop_requested = object[running.object].stop_requested,
           device' \in [user : Captures \cup {None}, callback : Captures \cup {None},
                        streaming : BOOLEAN],
           device'.callback \in {device.callback, running.object},
           device'.streaming <=> device'.user # None,
           device'.user # None => device'.callback = device'.user /\ pool'[device'.user] = "open",
           pool' \in [Captures -> {"none", "open", "shutting"}], lent' \in [Captures -> BOOLEAN],
           pool[running.object] # "none" \/ lent'[running.object] => pool'[running.object] # "none",
           \A c \in Captures : c # running.object => pool'[c] = pool[c] /\ lent'[c] = lent[c],
           UNCHANGED <<tasks, running, closing, input_node, holder, listed, queued, sdk>>,
           UNCHANGED <<output, registry>>
    PROVE  IInv'
<1> DEFINE r == running.object
<1>0. ExecutorInv /\ InputTypes /\ InputInv
  BY DEF IInv, InputPart
<1>1. /\ running # None /\ r \in Captures /\ Hand(running, r) /\ (\A c : Hand(running, c) => c = r)
      /\ ~HasTask(tasks, "start input", r) /\ object[r].phase # "none" /\ Tasked(r)
  BY InputInHand
<1>2. UNCHANGED <<node, selection, capture, render>>
  BY DEF input_node
<1>3. InputsUse
  BY <1>1 DEF InputsUse
<1>4. InputTypes'
  <2>1. object' \in [Captures -> Recorded]
    BY <1>0, <1>1 DEF InputTypes
  <2> QED BY <1>0, <1>2, <2>1 DEF InputTypes
<1>5. ASSUME NEW c \in Captures PROVE (Reserved(c) /\ Alive(c) /\ Tasked(c))'
  <2>1. Reserved(c) /\ Alive(c) /\ Tasked(c) /\ c # None
    BY <1>0, Constants DEF InputInv
  <2>2. object'[c] = IF c = r THEN o ELSE object[c]
    BY <1>0 DEF InputTypes
  <2>3. c # r => holder # c
    OBVIOUS
  <2>4. device.callback \in {None, r}
    BY <1>0 DEF InputInv
  <2> HIDE DEF r
  <2>5. Reserved(c)'
    BY <1>1, <2>1, <2>2, <2>3 DEF Reserved, r
  <2>6. Alive(c)'
    BY <1>1, <1>2, <2>1, <2>2 DEF Alive, Unused, r
  <2>7. ASSUME c = r PROVE Tasked(c)'
    BY <1>1, <2>1, <2>2, <2>7, ZenonT(60) DEF Tasked, Starting, r
  <2>8. ASSUME c # r PROVE Tasked(c)'
    BY <1>1, <2>1, <2>2, <2>8 DEF Tasked, Starting
  <2> QED BY <2>5, <2>6, <2>7, <2>8
<1>6. device'.callback # None => holder' = device'.callback
  BY <1>0 DEF InputInv
<1>7. InputInv'
  BY <1>5, <1>6 DEF InputInv
<1> QED BY <1>3, <1>4, <1>7, InputAlone DEF IInv, InputPart

\* A task of the input ends, with its capture's atomics changed or not.
LEMMA InputFinishes ==
    ASSUME IInv, NEW op, NEW step, InHand(op, step), Finish,
           NEW changed, Objects(changed),
           \A c \in Captures :
              /\ changed[c] \in Recorded
              /\ changed[c] = object[c] \/ (c = running.object /\ changed[c].phase # "none")
              /\ object[c].stop_requested = changed[c].stop_requested,
           UNCHANGED <<input_node, holder, listed, device, buffers, sdk>>,
           UNCHANGED <<output, registry>>
    PROVE  IInv'
<1> DEFINE r == running.object
<1>0. ExecutorInv /\ InputTypes /\ InputInv
  BY DEF IInv, InputPart
<1>1. /\ running # None /\ r \in Captures /\ Hand(running, r) /\ (\A c : Hand(running, c) => c = r)
      /\ ~HasTask(tasks, "start input", r) /\ object[r].phase # "none" /\ Tasked(r)
  BY InputInHand
<1>2. /\ UNCHANGED <<tasks, closing, node, selection, capture, render, holder, listed, device, pool,
                     lent, queued, sdk>>
      /\ running' = None
  BY DEF Finish, input_node, buffers
<1>3. InputsUse
  BY <1>1, <1>2 DEF InputsUse
<1>4. InputTypes'
  <2>1. object' \in [Captures -> Recorded]
    BY AbsentIsRecorded, InputObjectTypes
  <2> QED BY <1>0, <1>2, <2>1 DEF InputTypes
<1> HIDE DEF r
<1>5. ASSUME NEW c \in Captures PROVE (Reserved(c) /\ Alive(c) /\ Tasked(c))'
  <2>1. Reserved(c) /\ Alive(c) /\ Tasked(c)
    BY <1>0, Constants DEF InputInv
  <2>2. ~Hand(running', c) /\ ComesFirst(tasks', running', "start input", c)
    BY <1>2, <2>1, Finishing DEF Hand, Tasked
  <2>3. object'[c] = changed[c] \/ Reclaimed(c)
    BY InputObjects
  <2>4. CASE Reclaimed(c)
    BY <1>2, <2>1, <2>4, ReclaimedObjects DEF Reserved, Alive, Tasked, Unused, Starting
  <2>5. CASE object'[c] = changed[c]
    <3>1. Reserved(c)'
      BY <1>1, <1>2, <2>1, <2>5 DEF Reserved, r
    <3>2. Alive(c)'
      BY <1>2, <2>1, <2>2, <2>5 DEF Alive, Unused
    <3>3. Tasked(c)'
      BY <1>2, <2>1, <2>2, <2>5 DEF Tasked, Starting
    <3> QED BY <3>1, <3>2, <3>3
  <2> QED BY <2>3, <2>4, <2>5
<1>6. InputInv'
  BY <1>0, <1>2, <1>5 DEF InputInv
<1> QED BY <1>3, <1>4, <1>6, InputAlone DEF IInv, InputPart

\* A capture starts: the SDK is told, and lent the buffers of a new pool.
LEMMA InputStartControl ==
    ASSUME IInv, StartControl, UNCHANGED <<output, registry>>
    PROVE  IInv'
<1> DEFINE r == running.object
           failed == [object EXCEPT ![r].stop_requested = TRUE]
<1>0. ExecutorInv /\ InputTypes /\ InputInv
  BY DEF IInv, InputPart
<1>a. InHand("start input", "begin")
  BY DEF StartControl
<1>1. /\ running # None /\ r \in Captures /\ Hand(running, r) /\ running.op = "start input"
      /\ at = "begin" /\ object[r].phase # "none" /\ Tasked(r) /\ Reserved(r)
  BY <1>a, InputInHand
<1>2. /\ object \in [Captures -> Recorded] /\ failed \in [Captures -> Recorded]
      /\ failed[r].stop_requested /\ \A c \in Captures : c # r => failed[c] = object[c]
  <2>1. object \in [Captures -> Recorded] /\ [object[r] EXCEPT !.stop_requested = TRUE] \in Recorded
    BY <1>0, <1>1, FieldsChange DEF InputTypes
  <2> QED BY <1>1, <2>1 DEF Recorded
<1>3. CASE object[r].stop_requested /\ Retire(object, "stopped")
  BY <1>1, <1>2, <1>3, InputRetires
<1>4. CASE Retire(failed, "failed")
  <2> HIDE DEF failed
  <2> QED BY <1>1, <1>2, <1>4, InputRetires
<1>5. CASE /\ ~object[r].stop_requested
           /\ device' = [user |-> r, callback |-> r, streaming |-> TRUE]
           /\ pool' = [pool EXCEPT ![r] = "open"]
           /\ lent' = [lent EXCEPT ![r] = TRUE]
           /\ Reach("enabled")
           /\ UNCHANGED <<input_node, object, holder, listed, queued, sdk>>
  <2>1. holder = r
    BY <1>1 DEF Tasked, Starting
  <2>2. at' = "enabled" /\ at' \notin Modes /\ UNCHANGED <<tasks, running, closing>>
    BY <1>5, Constants DEF Reach
  <2>3. /\ device' \in [user : Captures \cup {None}, callback : Captures \cup {None},
                        streaming : BOOLEAN]
        /\ device'.callback = r /\ device'.user = r /\ device'.streaming = TRUE /\ r # None
    BY <1>1, <1>5, Constants
  <2>4. /\ pool' \in [Captures -> {"none", "open", "shutting"}] /\ lent' \in [Captures -> BOOLEAN]
        /\ pool'[r] = "open"
        /\ \A c \in Captures : c # r => pool'[c] = pool[c] /\ lent'[c] = lent[c]
    BY <1>0, <1>1, <1>5 DEF InputTypes
  <2>5. object[r] \in Recorded /\ object' = [object EXCEPT ![r] = object[r]]
    BY <1>1, <1>2, <1>5
  <2>6. pool[r] # "none" \/ lent'[r] => pool'[r] # "none"
    BY <2>4
  <2> QED BY <1>1, <1>5, <1>a, <2>1, <2>2, <2>3, <2>4, <2>5, <2>6, InputGoesOn
<1> QED BY <1>3, <1>4, <1>5 DEF StartControl, Object, Changed

\* The streams have started.
LEMMA InputEnabled ==
    ASSUME IInv, NEW op, NEW step \in {"enabled"} \cup Modes, InHand(op, step),
           NEW mode \in Modes, Enabled(mode), UNCHANGED <<output, registry>>
    PROVE  IInv'
<1> DEFINE r == running.object
           o == [object[r] EXCEPT !.mode = mode, !.phase = "running"]
<1>0. ExecutorInv /\ InputTypes /\ InputInv
  BY DEF IInv, InputPart
<1>1. /\ running # None /\ r \in Captures /\ Hand(running, r) /\ at = step /\ Tasked(r) /\ Reserved(r)
  BY InputInHand
<1>2. holder = r
  BY <1>1 DEF Tasked
<1>3. o \in Recorded /\ o.phase # "none" /\ o.stop_requested = object[r].stop_requested
  <2>1. object[r] \in Recorded
    BY <1>0, <1>1 DEF InputTypes
  <2> QED BY <2>1, FieldsRun
<1>4. /\ object' = [object EXCEPT ![r] = o]
      /\ at' = "checking" /\ at' \notin Modes
      /\ UNCHANGED <<tasks, running, closing, input_node, holder, listed, device, pool, lent, queued,
                     sdk>>
  BY Constants DEF Enabled, Reach, buffers
<1>5. /\ device \in [user : Captures \cup {None}, callback : Captures \cup {None},
                     streaming : BOOLEAN]
      /\ device.streaming <=> device.user # None
      /\ device.user # None => device.callback = device.user /\ pool[device.user] = "open"
      /\ pool \in [Captures -> {"none", "open", "shutting"}] /\ lent \in [Captures -> BOOLEAN]
      /\ pool[r] # "none" \/ lent[r] => pool[r] # "none"
  BY <1>0, <1>1 DEF InputTypes, InputInv, Reserved
<1> HIDE DEF o
<1> QED BY <1>2, <1>3, <1>4, <1>5, InputGoesOn

\* Whether it is to stop is looked at once more.
LEMMA InputCheckStop ==
    ASSUME IInv, CheckStop, UNCHANGED <<output, registry>>
    PROVE  IInv'
<1> DEFINE r == running.object
<1>0. object \in [Captures -> Recorded]
  BY DEF IInv, InputPart, InputTypes
<1>1. PICK op \in Inputs : InHand(op, "checking")
  BY DEF CheckStop, AnyInHand
<1>2. running # None /\ r \in Captures
  BY <1>1, InputInHand
<1>3. CASE object[r].stop_requested
  <2>1. \A c \in Captures : object[c].terminal \in {"stopped", "failed"}
    BY <1>0 DEF Recorded
  <2> QED BY <1>0, <1>2, <1>3, <2>1, InputRetires DEF CheckStop, Object
<1>4. CASE ~object[r].stop_requested
  BY <1>0, <1>1, <1>4, InputFinishes DEF CheckStop, Object
<1> QED BY <1>3, <1>4

\* A capture is reconfigured: it may be to stop,
LEMMA InputReconfigureControl ==
    ASSUME IInv, ReconfigureControl, UNCHANGED <<output, registry>>
    PROVE  IInv'
<1> DEFINE r == running.object
<1>0. ExecutorInv /\ InputTypes /\ InputInv
  BY DEF IInv, InputPart
<1>a. InHand("reconfigure input", "begin") /\ object \in [Captures -> Recorded]
  BY <1>0 DEF ReconfigureControl, InputTypes
<1>1. running # None /\ r \in Captures /\ object[r].phase # "none" /\ Reserved(r)
  BY <1>a, InputInHand
<1>2. CASE object[r].stop_requested
  <2>1. \A c \in Captures : object[c].terminal \in {"stopped", "failed"}
    BY <1>a DEF Recorded
  <2> QED BY <1>a, <1>1, <1>2, <2>1, InputRetires DEF ReconfigureControl, Object
<1>3. CASE ~object[r].stop_requested
  <2>1. holder = r
    BY <1>1, <1>3 DEF Reserved
  <2>2. /\ at' = "deciding" /\ at' \notin Modes /\ UNCHANGED <<tasks, running, closing>>
        /\ UNCHANGED <<input_node, object, holder, listed, device, pool, lent, queued, sdk>>
    BY <1>3, Constants DEF ReconfigureControl, Object, Reach, input_vars, buffers
  <2>3. object[r] \in Recorded /\ object' = [object EXCEPT ![r] = object[r]]
    BY <1>1, <1>a, <2>2
  <2>4. /\ device \in [user : Captures \cup {None}, callback : Captures \cup {None},
                       streaming : BOOLEAN]
        /\ device.streaming <=> device.user # None
        /\ device.user # None => device.callback = device.user /\ pool[device.user] = "open"
        /\ pool \in [Captures -> {"none", "open", "shutting"}] /\ lent \in [Captures -> BOOLEAN]
        /\ pool[r] # "none" \/ lent[r] => pool[r] # "none"
    BY <1>0, <1>1 DEF InputTypes, InputInv, Reserved
  <2> QED BY <1>1, <1>a, <2>1, <2>2, <2>3, <2>4, InputGoesOn
<1> QED BY <1>2, <1>3

\* or there is no other mode than it has, or its streams are stopped for another.
LEMMA InputReconfigure ==
    ASSUME IInv, Reconfigure, UNCHANGED <<output, registry>>
    PROVE  IInv'
<1> DEFINE r == running.object
           taken == [object EXCEPT ![r].pending = None]
           o == [object[r] EXCEPT !.pending = None]
<1>0. ExecutorInv /\ InputTypes /\ InputInv
  BY DEF IInv, InputPart
<1>a. InHand("reconfigure input", "deciding")
  BY DEF Reconfigure
<1>1. /\ running # None /\ r \in Captures /\ at = "deciding" /\ Hand(running, r) /\ Tasked(r)
      /\ Reserved(r) /\ r # None
  BY <1>a, InputInHand, Constants
<1>2. holder = r
  BY <1>1 DEF Tasked
<1>3. /\ object \in [Captures -> Recorded] /\ object[r] \in Recorded /\ o \in Recorded
      /\ o.stop_requested = object[r].stop_requested
      /\ taken = [object EXCEPT ![r] = o]
  <2>1. object \in [Captures -> Recorded] /\ object[r] \in Recorded
    BY <1>0, <1>1 DEF InputTypes
  <2>2. o \in Recorded /\ o.stop_requested = object[r].stop_requested
    BY <2>1 DEF Recorded
  <2> QED BY <1>1, <2>1, <2>2
<1>4. \A v \in {"running", "reconfiguring"} :
         /\ [o EXCEPT !.phase = v] \in Recorded /\ [o EXCEPT !.phase = v].phase # "none"
         /\ [o EXCEPT !.phase = v].stop_requested = object[r].stop_requested
         /\ [taken EXCEPT ![r].phase = v] = [object EXCEPT ![r] = [o EXCEPT !.phase = v]]
  <2> HIDE DEF o
  <2>1. \A v \in {"running", "reconfiguring"} :
         /\ [o EXCEPT !.phase = v] \in Recorded /\ [o EXCEPT !.phase = v].phase # "none"
         /\ [o EXCEPT !.phase = v].stop_requested = object[r].stop_requested
    BY <1>3 DEF Recorded, Phases
  <2> HIDE DEF taken
  <2>2. \A v \in {"running", "reconfiguring"} :
         [taken EXCEPT ![r].phase = v] = [object EXCEPT ![r] = [o EXCEPT !.phase = v]]
    BY <1>1, <1>3
  <2> QED BY <2>1, <2>2
<1>5. CASE /\ Object.pending \in {None, Object.mode}
           /\ Finish
           /\ UNCHANGED <<input_node, holder, listed, device, buffers, sdk>>
           /\ Objects([taken EXCEPT ![r].phase = "running"])
  <2> DEFINE changed == [taken EXCEPT ![r].phase = "running"]
  <2>1. \A c \in Captures :
           /\ changed[c] \in Recorded
           /\ changed[c] = object[c] \/ (c = r /\ changed[c].phase # "none")
           /\ object[c].stop_requested = changed[c].stop_requested
    <3> DEFINE p == [o EXCEPT !.phase = "running"]
    <3>1. /\ changed = [object EXCEPT ![r] = p] /\ p \in Recorded /\ p.phase # "none"
          /\ p.stop_requested = object[r].stop_requested
      BY <1>4
    <3> HIDE DEF changed, p
    <3> QED BY <1>1, <1>3, <3>1
  <2>2. Objects(changed)
    BY <1>5
  <2> HIDE DEF changed, taken
  <2> QED BY <1>a, <1>5, <2>1, <2>2, InputFinishes
<1>6. CASE /\ Object.pending \notin {None, Object.mode}
           /\ object' = [taken EXCEPT ![r].phase = "reconfiguring"]
           /\ SdkStopped(r) /\ PoolShut
           /\ Reach(Object.pending)
           /\ UNCHANGED <<input_node, holder, listed, lent, queued, sdk>>
  <2> DEFINE p == [o EXCEPT !.phase = "reconfiguring"]
  <2>1. /\ p \in Recorded /\ p.phase # "none" /\ p.stop_requested = object[r].stop_requested
        /\ object' = [object EXCEPT ![r] = p]
    BY <1>4, <1>6
  <2> HIDE DEF p, o, taken
  <2>2. /\ at' \in Modes /\ at' \notin {"begin", "stopped", "failed"}
        /\ UNCHANGED <<tasks, running, closing>>
    BY <1>3, <1>6, Constants DEF Recorded, Reach, Object
  <2>3. /\ device' \in [user : Captures \cup {None}, callback : Captures \cup {None},
                        streaming : BOOLEAN]
        /\ device'.callback = r /\ device'.user = None /\ device'.streaming = FALSE
    BY <1>1, <1>6 DEF SdkStopped
  <2>4. /\ pool' \in [Captures -> {"none", "open", "shutting"}] /\ lent' \in [Captures -> BOOLEAN]
        /\ pool[r] # "none" => pool'[r] # "none"
        /\ \A c \in Captures : c # r => pool'[c] = pool[c] /\ lent'[c] = lent[c]
    BY <1>0, <1>1, <1>6 DEF InputTypes, PoolShut
  <2>5. pool[r] # "none" \/ lent'[r] => pool'[r] # "none"
    BY <1>1, <1>6, <2>4 DEF Reserved
  <2> QED BY <1>2, <1>6, <1>a, <2>1, <2>2, <2>3, <2>4, <2>5, InputGoesOn
<1> QED BY <1>a, <1>5, <1>6 DEF Reconfigure, Changed

\* The streams start again with a new pool.
LEMMA InputReenable ==
    ASSUME IInv, Reenable, UNCHANGED <<output, registry>>
    PROVE  IInv'
<1> DEFINE r == running.object
<1>0. ExecutorInv /\ InputTypes /\ InputInv
  BY DEF IInv, InputPart
<1>1. PICK mode \in Modes :
         /\ InHand("reconfigure input", mode) /\ pool[r] = "shutting"
         /\ pool' = [pool EXCEPT ![r] = "open"]
         /\ lent' = [lent EXCEPT ![r] = TRUE]
         /\ device' = [device EXCEPT !.user = r, !.streaming = TRUE]
         /\ Reach(mode)
         /\ UNCHANGED <<input_node, object, holder, listed, queued, sdk>>
  BY DEF Reenable
<1>2. /\ running # None /\ r \in Captures /\ at = mode /\ Hand(running, r) /\ Tasked(r)
      /\ object[r].phase # "none" /\ r # None
  BY <1>1, InputInHand, Constants
<1>3. holder = r /\ device.callback = r
  BY <1>2 DEF Tasked
<1>4. object[r] \in Recorded /\ object' = [object EXCEPT ![r] = object[r]]
  BY <1>0, <1>1, <1>2 DEF InputTypes
<1>5. /\ at' \in Modes /\ at' \notin {"begin", "stopped", "failed"}
      /\ UNCHANGED <<tasks, running, closing>>
  BY <1>1, Constants DEF Reach
<1>6. /\ device' \in [user : Captures \cup {None}, callback : Captures \cup {None},
                      streaming : BOOLEAN]
      /\ device'.callback = r /\ device'.user = r /\ device'.streaming = TRUE
  <2>1. device \in [user : Captures \cup {None}, callback : Captures \cup {None}, streaming : BOOLEAN]
    BY <1>0 DEF InputTypes
  <2> QED BY <1>1, <1>2, <1>3, <2>1
<1>7. /\ pool' \in [Captures -> {"none", "open", "shutting"}] /\ lent' \in [Captures -> BOOLEAN]
      /\ pool'[r] = "open"
      /\ \A c \in Captures : c # r => pool'[c] = pool[c] /\ lent'[c] = lent[c]
  BY <1>0, <1>1, <1>2 DEF InputTypes
<1>8. pool[r] # "none" \/ lent'[r] => pool'[r] # "none"
  BY <1>7
<1> QED BY <1>1, <1>2, <1>3, <1>4, <1>5, <1>6, <1>7, <1>8, InputGoesOn

\* The tasks of the input.
LEMMA InputControl ==
    ASSUME IInv, Control, UNCHANGED <<output, registry>>
    PROVE  IInv'
<1> DEFINE r == running.object
           failed == [object EXCEPT ![r].stop_requested = TRUE]
<1>0. object \in [Captures -> Recorded]
  BY DEF IInv, InputPart, InputTypes
<1>1. ASSUME StartEnabled PROVE IInv'
  BY <1>1, InputAssumption, InputEnabled DEF StartEnabled
<1>2. ASSUME Reenabled PROVE IInv'
  <2>1. PICK mode \in Modes : InHand("reconfigure input", mode) /\ Enabled(mode)
    BY <1>2 DEF Reenabled
  <2> QED BY <2>1, InputEnabled
<1>3. ASSUME ReenableFails PROVE IInv'
  <2>1. PICK mode \in Modes : InHand("reconfigure input", mode)
    BY <1>3 DEF ReenableFails
  <2>2. running # None /\ r \in Captures
    BY <2>1, InputInHand
  <2>3. /\ failed \in [Captures -> Recorded]
        /\ failed[r].stop_requested /\ \A c \in Captures : c # r => failed[c] = object[c]
    <3>1. [object[r] EXCEPT !.stop_requested = TRUE] \in Recorded
      BY <1>0, <2>2, FieldsChange
    <3> QED BY <1>0, <2>2, <3>1 DEF Recorded
  <2>4. Retire(failed, "failed")
    BY <1>3 DEF ReenableFails, Changed
  <2> HIDE DEF failed
  <2> QED BY <2>2, <2>3, <2>4, InputRetires
<1>4. ASSUME RetireControl PROVE IInv'
  <2>1. InHand("retire input", "begin") /\ Retire(object, "stopped")
    BY <1>4 DEF RetireControl
  <2>2. running # None /\ r \in Captures /\ Hand(running, r) /\ running.op = "retire input" /\ Tasked(r)
    BY <2>1, InputInHand
  <2>3. object[r].stop_requested
    BY <2>2 DEF Tasked
  <2> QED BY <1>0, <2>1, <2>2, <2>3, InputRetires
<1> QED
  BY <1>1, <1>2, <1>3, <1>4, InputStartControl, InputCheckStop, InputReconfigureControl,
     InputReconfigure, InputReenable, InputRetireEnds DEF Control

-----------------------------------------------------------------------------
(* The output *)

\* What a step of playback c does with the executor.
OutputUses(c) ==
    /\ UNCHANGED <<closing, registry>>
    /\ running' = running \/ (running' = None /\ Hand(running, c))
    /\ at' = at \/ Hand(running, c)
    /\ tasks' = tasks \/ \E w \in OutputWork : w.object = c /\ tasks' = Append(tasks, w)

\* Nothing refers to it any more.
Dropped(p) ==
    /\ output_object'[p] = Output!Absent /\ ~Hand(running', p) /\ ~Named(tasks', p)
    /\ playback' # p /\ output_device'.callback # p /\ output_sdk' # p

\* How the others look after a step.
Same(p) ==
    /\ output_object'[p] = output_object[p] \/ Dropped(p)
    /\ path'[p] = path[p] /\ frames'[p] = frames[p]
    /\ output_holder' = p <=> output_holder = p
    /\ playback' = p <=> playback = p
    /\ output_sdk' = p => output_sdk = p
    /\ output_device'.callback = p => output_device.callback = p
    /\ output_device'.user = p <=> output_device.user = p
    /\ output_device'.user = p => output_device'.keyer = output_device.keyer

LEMMA OutputObjects ==
    ASSUME NEW changed, Output!Objects(changed), NEW p \in Playbacks
    PROVE  output_object'[p] = changed[p] \/ Dropped(p)
BY DEF Output!Objects, Output!Referred, Dropped, Hand, Named

LEMMA DroppedObjects ==
    ASSUME NEW p, Dropped(p)
    PROVE  /\ output_object'[p] = Output!Absent /\ output_object'[p].phase = "none"
           /\ ~output_object'[p].stop_requested
           /\ ~Hand(running', p) /\ ~Named(tasks', p) /\ \A op : ~HasTask(tasks', op, p)
           /\ \A op : ComesFirst(tasks', running', op, p)
           /\ p \notin {playback', output_device'.callback, output_sdk'}
BY DEF Dropped, Output!Absent, Hand, Named, HasTask, ComesFirst

LEMMA OutputObjectTypes ==
    ASSUME NEW changed, Output!Objects(changed),
           NEW S, Output!Absent \in S, \A p \in Playbacks : changed[p] \in S
    PROVE  output_object' \in [Playbacks -> S]
BY DEF Output!Objects

LEMMA AbsentIsNoted == Output!Absent \in Noted
BY DEF Output!Absent, Noted, Output!Phases

\* Whoever holds the reservation has been started, and if it goes a task or the node
\* still refers to it.
LEMMA HolderIsKept ==
    ASSUME NEW p \in Playbacks, output_holder = p, Booked(p), Kept(p)
    PROVE  output_object[p].phase # "none"
BY DEF Booked, Kept, Retiring, Unused, HasTask, Named

\* A step of c leaves the others as they were.
LEMMA OthersUndisturbed ==
    ASSUME IInv, NEW c, OutputUses(c), NEW p \in Playbacks, p # c, Same(p)
    PROVE  PlaybackInv(p)'
<1>0. tasks \in Seq(Work) /\ Booked(p) /\ Kept(p) /\ Filled(p) /\ Ordered(p) /\ p # None
  BY Constants DEF IInv, ExecutorInv, OutputPart, OutputInv, PlaybackInv
<1>1. Elsewhere({p})
  BY Constants DEF OutputUses, Elsewhere, Hand
<1>2. /\ Named(tasks', p) <=> Named(tasks, p)
      /\ \A op : HasTask(tasks', op, p) <=> HasTask(tasks, op, p)
      /\ \A op : ComesFirst(tasks, running, op, p) => ComesFirst(tasks', running', op, p)
      /\ Hand(running', p) <=> Hand(running, p)
      /\ Hand(running, p) => running' = running /\ at' = at
  BY <1>0, <1>1, Undisturbed
<1>3. CASE output_object'[p] = output_object[p]
  <2>1. Booked(p)'
    BY <1>0, <1>2, <1>3 DEF Same, Booked, Retiring
  <2>2. Kept(p)'
    BY <1>0, <1>2, <1>3 DEF Same, Kept, Unused
  <2>3. Filled(p)'
    BY <1>0, <1>2, <1>3 DEF Same, Filled
  <2>4. Ordered(p)'
    BY <1>0, <1>2, <1>3 DEF Same, Ordered, Starting
  <2> QED BY <2>1, <2>2, <2>3, <2>4 DEF PlaybackInv
<1>4. CASE Dropped(p)
  <2>1. output_holder # p
    <3>1. ~Retiring(p) /\ playback # p
      BY <1>2, <1>4, DroppedObjects DEF Retiring, Same
    <3> QED BY <1>0, <3>1 DEF Booked
  <2>2. Booked(p)'
    BY <1>0, <1>4, <2>1, DroppedObjects DEF Same, Booked
  <2>3. Kept(p)' /\ Filled(p)' /\ Ordered(p)'
    BY <1>0, <1>4, <2>1, DroppedObjects DEF Same, Kept, Filled, Ordered, Unused, Starting
  <2> QED BY <2>2, <2>3 DEF PlaybackInv
<1> QED BY <1>3, <1>4 DEF Same

\* What is left to show of a step of c.
LEMMA OutputAlone ==
    ASSUME IInv, NEW c \in Playbacks \cup {None}, OutputUses(c), UNCHANGED <<input, listed>>,
           output_node = "gone" => output_node' = "gone",
           output_holder' \in {output_holder, None} \/ output_node = "alive",
           OutputTypes', DeviceInv',
           \A p \in Playbacks : p # c => Same(p),
           c \in Playbacks => PlaybackInv(c)'
    PROVE  IInv'
<1>0. ExecutorInv /\ InputPart /\ OutputTypes
  BY DEF IInv, OutputPart
<1>1. tasks' \in Seq(Work)
  BY <1>0, Constants DEF ExecutorInv, OutputUses
<1>2. ExecutorInv'
  BY <1>0, <1>1 DEF ExecutorInv, OutputUses, OutputTypes
<1>3. Elsewhere(Captures)
  <2>1. \A d \in Captures : d # c /\ (Hand(running, c) => ~Hand(running, d))
    BY Constants, PlaybacksAssumption DEF Hand
  <2>2. \A d \in Captures : Hand(running', d) => Hand(running, d)
    BY DEF OutputUses, Hand
  <2>3. tasks' = tasks \/ \E w \in Work : w.object \notin Captures /\ tasks' = Append(tasks, w)
    BY Constants DEF OutputUses
  <2> QED BY <2>1, <2>2, <2>3 DEF Elsewhere, OutputUses
<1>4. InputPart'
  BY <1>0, <1>3, InputUndisturbed DEF InputPart, InputTypes
<1>5. \A p \in Playbacks : PlaybackInv(p)'
  BY OthersUndisturbed
<1> QED BY <1>2, <1>4, <1>5 DEF IInv, OutputPart, OutputInv

-----------------------------------------------------------------------------
(* The node of the output *)

\* What it posts is there, unless the executor is closed.
LEMMA OutputPosts ==
    ASSUME tasks \in Seq(Work), NEW op \in Output!Outputs, NEW c \in Playbacks,
           tasks' = Output!Posted(<<Output!Task(op, c)>>), UNCHANGED <<closing, registry>>
    PROVE  /\ \E w \in OutputWork : w.object = c /\ tasks' \in {tasks, Append(tasks, w)}
           /\ Named(tasks', c) => Named(tasks, c) \/ ~closing
           /\ ~closing => Named(tasks', c)
           /\ \A o : HasTask(tasks, o, c) => HasTask(tasks', o, c)
           /\ \A o : o # op => (HasTask(tasks', o, c) <=> HasTask(tasks, o, c))
           /\ ~closing => HasTask(tasks', op, c)
           /\ \A R, o : /\ ComesFirst(tasks, R, o, c)
                        /\ op = o => ~Named(tasks, c) /\ ~Hand(R, c)
                        => ComesFirst(tasks', R, o, c)
<1> DEFINE w == Output!Task(op, c)
<1>1. w \in OutputWork /\ w \in Work /\ w.op = op /\ w.object = c
  BY DEF Output!Task, OutputWork, Work
<1> HIDE DEF w
<1>2. tasks' = IF closing THEN tasks ELSE Append(tasks, w)
  <2>1. tasks \o <<w>> = Append(tasks, w)
    BY <1>1
  <2> QED BY <2>1 DEF Output!Posted, w
<1>3. CASE closing
  <2>1. tasks' = tasks
    BY <1>2, <1>3
  <2> QED BY <1>1, <1>3, <2>1
<1>4. CASE ~closing
  <2> DEFINE U == Append(tasks, w)
  <2>1. /\ Named(U, c) <=> Named(tasks, c) \/ w.object = c
        /\ \A o : HasTask(U, o, c) <=> HasTask(tasks, o, c) \/ (w.op = o /\ w.object = c)
        /\ \A R, o : /\ ComesFirst(tasks, R, o, c)
                     /\ w.op = o /\ w.object = c => ~Named(tasks, c) /\ ~Hand(R, c)
                     => ComesFirst(U, R, o, c)
    BY <1>1, Posting, Zenon
  <2>2. tasks' = U
    BY <1>2, <1>4
  <2> HIDE DEF U
  <2>3. \E v \in OutputWork : v.object = c /\ tasks' \in {tasks, Append(tasks, v)}
    BY <1>1, <2>2 DEF U
  <2> QED BY <1>1, <1>4, <2>1, <2>2, <2>3
<1> QED BY <1>3, <1>4

\* stop_async and request_failure: after them the playback is to stop, and if it has the
\* reservation its retirement is to come.
LEMMA OutputAsked ==
    ASSUME IInv, NEW c \in Playbacks, NEW op \in Ending,
           tasks' = Output!Asked(c, op), UNCHANGED <<closing, registry>>,
           output_object[c].phase # "none", output_node = "alive" \/ output_holder = c
    PROVE  /\ tasks' = tasks \/ \E w \in OutputWork : w.object = c /\ tasks' = Append(tasks, w)
           /\ \A o : HasTask(tasks, o, c) => HasTask(tasks', o, c)
           /\ \A o : o \notin Ending => (HasTask(tasks', o, c) <=> HasTask(tasks, o, c))
           /\ output_object[c].stop_requested \/ HasTask(tasks', op, c)
           /\ \A R : ComesFirst(tasks, R, "start output", c) => ComesFirst(tasks', R, "start output", c)
<1>1. tasks \in Seq(Work) /\ ~closing /\ op \in Output!Outputs /\ op # "start output"
  BY Constants DEF IInv, ExecutorInv, Ending, Output!Outputs
<1>2. CASE output_object[c].stop_requested
  BY <1>2 DEF Output!Asked
<1>3. CASE ~output_object[c].stop_requested
  <2>1. tasks' = Output!Posted(<<Output!Task(op, c)>>)
    BY <1>3 DEF Output!Asked
  <2> QED BY <1>1, <2>1, OutputPosts
<1> QED BY <1>2, <1>3

LEMMA OutputStopping ==
    ASSUME output_object \in [Playbacks -> Noted], NEW c \in Playbacks, NEW changed,
           changed = Output!Stopping(c), output_object[c].phase # "none"
    PROVE  /\ changed \in [Playbacks -> Noted]
           /\ \A p \in Playbacks : p # c => changed[p] = output_object[p]
           /\ changed[c].stop_requested
           /\ IF output_object[c].stop_requested THEN changed[c] = output_object[c]
              ELSE changed[c].phase = "stopping"
<1>1. output_object[c] \in Noted
  OBVIOUS
<1>2. CASE output_object[c].stop_requested
  <2>1. changed = output_object
    BY <1>2 DEF Output!Stopping
  <2> QED BY <1>2, <2>1
<1>3. CASE ~output_object[c].stop_requested
  <2> DEFINE o == [output_object[c] EXCEPT !.stop_requested = TRUE, !.phase = "stopping"]
  <2>1. o \in Noted /\ o.stop_requested /\ o.phase = "stopping"
    BY <1>1 DEF Noted, Output!Phases
  <2>2. changed = [output_object EXCEPT ![c] = o]
    BY <1>3 DEF Output!Stopping
  <2> HIDE DEF o
  <2> QED BY <1>3, <2>1, <2>2
<1> QED BY <1>2, <1>3

\* The node lets go of a playback.
LEMMA OutputStopPlayback ==
    ASSUME IInv, NEW selecting \in Output!Selections \cup {Unset}, NEW alive \in {"alive", "gone"},
           Output!StopPlayback(selecting, alive), UNCHANGED <<input, registry>>
    PROVE  IInv'
<1>0. ExecutorInv /\ OutputTypes /\ DeviceInv
  BY DEF IInv, OutputPart, OutputInv
<1>a. PICK c \in Playbacks : c = playback
  BY <1>0 DEF Output!StopPlayback, OutputTypes
<1> DEFINE changed == Output!Stopping(c)
<1>1. /\ output_node = "alive" /\ c # None
      /\ output_selection' = selecting /\ output_node' = alive
      /\ playback' = None /\ drawing' = FALSE
      /\ tasks' = Output!Asked(c, "retire output")
      /\ UNCHANGED <<running, at, closing, wanted, output_holder, listed, output_device, path, frames,
                     observed, output_sdk>>
      /\ Output!Objects(changed)
  BY <1>a, Constants DEF Output!StopPlayback, Output!media
<1>2. /\ Booked(c) /\ Kept(c) /\ Filled(c) /\ Ordered(c) /\ output_object[c].phase # "none"
  BY <1>a DEF IInv, OutputPart, OutputInv, PlaybackInv, Kept
<1>3. /\ tasks' = tasks \/ \E w \in OutputWork : w.object = c /\ tasks' = Append(tasks, w)
      /\ \A o : HasTask(tasks, o, c) => HasTask(tasks', o, c)
      /\ \A o : o \notin Ending => (HasTask(tasks', o, c) <=> HasTask(tasks, o, c))
      /\ output_object[c].stop_requested \/ HasTask(tasks', "retire output", c)
      /\ ComesFirst(tasks', running', "start output", c)
  BY <1>1, <1>2, OutputAsked DEF Ending, Ordered
<1>4. /\ changed \in [Playbacks -> Noted]
      /\ \A p \in Playbacks : p # c => changed[p] = output_object[p]
      /\ changed[c].stop_requested
      /\ IF output_object[c].stop_requested THEN changed[c] = output_object[c]
         ELSE changed[c].phase = "stopping"
  BY <1>0, <1>1, <1>2, OutputStopping DEF OutputTypes
<1> HIDE DEF changed
<1>5. OutputUses(c)
  BY <1>1, <1>3 DEF OutputUses
<1>6. OutputTypes'
  <2>1. output_object' \in [Playbacks -> Noted]
    BY <1>1, <1>4, AbsentIsNoted, OutputObjectTypes
  <2> QED BY <1>0, <1>1, <2>1 DEF OutputTypes
<1>7. DeviceInv'
  BY <1>0, <1>1 DEF DeviceInv
<1>8. ASSUME NEW p \in Playbacks, p # c PROVE Same(p)
  <2>1. output_object'[p] = output_object[p] \/ Dropped(p)
    BY <1>1, <1>4, <1>8, OutputObjects
  <2>2. playback # p /\ p # None
    BY <1>8, <1>a, Constants
  <2> QED BY <1>1, <2>1, <2>2 DEF Same
<1>9. PlaybackInv(c)'
  <2>1. output_holder = c => Retiring(c)'
    BY <1>1, <1>2, <1>3 DEF Booked, Retiring, Ending
  <2>2. ~Dropped(c) \/ output_holder # c
    BY <2>1, <1>1, DroppedObjects DEF Retiring
  <2>3. CASE Dropped(c)
    <3>1. Booked(c)'
      BY <1>1, <1>2, <2>2, <2>3, DroppedObjects DEF Booked
    <3>2. Kept(c)' /\ Filled(c)' /\ Ordered(c)'
      BY <1>1, <1>2, <2>3, DroppedObjects DEF Kept, Filled, Ordered, Unused, Starting
    <3> QED BY <3>1, <3>2 DEF PlaybackInv
  <2>4. CASE output_object'[c] = changed[c]
    <3>1. Booked(c)'
      BY <1>1, <1>2, <1>4, <2>1, <2>4 DEF Booked
    <3>2. Kept(c)'
      BY <1>2, <1>4, <2>4 DEF Kept
    <3>3. Filled(c)'
      BY <1>1, <1>2, <1>4, <2>4 DEF Filled
    <3>4. Ordered(c)'
      BY <1>1, <1>2, <1>3, <1>4, <2>4 DEF Ordered, Starting, Ending
    <3> QED BY <3>1, <3>2, <3>3, <3>4 DEF PlaybackInv
  <2> QED BY <1>1, <2>3, <2>4, OutputObjects
<1> QED BY <1>1, <1>5, <1>6, <1>7, <1>8, <1>9, OutputAlone

\* One that has gone and has nothing left.
LEMMA DroppedIsFree ==
    ASSUME NEW p \in Playbacks, Dropped(p), output_holder' # p,
           path'[p] # "none" \/ frames'[p].scheduled > 0 => output_holder' = p
    PROVE  PlaybackInv(p)'
<1>1. Booked(p)'
  BY DroppedObjects DEF Booked
<1>2. Kept(p)' /\ Filled(p)' /\ Ordered(p)'
  BY DroppedObjects DEF Kept, Filled, Ordered, Unused, Starting
<1> QED BY <1>1, <1>2 DEF PlaybackInv

\* request_preroll_pump posts at most one task, and changes nothing else.
LEMMA OutputPumps ==
    ASSUME IInv, NEW c \in Playbacks, Output!Pumped(c), UNCHANGED <<closing, registry>>
    PROVE  /\ tasks' = tasks \/ \E w \in OutputWork : w.object = c /\ tasks' = Append(tasks, w)
           /\ \A o : HasTask(tasks, o, c) => HasTask(tasks', o, c)
           /\ \A o : o # "pump output" => (HasTask(tasks', o, c) <=> HasTask(tasks, o, c))
           /\ \A R : ComesFirst(tasks, R, "start output", c) => ComesFirst(tasks', R, "start output", c)
           /\ output_object' \in [Playbacks -> Noted]
           /\ \A p \in Playbacks : p # c => output_object'[p] = output_object[p]
           /\ output_object'[c].phase = output_object[c].phase
           /\ output_object'[c].stop_requested = output_object[c].stop_requested
<1> DEFINE posts == output_object[c].phase = "prerolling" /\ ~output_object[c].pump_posted
<1>0. tasks \in Seq(Work) /\ output_object \in [Playbacks -> Noted]
  BY DEF IInv, ExecutorInv, OutputPart, OutputTypes
<1>1. /\ tasks' = IF posts THEN Output!Posted(<<Output!Task("pump output", c)>>) ELSE tasks
      /\ output_object' = [output_object EXCEPT ![c].pump_posted = posts \/ @]
  BY DEF Output!Pumped
<1>2. /\ output_object' \in [Playbacks -> Noted]
      /\ \A p \in Playbacks : p # c => output_object'[p] = output_object[p]
      /\ output_object'[c].phase = output_object[c].phase
      /\ output_object'[c].stop_requested = output_object[c].stop_requested
  BY <1>0, <1>1 DEF Noted
<1>3. CASE ~posts
  BY <1>1, <1>2, <1>3
<1>4. CASE posts
  <2>1. tasks' = Output!Posted(<<Output!Task("pump output", c)>>)
    BY <1>1, <1>4
  <2>2. "pump output" \in Output!Outputs
    BY DEF Output!Outputs
  <2> HIDE DEF posts
  <2> QED BY <1>0, <1>2, <2>1, <2>2, OutputPosts
<1> QED BY <1>3, <1>4

\* A frame of the node's.
LEMMA OutputPumped ==
    ASSUME IInv, NEW c \in Playbacks, c = playback, Output!Pumped(c),
           frames' \in [Playbacks -> Frames],
           \A p \in Playbacks : p # c => frames'[p] = frames[p],
           frames'[c].scheduled = frames[c].scheduled, frames'[c].shown = frames[c].shown,
           drawing' \in BOOLEAN,
           UNCHANGED <<running, at, closing, output_node, output_selection, playback, wanted,
                       output_holder, listed, output_device, path, observed, output_sdk>>,
           UNCHANGED <<input, registry>>
    PROVE  IInv'
<1>0. ExecutorInv /\ OutputTypes /\ DeviceInv /\ PlaybackInv(c)
  BY DEF IInv, OutputPart, OutputInv
<1>1. /\ tasks' = tasks \/ \E w \in OutputWork : w.object = c /\ tasks' = Append(tasks, w)
      /\ \A o : HasTask(tasks, o, c) => HasTask(tasks', o, c)
      /\ \A o : o # "pump output" => (HasTask(tasks', o, c) <=> HasTask(tasks, o, c))
      /\ ComesFirst(tasks, running, "start output", c) =>
            ComesFirst(tasks', running', "start output", c)
      /\ output_object' \in [Playbacks -> Noted]
      /\ \A p \in Playbacks : p # c => output_object'[p] = output_object[p]
      /\ output_object'[c].phase = output_object[c].phase
      /\ output_object'[c].stop_requested = output_object[c].stop_requested
  BY OutputPumps
<1>2. OutputUses(c)
  BY <1>1 DEF OutputUses
<1>3. OutputTypes'
  BY <1>0, <1>1 DEF OutputTypes
<1>4. DeviceInv'
  <2>1. output_device.user # None => frames'[output_device.user].shown = frames[output_device.user].shown
    BY <1>0 DEF OutputTypes
  <2> QED BY <1>0, <2>1 DEF DeviceInv
<1>5. \A p \in Playbacks : p # c => Same(p)
  BY <1>1 DEF Same
<1>6. PlaybackInv(c)'
  <2>0. Booked(c) /\ Kept(c) /\ Filled(c) /\ Ordered(c) /\ c # None
    BY <1>0, Constants DEF PlaybackInv
  <2>1. Booked(c)'
    BY <1>1, <2>0 DEF Booked, Retiring, Ending
  <2>2. Kept(c)'
    BY <1>1, <2>0 DEF Kept
  <2>3. Filled(c)'
    BY <1>1, <2>0 DEF Filled
  <2>4. Ordered(c)'
    BY <1>1, <2>0 DEF Ordered, Starting, Ending
  <2> QED BY <2>1, <2>2, <2>3, <2>4 DEF PlaybackInv
<1> QED BY <1>2, <1>3, <1>4, <1>5, <1>6, OutputAlone

LEMMA OutputSubmit ==
    ASSUME IInv, Output!Submit, UNCHANGED <<input, registry>>
    PROVE  IInv'
<1>0. OutputTypes
  BY DEF IInv, OutputPart
<1>a. PICK c \in Playbacks : c = playback
  BY <1>0 DEF Output!Submit, OutputTypes
<1>1. /\ frames[c].ready < PipelineBound
      /\ frames' = [frames EXCEPT ![c].ready = @ + 1]
      /\ Output!Pumped(c)
      /\ UNCHANGED <<running, at, closing, output_node, output_selection, playback, drawing, wanted,
                     output_holder, listed, output_device, path, observed, output_sdk>>
  BY <1>a DEF Output!Submit, Output!output_node
<1>2. /\ frames' \in [Playbacks -> Frames]
      /\ \A p \in Playbacks : p # c => frames'[p] = frames[p]
      /\ frames'[c].scheduled = frames[c].scheduled /\ frames'[c].shown = frames[c].shown
  <2>1. frames \in [Playbacks -> Frames] /\ frames[c] \in Frames
    BY <1>0 DEF OutputTypes
  <2>2. frames[c].ready + 1 \in 0..PipelineBound
    BY <1>1, <2>1, Bounds DEF Frames
  <2> QED BY <1>1, <2>1, <2>2 DEF Frames
<1>3. drawing' \in BOOLEAN
  BY <1>0, <1>1 DEF OutputTypes
<1> QED BY <1>a, <1>1, <1>2, <1>3, OutputPumped

\* A step of the node alone, which has no playback.
LEMMA OutputIdles ==
    ASSUME IInv, drawing' \in BOOLEAN, output_selection' \in Output!Selections \cup {Unset},
           output_node' \in {output_node, "gone"}, output_node' = "gone" => playback = None,
           UNCHANGED <<executor, playback, output_object, wanted, output_holder, listed, output_device,
                       path, frames, observed, output_sdk>>,
           UNCHANGED <<input, registry>>
    PROVE  IInv'
<1>0. OutputTypes /\ DeviceInv
  BY DEF IInv, OutputPart, OutputInv
<1>1. OutputUses(None)
  BY DEF OutputUses, executor
<1>2. OutputTypes' /\ DeviceInv'
  BY <1>0 DEF OutputTypes, DeviceInv
<1>3. \A p \in Playbacks : Same(p)
  BY DEF Same
<1> QED BY <1>1, <1>2, <1>3, Constants, OutputAlone

LEMMA OutputSelect ==
    ASSUME IInv, NEW mode \in Output!Selections, Output!Select(mode), UNCHANGED <<input, registry>>
    PROVE  IInv'
<1>0. OutputTypes
  BY DEF IInv, OutputPart
<1>1. CASE Output!StopPlayback(mode, output_node)
  BY <1>0, <1>1, OutputStopPlayback DEF OutputTypes
<1>2. CASE /\ output_node = "alive" /\ playback = None /\ output_selection' = mode
           /\ UNCHANGED <<executor, output_node, playback, drawing, output_object, wanted,
                          output_holder, listed, output_device, path, frames, observed, output_sdk>>
  BY <1>0, <1>2, OutputIdles DEF OutputTypes
<1> QED BY <1>1, <1>2 DEF Output!Select, Output!executor, executor, Output!media

LEMMA OutputRemoveNode ==
    ASSUME IInv, Output!RemoveNode, UNCHANGED <<input, registry>>
    PROVE  IInv'
<1>0. OutputTypes
  BY DEF IInv, OutputPart
<1>1. CASE Output!StopPlayback(Unset, "gone")
  BY <1>1, OutputStopPlayback
<1>2. CASE /\ output_node' = "gone" /\ playback = None /\ output_selection' = Unset
           /\ UNCHANGED <<executor, playback, drawing, output_object, wanted,
                          output_holder, listed, output_device, path, frames, observed, output_sdk>>
  BY <1>0, <1>2, OutputIdles DEF OutputTypes
<1> QED BY <1>1, <1>2 DEF Output!RemoveNode, Output!executor, executor, Output!media

\* The node drops a playback that has ended.
LEMMA OutputDropped ==
    ASSUME IInv, NEW c \in Playbacks, c = playback, output_object[c].phase \in {"failed", "stopped"},
           playback' = None, drawing' = FALSE, Output!Objects(output_object),
           UNCHANGED <<executor, output_node, output_selection, wanted, output_holder, listed,
                       output_device, path, frames, observed, output_sdk>>,
           UNCHANGED <<input, registry>>
    PROVE  IInv'
<1>0. OutputTypes /\ DeviceInv /\ PlaybackInv(c) /\ c # None
  BY Constants DEF IInv, OutputPart, OutputInv
<1>1. OutputUses(c)
  BY DEF OutputUses, executor
<1>2. OutputTypes'
  <2>1. output_object' \in [Playbacks -> Noted]
    BY <1>0, AbsentIsNoted, OutputObjectTypes DEF OutputTypes
  <2> QED BY <1>0, <2>1 DEF OutputTypes
<1>3. DeviceInv'
  BY <1>0 DEF DeviceInv
<1>4. ASSUME NEW p \in Playbacks, p # c PROVE Same(p)
  <2>1. output_object'[p] = output_object[p] \/ Dropped(p)
    BY OutputObjects
  <2>2. playback # p /\ p # None
    BY <1>4, Constants
  <2> QED BY <2>1, <2>2 DEF Same
<1>5. PlaybackInv(c)'
  <2>0. Booked(c) /\ Kept(c) /\ Filled(c) /\ Ordered(c) /\ output_holder # c
    BY <1>0 DEF PlaybackInv, Booked
  <2>1. CASE Dropped(c)
    BY <2>0, <2>1, DroppedIsFree DEF Booked
  <2>2. CASE output_object'[c] = output_object[c]
    <3>1. Booked(c)'
      BY <2>0, <2>2 DEF Booked
    <3>2. Kept(c)' /\ Filled(c)'
      BY <2>0, <2>2 DEF Kept, Filled
    <3>3. Ordered(c)'
      BY <2>0, <2>2 DEF Ordered, Starting, executor
    <3> QED BY <3>1, <3>2, <3>3 DEF PlaybackInv
  <2> QED BY <2>1, <2>2, OutputObjects
<1> QED BY <1>1, <1>2, <1>3, <1>4, <1>5, OutputAlone

LEMMA OutputExisting ==
    ASSUME IInv, Output!Existing, UNCHANGED <<input, registry>>
    PROVE  IInv'
<1>0. OutputTypes
  BY DEF IInv, OutputPart
<1>a. PICK c \in Playbacks : c = playback
  BY <1>0 DEF Output!Existing, OutputTypes
<1>1. UNCHANGED <<running, at, closing, output_node, output_selection, wanted, output_holder, listed,
                  output_device, path, frames, observed, output_sdk>>
  BY DEF Output!Existing, Output!media
<1>2. CASE drawing' = TRUE /\ Output!Pumped(c) /\ UNCHANGED playback
  <2>1. /\ frames' \in [Playbacks -> Frames]
        /\ \A p \in Playbacks : p # c => frames'[p] = frames[p]
        /\ frames'[c].scheduled = frames[c].scheduled /\ frames'[c].shown = frames[c].shown
    BY <1>0, <1>1 DEF OutputTypes
  <2> QED BY <1>a, <1>1, <1>2, <2>1, OutputPumped
<1>3. CASE /\ output_object[c].phase \in {"failed", "stopped"}
           /\ playback' = None /\ drawing' = FALSE /\ UNCHANGED <<tasks>>
           /\ Output!Objects(output_object)
  BY <1>a, <1>1, <1>3, OutputDropped DEF executor
<1>4. CASE drawing' = FALSE /\ UNCHANGED <<tasks, playback, output_object>>
  <2>1. /\ drawing' \in BOOLEAN /\ output_selection' \in Output!Selections \cup {Unset}
        /\ output_node' = "gone" => playback = None
    BY <1>0, <1>1, <1>4 DEF OutputTypes, IInv, OutputPart, OutputInv, DeviceInv
  <2> QED BY <1>1, <1>4, <2>1, OutputIdles DEF executor
<1> QED BY <1>a, <1>2, <1>3, <1>4 DEF Output!Existing

\* The node starts a playback with the reservation, if nobody has it.
LEMMA OutputStart ==
    ASSUME IInv, Output!Start, UNCHANGED <<input, registry>>
    PROVE  IInv'
<1>0. ExecutorInv /\ OutputTypes /\ DeviceInv
  BY DEF IInv, OutputPart, OutputInv
<1>1. PICK c \in Playbacks :
         /\ output_object[c].phase = "none"
         /\ playback' = c /\ output_holder' = c
         /\ wanted' = [wanted EXCEPT ![c] = output_selection]
         /\ output_object' = [output_object EXCEPT ![c].phase = "starting"]
         /\ tasks' = Output!Posted(<<Output!Task("start output", c)>>)
  BY DEF Output!Start
<1>2. /\ output_node = "alive" /\ playback = None /\ output_selection \in {"plain", "keyed"}
      /\ output_holder = None /\ ~closing
      /\ UNCHANGED <<running, at, closing, output_node, output_selection, drawing, listed,
                     output_device, path, frames, observed, output_sdk>>
  BY <1>0 DEF Output!Start, Output!media, ExecutorInv
<1>3. /\ Booked(c) /\ Kept(c) /\ Filled(c) /\ Ordered(c)
      /\ output_object[c] = Output!Absent /\ ~Hand(running, c) /\ ~Named(tasks, c)
      /\ c \notin {None, output_device.callback, output_sdk}
      /\ \A op : ~HasTask(tasks, op, c)
  <2>1. Booked(c) /\ Kept(c) /\ Filled(c) /\ Ordered(c)
    BY DEF IInv, OutputPart, OutputInv, PlaybackInv
  <2> QED BY <1>1, <2>1, Constants DEF Kept, Unused, HasTask, Named
<1>4. /\ tasks' = tasks \/ \E w \in OutputWork : w.object = c /\ tasks' = Append(tasks, w)
      /\ \A o : o # "start output" => ~HasTask(tasks', o, c)
      /\ ComesFirst(tasks', running', "start output", c)
  <2>1. "start output" \in Output!Outputs /\ tasks \in Seq(Work)
    BY <1>0 DEF Output!Outputs, ExecutorInv
  <2>2. /\ \E w \in OutputWork : w.object = c /\ tasks' \in {tasks, Append(tasks, w)}
        /\ \A o : o # "start output" => (HasTask(tasks', o, c) <=> HasTask(tasks, o, c))
        /\ \A R, o : /\ ComesFirst(tasks, R, o, c)
                     /\ "start output" = o => ~Named(tasks, c) /\ ~Hand(R, c)
                     => ComesFirst(tasks', R, o, c)
    BY <1>1, <1>2, <2>1, OutputPosts
  <2>3. ComesFirst(tasks, running, "start output", c)
    BY <1>3 DEF Ordered
  <2> QED BY <1>2, <1>3, <2>2, <2>3
<1>5. /\ output_object' \in [Playbacks -> Noted]
      /\ \A p \in Playbacks : p # c => output_object'[p] = output_object[p]
      /\ output_object'[c].phase = "starting" /\ ~output_object'[c].stop_requested
  <2>1. output_object \in [Playbacks -> Noted] /\ output_object[c] \in Noted
    BY <1>0 DEF OutputTypes
  <2>2. ~output_object[c].stop_requested
    BY <1>3 DEF Output!Absent
  <2> QED BY <1>1, <2>1, <2>2 DEF Noted, Output!Phases
<1>6. OutputUses(c)
  BY <1>2, <1>4 DEF OutputUses
<1>7. OutputTypes'
  <2>1. wanted' \in [Playbacks -> Output!Selections]
    BY <1>0, <1>1, <1>2 DEF OutputTypes, Output!Selections
  <2> QED BY <1>0, <1>1, <1>2, <1>5, <2>1 DEF OutputTypes
<1>8. DeviceInv'
  BY <1>0, <1>2 DEF DeviceInv
<1>9. \A p \in Playbacks : p # c => Same(p)
  BY <1>1, <1>2, <1>5, Constants DEF Same
<1>10. PlaybackInv(c)'
  <2>1. Booked(c)'
    BY <1>1, <1>5 DEF Booked
  <2>2. Kept(c)'
    BY <1>5 DEF Kept
  <2>3. Filled(c)'
    BY <1>1, <1>2, <1>3, <1>5 DEF Filled, Booked
  <2>4. Ordered(c)'
    BY <1>1, <1>2, <1>3, <1>4, <1>5 DEF Ordered, Starting, Ending
  <2> QED BY <2>1, <2>2, <2>3, <2>4 DEF PlaybackInv
<1> QED BY <1>2, <1>6, <1>7, <1>8, <1>9, <1>10, OutputAlone

LEMMA OutputNode ==
    ASSUME IInv, Output!Node, UNCHANGED <<input, registry>>
    PROVE  IInv'
BY OutputSelect, OutputExisting, OutputStart, OutputSubmit, OutputRemoveNode DEF Output!Node

-----------------------------------------------------------------------------
(* The tasks of the output *)

\* A task of the output in hand.
LEMMA OutputInHand ==
    ASSUME IInv, NEW op, NEW step, Output!InHand(op, step)
    PROVE  /\ running # None /\ running.object \in Playbacks /\ running.op = op /\ at = step
           /\ Hand(running, running.object)
           /\ ~HasTask(tasks, "start output", running.object)
           /\ output_object[running.object].phase # "none"
           /\ Booked(running.object) /\ Kept(running.object)
           /\ Filled(running.object) /\ Ordered(running.object)
           /\ output_device.user \in {running.object, None} \/ output_holder # running.object
           /\ output_device.callback \in {running.object, None} \/ output_holder # running.object
<1>1. running # None /\ running.object \in Playbacks /\ running.op = op /\ at = step
  BY DEF Output!InHand
<1>2. Hand(running, running.object)
  BY <1>1 DEF Hand
<1>3. PlaybackInv(running.object) /\ DeviceInv
  BY <1>1 DEF IInv, OutputPart, OutputInv
<1>4. ~HasTask(tasks, "start output", running.object) /\ output_object[running.object].phase # "none"
  BY <1>2, <1>3 DEF PlaybackInv, Kept, Unused, Ordered, ComesFirst, HasTask
<1> QED BY <1>1, <1>2, <1>3, <1>4 DEF PlaybackInv, DeviceInv

OutputDevices == [user : Playbacks \cup {None}, callback : Playbacks \cup {None},
            playing : BOOLEAN, keyer : BOOLEAN]

\* A retirement begins: what plays is asked to stop.
LEMMA OutputRetires ==
    ASSUME IInv, NEW op, NEW step, Output!InHand(op, step),
           NEW changed \in [Playbacks -> Noted], NEW told \in OutputDevices,
           NEW final \in {"stopped", "failed"}, Output!Retire(changed, told, final),
           changed[running.object].stop_requested,
           \A p \in Playbacks : p # running.object => changed[p] = output_object[p],
           told = output_device \/
              (output_holder = running.object /\ ~told.playing
               /\ {told.user, told.callback} \subseteq {running.object, None}),
           path' \in [Playbacks -> {"none", "plain", "keyed"}],
           \A p \in Playbacks : p # running.object => path'[p] = path[p],
           path'[running.object] # "none" => output_holder = running.object,
           path'[running.object] # "none" /\ told.user = running.object =>
              (told.keyer <=> path'[running.object] = "keyed"),
           UNCHANGED <<input, registry>>
    PROVE  IInv'
<1> DEFINE r == running.object
<1>0. ExecutorInv /\ OutputTypes /\ DeviceInv
  BY DEF IInv, OutputPart, OutputInv
<1>1. /\ UNCHANGED <<tasks, running, closing, output_node, output_selection, playback, drawing, wanted,
                     output_holder, listed, frames, observed, output_sdk>>
      /\ at' = final /\ output_device' = told
      /\ output_object' = [changed EXCEPT ![r].phase = "stopping"]
  BY DEF Output!Retire, Output!Reach, Output!output_node
<1>a. /\ Hand(running, r) /\ r \in Playbacks /\ r # None
      /\ ~HasTask(tasks, "start output", r)
      /\ Booked(r) /\ Kept(r) /\ Filled(r) /\ Ordered(r)
      /\ output_device.user \in {r, None} \/ output_holder # r
      /\ output_device.callback \in {r, None} \/ output_holder # r
  BY OutputInHand, Constants
<1>b. PICK c \in Playbacks : c = r
  BY <1>a
<1> HIDE DEF r
<1>2. /\ output_object' \in [Playbacks -> Noted]
      /\ output_object'[c].stop_requested /\ output_object'[c].phase = "stopping"
      /\ \A p \in Playbacks : p # c => output_object'[p] = output_object[p]
  <2>1. /\ changed[c] \in Noted /\ changed[c].stop_requested
        /\ output_object' = [changed EXCEPT ![c].phase = "stopping"]
        /\ \A p \in Playbacks : p # c => changed[p] = output_object[p]
    BY <1>1, <1>b DEF r
  <2> QED BY <2>1 DEF Noted, Output!Phases
<1>3. OutputUses(c)
  BY <1>1, <1>a, <1>b DEF OutputUses
<1>4. OutputTypes'
  BY <1>0, <1>1, <1>2 DEF OutputTypes, OutputDevices
<1>5. DeviceInv'
  BY <1>0, <1>1, <1>a DEF DeviceInv, r
<1>6. ASSUME NEW p \in Playbacks, p # c PROVE Same(p)
  <2>1. p # None /\ p # r /\ path'[p] = path[p]
    BY <1>6, <1>b, Constants DEF r
  <2>2. CASE told = output_device
    BY <1>1, <1>2, <1>6, <2>1, <2>2 DEF Same
  <2>3. CASE output_holder = r /\ {told.user, told.callback} \subseteq {r, None}
    BY <1>1, <1>2, <1>6, <1>a, <2>1, <2>3 DEF Same
  <2> QED BY <2>2, <2>3 DEF r
<1>7. PlaybackInv(c)'
  <2>0. Booked(c) /\ Ordered(c) /\ Hand(running, c) /\ c # None /\ ~HasTask(tasks, "start output", c)
    BY <1>a, <1>b
  <2>1. Booked(c)'
    BY <1>1, <1>2, <1>b, <2>0 DEF Booked, Retiring, r
  <2>2. Kept(c)'
    BY <1>2 DEF Kept
  <2>3. Filled(c)'
    BY <1>1, <1>2, <1>b DEF Filled, r
  <2>4. Ordered(c)'
    BY <1>1, <1>2, <2>0 DEF Ordered, Starting
  <2> QED BY <2>1, <2>2, <2>3, <2>4 DEF PlaybackInv
<1> QED BY <1>1, <1>3, <1>4, <1>5, <1>6, <1>7, OutputAlone

\* Whoever has the reservation is not forgotten by a task that does not retire it.
LEMMA HolderIsNotDropped ==
    ASSUME NEW p, Booked(p), output_holder = p, UNCHANGED playback,
           running' = running
              \/ ~(Hand(running, p) /\ (running.op \in Ending \/ at \in {"stopped", "failed"})),
           \A o \in Ending : HasTask(tasks, o, p) => HasTask(tasks', o, p)
    PROVE  ~Dropped(p)
BY DroppedObjects DEF Booked, Retiring

\* A task of the output ends that retires nothing.
LEMMA OutputFinishes ==
    ASSUME IInv, NEW op \in {"start output", "pump output"},
           NEW step, step \notin {"stopped", "failed"},
           Output!InHand(op, step), Output!Finish,
           NEW changed \in [Playbacks -> Noted], Output!Objects(changed),
           \A p \in Playbacks : p # running.object => changed[p] = output_object[p],
           changed[running.object].stop_requested = output_object[running.object].stop_requested,
           changed[running.object].phase = output_object[running.object].phase
              \/ (changed[running.object].phase = "prerolling"
                  /\ output_holder = running.object /\ output_device.user = running.object),
           frames' \in [Playbacks -> Frames],
           \A p \in Playbacks : p # running.object => frames'[p] = frames[p],
           frames'[running.object].scheduled = frames[running.object].scheduled,
           frames'[running.object].shown = frames[running.object].shown,
           output_device' = output_device \/
              (output_device' = [output_device EXCEPT !.playing = TRUE]
               /\ output_device.user = running.object /\ frames[running.object].shown),
           UNCHANGED <<output_node, output_selection, playback, drawing, wanted, output_holder, listed,
                       path, observed, output_sdk>>,
           UNCHANGED <<input, registry>>
    PROVE  IInv'
<1>0. ExecutorInv /\ OutputTypes /\ DeviceInv
  BY DEF IInv, OutputPart, OutputInv
<1>a. PICK c \in Playbacks : c = running.object
  BY OutputInHand
<1>1. /\ UNCHANGED <<tasks, closing>> /\ running' = None /\ at' = "begin"
  BY DEF Output!Finish
<1>2. /\ Hand(running, c) /\ c # None /\ running.op = op /\ at = step
      /\ ~HasTask(tasks, "start output", c) /\ output_object[c].phase # "none"
      /\ Booked(c) /\ Kept(c) /\ Filled(c) /\ Ordered(c)
  BY <1>a, OutputInHand, Constants
<1>3. /\ \A p \in Playbacks : p # c => changed[p] = output_object[p] /\ frames'[p] = frames[p]
      /\ changed[c].stop_requested = output_object[c].stop_requested
      /\ changed[c].phase = output_object[c].phase
            \/ (changed[c].phase = "prerolling" /\ output_holder = c /\ output_device.user = c)
      /\ frames'[c].scheduled = frames[c].scheduled /\ frames'[c].shown = frames[c].shown
  BY <1>a
<1>4. /\ output_device' \in OutputDevices /\ output_device'.user = output_device.user
      /\ output_device'.callback = output_device.callback
      /\ output_device'.keyer = output_device.keyer
      /\ output_device'.playing => output_device.user # None /\ frames[output_device.user].shown
  <2>1. output_device \in OutputDevices
    BY <1>0 DEF OutputTypes, OutputDevices
  <2>2. ASSUME output_device' = output_device PROVE <1>4
    BY <1>0, <2>1, <2>2 DEF DeviceInv
  <2>3. ASSUME output_device' = [output_device EXCEPT !.playing = TRUE],
               output_device.user = c, frames[c].shown
        PROVE  <1>4
    BY <1>2, <2>1, <2>3 DEF OutputDevices
  <2> QED BY <1>a, <2>2, <2>3
<1>5. OutputUses(c)
  BY <1>1, <1>2 DEF OutputUses
<1>6. OutputTypes'
  <2>1. output_object' \in [Playbacks -> Noted]
    BY AbsentIsNoted, OutputObjectTypes
  <2> QED BY <1>0, <1>4, <2>1 DEF OutputTypes, OutputDevices
<1>7. DeviceInv'
  <2>1. \A p \in Playbacks : frames'[p].shown = frames[p].shown
    BY <1>3
  <2> QED BY <1>0, <1>4, <2>1 DEF DeviceInv, OutputTypes
<1>8. ASSUME NEW p \in Playbacks, p # c PROVE Same(p)
  <2>1. output_object'[p] = output_object[p] \/ Dropped(p)
    BY <1>3, <1>8, OutputObjects, ZenonT(60)
  <2> QED BY <1>3, <1>4, <1>8, <2>1 DEF Same
<1>9. PlaybackInv(c)'
  <2>1. output_holder = c => ~Dropped(c)
    BY <1>1, <1>2, HolderIsNotDropped DEF Ending
  <2>2. CASE Dropped(c)
    BY <1>2, <1>3, <2>1, <2>2, DroppedIsFree DEF Booked
  <2>3. CASE output_object'[c] = changed[c]
    <3>1. Booked(c)'
      BY <1>1, <1>2, <1>3, <2>3 DEF Booked, Retiring, Ending
    <3>2. Kept(c)'
      BY <1>2, <1>3, <2>3 DEF Kept
    <3>3. Filled(c)'
      BY <1>2, <1>3, <1>4, <2>3, ZenonT(60) DEF Filled
    <3>4. Ordered(c)'
      BY <1>1, <1>2, <1>3, <2>3, Finishing DEF Ordered, Starting, Hand
    <3> QED BY <3>1, <3>2, <3>3, <3>4 DEF PlaybackInv
  <2> QED BY <2>2, <2>3, OutputObjects
<1> QED BY <1>1, <1>5, <1>6, <1>7, <1>8, <1>9, OutputAlone

\* A task of the playback that has the reservation goes on.
LEMMA OutputGoesOn ==
    ASSUME IInv, NEW op, NEW step, step \notin {"stopped", "failed"}, Output!InHand(op, step),
           NEW c \in Playbacks, c = running.object, output_holder = c,
           at' \in {"initialized", "ready", "pumping", "playing"},
           output_object' \in [Playbacks -> Noted],
           \A p \in Playbacks : p # c => output_object'[p] = output_object[p] \/ Dropped(p),
           output_object'[c].stop_requested = output_object[c].stop_requested,
           output_object'[c].phase \in {output_object[c].phase, "running"},
           output_device' \in OutputDevices, output_device'.user = c,
           output_device' = output_device
              \/ (output_device'.callback \in {c, None} /\ ~output_device'.playing),
           path' \in [Playbacks -> {"none", "plain", "keyed"}],
           \A p \in Playbacks : p # c => path'[p] = path[p],
           path'[c] # "none" => (output_device'.keyer <=> path'[c] = "keyed"),
           frames' \in [Playbacks -> Frames], \A p \in Playbacks : p # c => frames'[p] = frames[p],
           frames[c].shown => frames'[c].shown,
           output_object'[c].phase = "running" => at' # "pumping" /\ frames'[c].scheduled > 0
              /\ (~output_object[c].stop_requested => frames'[c].scheduled = Target),
           at' = "playing" => frames'[c].shown,
           UNCHANGED <<tasks, running, closing, output_node, output_selection, playback, drawing, wanted,
                       output_holder, listed, observed, output_sdk>>,
           UNCHANGED <<input, registry>>
    PROVE  IInv'
<1>0. ExecutorInv /\ OutputTypes /\ DeviceInv
  BY DEF IInv, OutputPart, OutputInv
<1>1. /\ Hand(running, c) /\ c # None /\ running.op = op /\ at = step
      /\ ~HasTask(tasks, "start output", c) /\ output_object[c].phase # "none"
      /\ Booked(c) /\ Kept(c) /\ Filled(c) /\ Ordered(c)
      /\ output_device.user \in {c, None}
      /\ output_device.callback \in {c, None}
  BY OutputInHand, Constants
<1>2. OutputUses(c)
  BY <1>1 DEF OutputUses
<1>3. OutputTypes'
  BY <1>0 DEF OutputTypes, OutputDevices
<1>4. DeviceInv'
  BY <1>0, <1>1 DEF DeviceInv
<1>5. ASSUME NEW p \in Playbacks, p # c PROVE Same(p)
  <2>1. p # None /\ output_holder # p
    BY <1>5, Constants
  <2>2. output_device.user # p
    BY <1>1, <1>5, <2>1
  <2> QED BY <1>1, <1>5, <2>1, <2>2 DEF Same
<1>6. PlaybackInv(c)'
  <2>1. Booked(c)'
    BY <1>1 DEF Booked, Retiring
  <2>2. Kept(c)'
    BY <1>1 DEF Kept
  <2>3. Filled(c)'
    BY <1>1 DEF Filled
  <2>4. Ordered(c)'
    BY <1>1 DEF Ordered, Starting
  <2> QED BY <2>1, <2>2, <2>3, <2>4 DEF PlaybackInv
<1> QED BY <1>2, <1>3, <1>4, <1>5, <1>6, OutputAlone

\* A task that fails asks for the retirement.
LEMMA OutputFails ==
    ASSUME IInv, NEW step \in {"pumping", "playing"}, Output!InHand("pump output", step),
           NEW c \in Playbacks, c = running.object,
           tasks' = Output!Asked(c, "fail output"), output_object' = Output!Stopping(c),
           running' = None, at' = "begin", UNCHANGED closing,
           frames' \in [Playbacks -> Frames], \A p \in Playbacks : p # c => frames'[p] = frames[p],
           frames[c].shown => frames'[c].shown,
           output_object[c].phase = "running" => frames'[c].scheduled = frames[c].scheduled,
           UNCHANGED <<output_node, output_selection, playback, drawing, wanted, output_holder, listed,
                       output_device, path, observed, output_sdk>>,
           UNCHANGED <<input, registry>>
    PROVE  IInv'
<1>0. ExecutorInv /\ OutputTypes /\ DeviceInv
  BY DEF IInv, OutputPart, OutputInv
<1>1. /\ Hand(running, c) /\ c # None /\ running.op = "pump output" /\ at = step
      /\ ~HasTask(tasks, "start output", c) /\ output_object[c].phase # "none"
      /\ Booked(c) /\ Kept(c) /\ Filled(c) /\ Ordered(c)
  BY OutputInHand, Constants
<1>2. output_holder = c /\ output_device.user = c
  BY <1>1 DEF Ordered
<1>3. /\ tasks' = tasks \/ \E w \in OutputWork : w.object = c /\ tasks' = Append(tasks, w)
      /\ \A o : HasTask(tasks, o, c) => HasTask(tasks', o, c)
      /\ \A o : o \notin Ending => (HasTask(tasks', o, c) <=> HasTask(tasks, o, c))
      /\ output_object[c].stop_requested \/ HasTask(tasks', "fail output", c)
      /\ ComesFirst(tasks', None, "start output", c)
  BY <1>1, <1>2, OutputAsked, Finishing DEF Ending, Ordered
<1>4. /\ output_object' \in [Playbacks -> Noted]
      /\ \A p \in Playbacks : p # c => output_object'[p] = output_object[p]
      /\ output_object'[c].stop_requested
      /\ IF output_object[c].stop_requested THEN output_object'[c] = output_object[c]
         ELSE output_object'[c].phase = "stopping"
  <2>1. output_object \in [Playbacks -> Noted] /\ output_object[c].phase # "none"
    BY <1>0, <1>1 DEF OutputTypes
  <2>2. output_object' = Output!Stopping(c)
    OBVIOUS
  <2> QED BY ONLY <2>1, <2>2, c \in Playbacks, OutputStopping
<1>5. OutputUses(c)
  BY <1>1, <1>3 DEF OutputUses
<1>6. OutputTypes'
  BY <1>0, <1>4 DEF OutputTypes
<1>7. DeviceInv'
  BY <1>0, <1>2 DEF DeviceInv
<1>8. \A p \in Playbacks : p # c => Same(p)
  BY <1>4 DEF Same
<1>9. PlaybackInv(c)'
  <2>1. Booked(c)'
    BY <1>1, <1>2, <1>3, <1>4 DEF Booked, Retiring, Ending
  <2>2. Kept(c)'
    BY <1>1, <1>4 DEF Kept
  <2>3. Filled(c)'
    BY <1>1, <1>2, <1>4 DEF Filled
  <2>4. Ordered(c)'
    BY <1>1, <1>3, <1>4 DEF Ordered, Starting, Ending, Hand
  <2> QED BY <2>1, <2>2, <2>3, <2>4 DEF PlaybackInv
<1> QED BY <1>5, <1>6, <1>7, <1>8, <1>9, OutputAlone

\* A retirement ends: the frames and the reservation go.
LEMMA OutputRetireEnds ==
    ASSUME IInv, Output!RetireEnds, UNCHANGED <<input, registry>>
    PROVE  IInv'
<1>0. ExecutorInv /\ OutputTypes /\ DeviceInv
  BY DEF IInv, OutputPart, OutputInv
<1>1. PICK final \in {"stopped", "failed"}, op \in Output!Outputs : Output!InHand(op, final)
  BY DEF Output!RetireEnds, Output!AnyInHand
<1>a. PICK c \in Playbacks : c = running.object
  BY <1>1, OutputInHand
<1>2. /\ Hand(running, c) /\ c # None /\ at = final
      /\ ~HasTask(tasks, "start output", c) /\ output_object[c].phase # "none"
      /\ Booked(c) /\ Kept(c) /\ Filled(c) /\ Ordered(c)
      /\ output_device.user \in {c, None} \/ output_holder # c
      /\ output_device.callback \in {c, None} \/ output_holder # c
      /\ output_object[c].stop_requested
  BY <1>a, <1>1, OutputInHand, Constants DEF Ordered
<1> DEFINE changed == [output_object EXCEPT ![c].phase = final]
<1>3. /\ output_device' = IF output_holder = c
                          THEN [user |-> None, callback |-> None, playing |-> FALSE,
                                keyer |-> output_device.keyer /\ output_device.user # c]
                          ELSE output_device
      /\ path' = [path EXCEPT ![c] = "none"]
      /\ frames' = [frames EXCEPT ![c] = Output!Empty]
      /\ observed' = [observed EXCEPT ![c] = FALSE]
      /\ wanted' = [wanted EXCEPT ![c] = "disabled"]
      /\ output_holder' = IF output_holder = c THEN None ELSE output_holder
      /\ UNCHANGED <<tasks, closing>> /\ running' = None /\ at' = "begin"
      /\ UNCHANGED <<output_node, output_selection, playback, drawing, listed, output_sdk>>
      /\ Output!Objects(changed)
  BY <1>a, <1>1, <1>2 DEF Output!RetireEnds, Output!Finish, Output!output_node, Output!AnyInHand,
                          Output!InHand
<1>4. /\ changed \in [Playbacks -> Noted]
      /\ changed[c].stop_requested /\ changed[c].phase = final
      /\ \A p \in Playbacks : p # c => changed[p] = output_object[p]
  <2>1. output_object \in [Playbacks -> Noted] /\ output_object[c] \in Noted
    BY <1>0 DEF OutputTypes
  <2> QED BY <1>2, <2>1 DEF Noted, Output!Phases
<1> HIDE DEF changed
<1>5. OutputUses(c)
  BY <1>2, <1>3 DEF OutputUses
<1>6. OutputTypes'
  <2>1. output_object' \in [Playbacks -> Noted]
    BY <1>3, <1>4, AbsentIsNoted, OutputObjectTypes
  <2>2. Output!Empty \in Frames
    BY Bounds, SMTT(30) DEF Output!Empty, Frames
  <2>3. frames' \in [Playbacks -> Frames] /\ path' \in [Playbacks -> {"none", "plain", "keyed"}]
    BY <1>0, <1>3, <2>2 DEF OutputTypes
  <2>4. wanted' \in [Playbacks -> Output!Selections] /\ observed' \in [Playbacks -> BOOLEAN]
    BY <1>0, <1>3 DEF OutputTypes, Output!Selections
  <2>5. output_device' \in OutputDevices
    BY <1>0, <1>3 DEF OutputTypes, OutputDevices
  <2> QED BY <1>0, <1>3, <2>1, <2>3, <2>4, <2>5 DEF OutputTypes, OutputDevices
<1>7. /\ path'[c] = "none" /\ frames'[c].scheduled = 0 /\ output_holder' # c
      /\ \A p \in Playbacks : p # c => path'[p] = path[p] /\ frames'[p] = frames[p]
  BY <1>0, <1>2, <1>3 DEF OutputTypes, Output!Empty
<1>8. DeviceInv'
  BY <1>0, <1>3, <1>7 DEF DeviceInv, OutputTypes
<1>9. ASSUME NEW p \in Playbacks, p # c PROVE Same(p)
  <2>1. output_object'[p] = output_object[p] \/ Dropped(p)
    BY <1>3, <1>4, <1>9, OutputObjects
  <2>2. p # None
    BY Constants
  <2> QED BY <1>2, <1>3, <1>7, <1>9, <2>1, <2>2 DEF Same
<1>10. PlaybackInv(c)'
  <2>1. CASE Dropped(c)
    BY <1>7, <2>1, DroppedIsFree
  <2>2. CASE output_object'[c] = changed[c]
    <3>1. Booked(c)'
      BY <1>4, <1>7, <2>2 DEF Booked
    <3>2. Kept(c)' /\ Filled(c)'
      BY <1>4, <1>7, <2>2 DEF Kept, Filled
    <3>3. Ordered(c)'
      BY <1>2, <1>3, <1>4, <2>2, Finishing DEF Ordered, Starting, Hand
    <3> QED BY <3>1, <3>2, <3>3 DEF PlaybackInv
  <2> QED BY <1>3, <2>1, <2>2, OutputObjects
<1>11. output_holder' \in {output_holder, None}
  BY <1>3
<1> QED BY <1>3, <1>5, <1>6, <1>8, <1>9, <1>10, <1>11, OutputAlone

\* output_activation_s::start: the keyer is on if the path it opens is the keyed one.
LEMMA OutputActivated ==
    ASSUME NEW mode, NEW says \in Output!Answers, output_device.keyer \in BOOLEAN,
           NEW a, a = Output!Activated(mode, says)
    PROVE  /\ a.enabled \in BOOLEAN /\ a.keyer \in BOOLEAN /\ a.path \in {"none", "plain", "keyed"}
           /\ a.path # "none" => a.enabled /\ (a.keyer <=> a.path = "keyed")
BY DEF Output!Activated, Output!Answers, Output!RestartWithoutKeyer

LEMMA OutputStartControl ==
    ASSUME IInv, Output!StartControl, UNCHANGED <<input, registry>>
    PROVE  IInv'
<1>0. ExecutorInv /\ OutputTypes /\ DeviceInv
  BY DEF IInv, OutputPart, OutputInv
<1>1. Output!InHand("start output", "begin")
  BY DEF Output!StartControl
<1>a. PICK c \in Playbacks : c = running.object
  BY <1>1, OutputInHand
<1>2. /\ Hand(running, c) /\ c # None /\ running.op = "start output" /\ at = "begin"
      /\ output_object[c].phase # "none"
      /\ Booked(c) /\ Filled(c) /\ Ordered(c)
  BY <1>a, <1>1, OutputInHand, Constants
<1>3. output_holder = c
  BY <1>2 DEF Ordered, Starting
<1>4. /\ output_device \in OutputDevices /\ output_object \in [Playbacks -> Noted]
      /\ path \in [Playbacks -> {"none", "plain", "keyed"}] /\ frames \in [Playbacks -> Frames]
  BY <1>0 DEF OutputTypes, OutputDevices
<1>5. ASSUME output_object[c].stop_requested, Output!Retire(output_object, output_device, "stopped"),
             UNCHANGED path
      PROVE  IInv'
  <2>1. path[c] # "none" /\ output_device.user = c => (output_device.keyer <=> path[c] = "keyed")
    BY <1>2 DEF Filled
  <2> QED BY <1>a, <1>1, <1>3, <1>4, <1>5, <2>1, OutputRetires
<1>6. ASSUME ~output_object[c].stop_requested,
             NEW says \in Output!Answers, NEW full \in BOOLEAN, NEW a, NEW told,
             a = Output!Activated(wanted[c], says),
             told = [user |-> IF a.enabled THEN c ELSE None, playing |-> FALSE,
                     callback |-> IF a.path # "none" /\ full THEN c ELSE None, keyer |-> a.keyer],
             path' = [path EXCEPT ![c] = a.path],
             IF told.callback = c
             THEN /\ output_device' = told /\ Output!Reach("initialized")
                  /\ UNCHANGED <<Output!output_node, output_object, wanted, output_holder, listed,
                                 frames, observed, output_sdk>>
             ELSE Output!Retire([output_object EXCEPT ![c].stop_requested = TRUE], told, "failed")
      PROVE  IInv'
  <2>1. /\ a.enabled \in BOOLEAN /\ a.keyer \in BOOLEAN /\ a.path \in {"none", "plain", "keyed"}
        /\ a.path # "none" => a.enabled /\ (a.keyer <=> a.path = "keyed")
    BY <1>4, <1>6, OutputActivated DEF OutputDevices
  <2>2. /\ told \in OutputDevices /\ told.user \in {c, None} /\ told.callback \in {c, None} /\ ~told.playing
        /\ told.keyer = a.keyer /\ (told.user = c <=> a.enabled)
        /\ told.callback = c => a.path # "none"
    BY <1>2, <1>6, <2>1 DEF OutputDevices
  <2>3. /\ path' \in [Playbacks -> {"none", "plain", "keyed"}] /\ path'[c] = a.path
        /\ \A p \in Playbacks : p # c => path'[p] = path[p]
        /\ path'[c] # "none" /\ told.user = c => (told.keyer <=> path'[c] = "keyed")
    BY <1>4, <1>6, <2>1, <2>2
  <2>4. CASE told.callback = c
    <3>1. /\ output_device' = told /\ at' = "initialized"
          /\ UNCHANGED <<tasks, running, closing, output_node, output_selection, playback, drawing,
                         output_object, wanted, output_holder, listed, frames, observed, output_sdk>>
      BY <1>6, <2>4 DEF Output!Reach, Output!output_node
    <3>2. /\ told.user = c /\ (path'[c] # "none" => (told.keyer <=> path'[c] = "keyed"))
      BY <2>1, <2>2, <2>3, <2>4
    <3>3. output_object[c].phase # "running"
      BY <1>2 DEF Ordered, Starting
    <3> QED BY <1>a, <1>1, <1>2, <1>3, <1>4, <2>2, <2>3, <3>1, <3>2, <3>3, OutputGoesOn
  <2>5. CASE told.callback # c
    <3> DEFINE changed == [output_object EXCEPT ![c].stop_requested = TRUE]
    <3>1. Output!Retire(changed, told, "failed")
      BY <1>6, <2>5
    <3>2. /\ changed \in [Playbacks -> Noted] /\ changed[c].stop_requested
          /\ \A p \in Playbacks : p # c => changed[p] = output_object[p]
      BY <1>4 DEF Noted
    <3> HIDE DEF changed
    <3>3. {told.user, told.callback} \subseteq {c, None}
      BY <2>2
    <3> QED BY <1>a, <1>1, <1>3, <2>2, <2>3, <3>1, <3>2, <3>3, OutputRetires
  <2> QED BY <2>4, <2>5
<1> QED BY <1>a, <1>5, <1>6, ZenonT(60) DEF Output!StartControl, Output!Object

LEMMA OutputStartEnds ==
    ASSUME IInv, Output!StartEnds, UNCHANGED <<input, registry>>
    PROVE  IInv'
<1>0. ExecutorInv /\ OutputTypes /\ DeviceInv
  BY DEF IInv, OutputPart, OutputInv
<1>1. Output!InHand("start output", "initialized")
  BY DEF Output!StartEnds
<1>a. PICK c \in Playbacks : c = running.object
  BY <1>1, OutputInHand
<1>2. /\ Hand(running, c) /\ at = "initialized" /\ output_object[c].phase # "none"
      /\ Booked(c) /\ Filled(c) /\ Ordered(c)
  BY <1>a, <1>1, OutputInHand
<1>3. /\ output_holder = c /\ output_device.user = c
      /\ path[c] # "none" => (output_device.keyer <=> path[c] = "keyed")
  BY <1>2 DEF Ordered, Filled
<1>4. /\ output_device \in OutputDevices /\ output_object \in [Playbacks -> Noted]
      /\ path \in [Playbacks -> {"none", "plain", "keyed"}] /\ frames \in [Playbacks -> Frames]
  BY <1>0 DEF OutputTypes, OutputDevices
<1>5. CASE output_object[c].stop_requested
  <2>1. Output!Retire(output_object, output_device, "stopped") /\ UNCHANGED path
    BY <1>a, <1>5 DEF Output!StartEnds, Output!Object
  <2> QED BY <1>a, <1>1, <1>3, <1>4, <1>5, <2>1, OutputRetires
<1>6. CASE ~output_object[c].stop_requested
  <2>1. /\ at' = "ready"
        /\ UNCHANGED <<tasks, running, closing, output_node, output_selection, playback, drawing,
                       output_object, wanted, output_holder, listed, output_device, path, frames,
                       observed, output_sdk>>
    BY <1>a, <1>6 DEF Output!StartEnds, Output!Object, Output!Reach, Output!output_vars,
                      Output!output_node, Output!media
  <2>2. output_object[c].phase = "running" =>
           frames[c].scheduled > 0 /\ (~output_object[c].stop_requested => frames[c].scheduled = Target)
    BY <1>2, <1>6, Bounds DEF Filled
  <2> QED BY <1>a, <1>1, <1>2, <1>3, <1>4, <2>1, <2>2, OutputGoesOn
<1> QED BY <1>5, <1>6

LEMMA OutputReady ==
    ASSUME IInv, Output!Ready, UNCHANGED <<input, registry>>
    PROVE  IInv'
<1>0. OutputTypes
  BY DEF IInv, OutputPart, OutputInv
<1>1. Output!InHand("start output", "ready") /\ Output!Finish
  BY DEF Output!Ready
<1>a. PICK c \in Playbacks : c = running.object
  BY <1>1, OutputInHand
<1>2. output_holder = c /\ output_device.user = c
  BY <1>a, <1>1, OutputInHand DEF Ordered
<1> DEFINE changed == [output_object EXCEPT ![c].phase = "prerolling"]
<1>3. /\ Output!Objects(changed)
      /\ UNCHANGED <<output_node, output_selection, playback, drawing, wanted, output_holder, listed,
                     output_device, path, frames, observed, output_sdk>>
  BY <1>a DEF Output!Ready, Output!output_node, Output!media
<1>4. /\ changed \in [Playbacks -> Noted]
      /\ changed[c].phase = "prerolling"
      /\ changed[c].stop_requested = output_object[c].stop_requested
      /\ \A p \in Playbacks : p # c => changed[p] = output_object[p]
  <2>1. output_object \in [Playbacks -> Noted] /\ output_object[c] \in Noted
    BY <1>0 DEF OutputTypes
  <2> QED BY <2>1 DEF Noted, Output!Phases
<1>5. frames \in [Playbacks -> Frames]
  BY <1>0 DEF OutputTypes
<1> HIDE DEF changed
<1> QED BY <1>a, <1>1, <1>2, <1>3, <1>4, <1>5, OutputFinishes

LEMMA OutputPumpBegins ==
    ASSUME IInv, Output!PumpBegins, UNCHANGED <<input, registry>>
    PROVE  IInv'
<1>0. OutputTypes
  BY DEF IInv, OutputPart, OutputInv
<1>1. Output!InHand("pump output", "begin")
  BY DEF Output!PumpBegins
<1>a. PICK c \in Playbacks : c = running.object
  BY <1>1, OutputInHand
<1>2. /\ Hand(running, c) /\ running.op = "pump output" /\ at = "begin"
      /\ Booked(c) /\ Filled(c) /\ Ordered(c)
  BY <1>a, <1>1, OutputInHand
<1> DEFINE changed == [output_object EXCEPT ![c].pump_posted = FALSE]
<1> DEFINE goes == output_object[c].phase = "prerolling" /\ ~output_object[c].stop_requested
<1>3. /\ IF goes THEN Output!Reach("pumping") ELSE Output!Finish
      /\ Output!Objects(changed)
      /\ UNCHANGED <<output_node, output_selection, playback, drawing, wanted, output_holder, listed,
                     output_device, path, frames, observed, output_sdk>>
  BY <1>a DEF Output!PumpBegins, Output!Object, Output!output_node, Output!media
<1>4. /\ changed \in [Playbacks -> Noted]
      /\ changed[c].phase = output_object[c].phase
      /\ changed[c].stop_requested = output_object[c].stop_requested
      /\ \A p \in Playbacks : p # c => changed[p] = output_object[p]
  <2>1. output_object \in [Playbacks -> Noted] /\ output_object[c] \in Noted
    BY <1>0 DEF OutputTypes
  <2> QED BY <2>1 DEF Noted
<1>5. /\ frames \in [Playbacks -> Frames] /\ output_device \in OutputDevices
      /\ path \in [Playbacks -> {"none", "plain", "keyed"}]
  BY <1>0 DEF OutputTypes, OutputDevices
<1> HIDE DEF changed
<1>6. CASE ~goes
  <2>1. Output!Finish
    BY <1>3, <1>6
  <2> QED BY <1>a, <1>1, <1>3, <1>4, <1>5, <2>1, OutputFinishes
<1>7. CASE goes
  <2>1. UNCHANGED <<tasks, running, closing>> /\ at' = "pumping"
    BY <1>3, <1>7 DEF Output!Reach
  <2>2. /\ output_holder = c /\ output_device.user = c
        /\ path[c] # "none" => (output_device.keyer <=> path[c] = "keyed")
    BY <1>2, <1>7 DEF Booked, Filled
  <2>3. ~Dropped(c)
    BY <1>2, <1>3, <2>1, <2>2, HolderIsNotDropped
  <2>4. /\ output_object'[c] = changed[c] /\ output_object' \in [Playbacks -> Noted]
        /\ \A p \in Playbacks : p # c => output_object'[p] = output_object[p] \/ Dropped(p)
    BY <1>3, <1>4, <2>3, AbsentIsNoted, OutputObjects, OutputObjectTypes
  <2>5. output_object'[c].phase # "running"
    BY <1>4, <1>7, <2>4
  <2> QED BY <1>a, <1>1, <1>3, <1>4, <1>5, <2>1, <2>2, <2>4, <2>5, OutputGoesOn
<1> QED BY <1>6, <1>7

\* collect_completed_readbacks, of a playback's frames.
LEMMA OutputCollected ==
    ASSUME NEW f \in Frames, NEW g, g = Output!Collected(f)
    PROVE  /\ g \in Frames /\ g.scheduled = f.scheduled /\ g.shown = f.shown /\ g.queued \in Nat
           /\ \A left \in 0..g.queued, on_air \in BOOLEAN, scheduled \in 0..Target :
                 [g EXCEPT !.queued = left, !.shown = on_air, !.scheduled = scheduled] \in Frames
<1> DEFINE n == IF f.queued + f.ready > Output!Capacity THEN Output!Capacity
                ELSE f.queued + f.ready
<1>1. g = [f EXCEPT !.ready = 0, !.queued = n]
  BY DEF Output!Collected
<1>2. f.queued \in 0..Output!Capacity /\ f.ready \in 0..PipelineBound
  BY DEF Frames
<1>3. n \in 0..Output!Capacity
  BY <1>2, Bounds
<1>4. 0 \in 0..PipelineBound
  BY Bounds
<1> HIDE DEF n
<1>5. g \in Frames /\ g.scheduled = f.scheduled /\ g.shown = f.shown /\ g.queued = n
  BY <1>1, <1>3, <1>4 DEF Frames
<1>6. ASSUME NEW left \in 0..g.queued, NEW on_air \in BOOLEAN, NEW scheduled \in 0..Target
      PROVE  [g EXCEPT !.queued = left, !.shown = on_air, !.scheduled = scheduled] \in Frames
  <2>1. left \in 0..Output!Capacity
    BY <1>3, <1>5, Bounds
  <2> QED BY <1>5, <2>1 DEF Frames
<1>7. n \in Nat
  BY <1>3, Bounds
<1> QED BY <1>5, <1>6, <1>7

LEMMA OutputPumpSchedules ==
    ASSUME IInv, Output!PumpSchedules, UNCHANGED <<input, registry>>
    PROVE  IInv'
<1>0. OutputTypes
  BY DEF IInv, OutputPart, OutputInv
<1>1. Output!InHand("pump output", "pumping")
  BY DEF Output!PumpSchedules
<1>a. PICK c \in Playbacks : c = running.object
  BY <1>1, OutputInHand
<1>b. PICK f : f = Output!Collected(frames[c])
  OBVIOUS
<1>2. /\ Hand(running, c) /\ running.op = "pump output" /\ at = "pumping"
      /\ Booked(c) /\ Filled(c) /\ Ordered(c) /\ output_holder = c /\ output_device.user = c
      /\ output_object[c].phase # "running"
  BY <1>a, <1>1, OutputInHand DEF Ordered
<1>3. UNCHANGED <<output_node, output_selection, playback, drawing, wanted, output_holder, listed,
                  output_device, path, observed, output_sdk>>
  BY DEF Output!PumpSchedules, Output!output_node
<1>4. /\ frames \in [Playbacks -> Frames] /\ output_device \in OutputDevices
      /\ path \in [Playbacks -> {"none", "plain", "keyed"}]
      /\ output_object \in [Playbacks -> Noted] /\ frames[c] \in Frames
  BY <1>0 DEF OutputTypes, OutputDevices
<1>5. /\ f \in Frames /\ f.scheduled = frames[c].scheduled /\ f.shown = frames[c].shown
      /\ f.queued \in Nat
      /\ \A left \in 0..f.queued, on_air \in BOOLEAN, scheduled \in 0..Target :
            [f EXCEPT !.queued = left, !.shown = on_air, !.scheduled = scheduled] \in Frames
  BY <1>b, <1>4, OutputCollected
<1>6. ASSUME frames' = [frames EXCEPT ![c] = f], Output!Finish, Output!Objects(output_object)
      PROVE  IInv'
  <2>1. /\ frames' \in [Playbacks -> Frames] /\ frames'[c] = f
        /\ \A p \in Playbacks : p # c => frames'[p] = frames[p]
    BY <1>4, <1>5, <1>6
  <2> QED BY <1>a, <1>1, <1>3, <1>4, <1>5, <1>6, <2>1, OutputFinishes
<1>7. ASSUME NEW left \in 0..f.queued - 1, NEW scheduled \in 0..Target,
             frames' = [frames EXCEPT ![c] =
                           [f EXCEPT !.queued = left, !.shown = TRUE, !.scheduled = scheduled]],
             IF scheduled = Target
             THEN /\ output_object' = [output_object EXCEPT ![c].phase = "running"]
                  /\ Output!Reach("playing")
             ELSE /\ tasks' = Output!Asked(c, "fail output")
                  /\ running' = None /\ at' = "begin" /\ UNCHANGED closing
                  /\ output_object' = Output!Stopping(c)
      PROVE  IInv'
  <2> DEFINE g == [f EXCEPT !.queued = left, !.shown = TRUE, !.scheduled = scheduled]
  <2>1. left \in 0..f.queued
    <3>1. \A n \in Nat : \A l \in 0..n - 1 : l \in 0..n
      OBVIOUS
    <3> QED BY ONLY <1>5, <3>1, left \in 0..f.queued - 1
  <2>2. g \in Frames /\ g.shown /\ g.scheduled = scheduled
    BY <1>5, <2>1 DEF Frames
  <2>3. frames' = [frames EXCEPT ![c] = g]
    BY <1>7
  <2> HIDE DEF g
  <2>4. /\ frames' \in [Playbacks -> Frames] /\ frames'[c] = g
        /\ \A p \in Playbacks : p # c => frames'[p] = frames[p]
    BY <1>4, <2>2, <2>3
  <2>5. CASE scheduled = Target
    <3>1. /\ UNCHANGED <<tasks, running, closing>> /\ at' = "playing"
      BY <1>7, <2>5 DEF Output!Reach
    <3>2. /\ output_object' \in [Playbacks -> Noted] /\ output_object'[c].phase = "running"
          /\ output_object'[c].stop_requested = output_object[c].stop_requested
          /\ \A p \in Playbacks : p # c => output_object'[p] = output_object[p]
      <4>1. output_object[c] \in Noted
        BY <1>4
      <4> QED BY <1>4, <1>7, <2>5, <4>1 DEF Noted, Output!Phases
    <3>3. frames'[c].scheduled = Target /\ frames'[c].scheduled > 0 /\ frames'[c].shown
      BY <2>2, <2>4, <2>5, Bounds
    <3>4. path[c] # "none" => (output_device.keyer <=> path[c] = "keyed")
      BY <1>2 DEF Filled
    <3> QED BY <1>a, <1>1, <1>2, <1>3, <1>4, <2>4, <3>1, <3>2, <3>3, <3>4, OutputGoesOn
  <2>6. CASE scheduled # Target
    <3>1. /\ tasks' = Output!Asked(c, "fail output")
          /\ running' = None /\ at' = "begin" /\ UNCHANGED closing
          /\ output_object' = Output!Stopping(c)
      BY <1>7, <2>6
    <3> QED BY <1>a, <1>1, <1>2, <1>3, <2>2, <2>4, <3>1, OutputFails
  <2> QED BY <2>5, <2>6
<1> QED BY <1>a, <1>b, <1>6, <1>7, ZenonT(60) DEF Output!PumpSchedules

LEMMA OutputPumpPlays ==
    ASSUME IInv, Output!PumpPlays, UNCHANGED <<input, registry>>
    PROVE  IInv'
<1>0. OutputTypes
  BY DEF IInv, OutputPart, OutputInv
<1>1. Output!InHand("pump output", "playing")
  BY DEF Output!PumpPlays
<1>a. PICK c \in Playbacks : c = running.object
  BY <1>1, OutputInHand
<1>2. output_device.user = c /\ frames[c].shown
  BY <1>a, <1>1, OutputInHand DEF Ordered
<1>3. UNCHANGED <<output_node, output_selection, playback, drawing, wanted, output_holder, listed,
                  path, frames, observed, output_sdk>>
  BY DEF Output!PumpPlays, Output!output_node, Output!media
<1>4. output_object \in [Playbacks -> Noted] /\ frames \in [Playbacks -> Frames]
  BY <1>0 DEF OutputTypes
<1>5. ASSUME output_device' = [output_device EXCEPT !.playing = TRUE], Output!Finish,
             Output!Objects(output_object)
      PROVE  IInv'
  BY <1>a, <1>1, <1>2, <1>3, <1>4, <1>5, OutputFinishes
<1>6. ASSUME tasks' = Output!Asked(c, "fail output"), running' = None, at' = "begin",
             UNCHANGED <<closing, output_device>>, output_object' = Output!Stopping(c)
      PROVE  IInv'
  BY <1>a, <1>1, <1>3, <1>4, <1>6, OutputFails
<1> QED BY <1>a, <1>5, <1>6 DEF Output!PumpPlays

LEMMA OutputRetireControl ==
    ASSUME IInv, Output!RetireControl, UNCHANGED <<input, registry>>
    PROVE  IInv'
<1>0. OutputTypes
  BY DEF IInv, OutputPart, OutputInv
<1>1. PICK op \in Ending, final \in {"stopped", "failed"} :
         /\ Output!InHand(op, "begin") /\ Output!Retire(output_object, output_device, final)
         /\ UNCHANGED path
  BY DEF Output!RetireControl, Ending
<1>a. PICK c \in Playbacks : c = running.object
  BY <1>1, OutputInHand
<1>2. /\ Hand(running, c) /\ running.op \in Ending /\ Booked(c) /\ Filled(c) /\ Ordered(c)
  <2>1. running.op = op
    BY <1>1 DEF Output!InHand
  <2>2. Hand(running, c) /\ Booked(c) /\ Filled(c) /\ Ordered(c)
    BY <1>a, <1>1, OutputInHand
  <2> QED BY <2>1, <2>2
<1>3. /\ output_object[c].stop_requested
      /\ path[c] # "none" => output_holder = c
      /\ path[c] # "none" /\ output_device.user = c => (output_device.keyer <=> path[c] = "keyed")
  BY <1>2 DEF Ordered, Booked, Filled
<1>4. /\ output_device \in OutputDevices /\ output_object \in [Playbacks -> Noted]
      /\ path \in [Playbacks -> {"none", "plain", "keyed"}]
  BY <1>0 DEF OutputTypes, OutputDevices
<1> QED BY <1>a, <1>1, <1>3, <1>4, OutputRetires

LEMMA OutputControl ==
    ASSUME IInv, Output!Control, UNCHANGED <<input, registry>>
    PROVE  IInv'
BY OutputStartControl, OutputStartEnds, OutputReady, OutputPumpBegins, OutputPumpSchedules,
   OutputPumpPlays, OutputRetireControl, OutputRetireEnds DEF Output!Control

-----------------------------------------------------------------------------
(* The callbacks of the output *)

LEMMA OutputFrameCompletes ==
    ASSUME IInv, Output!FrameCompletes, UNCHANGED <<input, registry>>
    PROVE  IInv'
<1>0. OutputTypes /\ DeviceInv
  BY DEF IInv, OutputPart, OutputInv
<1>a. PICK c \in Playbacks : c = output_device.callback
  BY <1>0 DEF OutputTypes, Output!FrameCompletes
<1>1. /\ output_sdk' = c /\ output_object[c].phase = "running" /\ frames[c].scheduled > 0
      /\ UNCHANGED <<executor, output_node, output_selection, playback, drawing, output_object, wanted,
                     output_holder, listed, output_device, path, frames, observed>>
  BY <1>a DEF Output!FrameCompletes, Output!executor, executor, Output!output_node, Output!media
<1>2. OutputUses(c)
  BY <1>1 DEF OutputUses, executor
<1>3. OutputTypes' /\ DeviceInv'
  BY <1>0, <1>1 DEF OutputTypes, DeviceInv
<1>4. \A p \in Playbacks : p # c => Same(p)
  BY <1>1 DEF Same
<1>5. PlaybackInv(c)'
  <2>0. Booked(c) /\ Kept(c) /\ Filled(c) /\ Ordered(c)
    BY DEF IInv, OutputPart, OutputInv, PlaybackInv
  <2>1. Booked(c)' /\ Kept(c)'
    BY <1>1, <2>0 DEF Booked, Kept, Retiring, executor
  <2>2. Filled(c)'
    BY <1>1, <2>0 DEF Filled
  <2>3. Ordered(c)'
    BY <1>1, <2>0 DEF Ordered, Starting, executor
  <2> QED BY <2>1, <2>2, <2>3 DEF PlaybackInv
<1> QED BY <1>1, <1>2, <1>3, <1>4, <1>5, OutputAlone

\* A completion that comes late, or fills the schedule up again.
LEMMA OutputCompleted ==
    ASSUME IInv, NEW c \in Playbacks, output_sdk = c, output_sdk' = None,
           NEW changed \in {output_object, Output!Stopping(c)}, Output!Objects(changed),
           tasks' = IF changed = output_object THEN tasks ELSE Output!Asked(c, "fail output"),
           changed # output_object => output_device.user = c,
           frames' \in [Playbacks -> Frames], \A p \in Playbacks : p # c => frames'[p] = frames[p],
           frames'[c].shown = frames[c].shown,
           frames'[c].scheduled > 0 => frames[c].scheduled > 0,
           output_object[c].phase = "running" =>
              \/ frames'[c].scheduled \in {frames[c].scheduled, Target}
              \/ changed[c].stop_requested,
           observed' \in [Playbacks -> BOOLEAN],
           UNCHANGED <<running, at, closing, output_node, output_selection, playback, drawing, wanted,
                       output_holder, listed, output_device, path>>,
           UNCHANGED <<input, registry>>
    PROVE  IInv'
<1>0. ExecutorInv /\ OutputTypes /\ DeviceInv
  BY DEF IInv, OutputPart, OutputInv
<1>1. /\ c # None /\ output_object[c].phase # "none"
      /\ Booked(c) /\ Kept(c) /\ Filled(c) /\ Ordered(c)
  BY Constants DEF IInv, OutputPart, OutputInv, PlaybackInv, Kept
<1>2. /\ tasks' = tasks \/ \E w \in OutputWork : w.object = c /\ tasks' = Append(tasks, w)
      /\ \A o : HasTask(tasks, o, c) => HasTask(tasks', o, c)
      /\ \A o : o \notin Ending => (HasTask(tasks', o, c) <=> HasTask(tasks, o, c))
      /\ tasks' = tasks \/ output_object[c].stop_requested \/ HasTask(tasks', "fail output", c)
      /\ ComesFirst(tasks', running', "start output", c)
      /\ changed # output_object => output_object[c].stop_requested \/ HasTask(tasks', "fail output", c)
  <2>1. CASE tasks' = tasks /\ changed = output_object
    BY <1>1, <2>1 DEF Ordered
  <2>2. CASE tasks' = Output!Asked(c, "fail output") /\ changed # output_object
    <3>1. output_holder = c
      BY <1>0, <1>1, <2>2 DEF DeviceInv
    <3> QED BY <1>1, <2>2, <3>1, OutputAsked DEF Ending, Ordered
  <2> QED BY <2>1, <2>2
<1>3. /\ changed \in [Playbacks -> Noted]
      /\ \A p \in Playbacks : p # c => changed[p] = output_object[p]
      /\ changed[c].phase \in {output_object[c].phase, "stopping"}
      /\ IF output_object[c].stop_requested \/ changed = output_object
         THEN changed[c] = output_object[c]
         ELSE changed[c].phase = "stopping" /\ changed[c].stop_requested
  <2>1. output_object \in [Playbacks -> Noted]
    BY <1>0 DEF OutputTypes
  <2>2. CASE changed = output_object
    BY <2>1, <2>2
  <2>3. CASE changed = Output!Stopping(c)
    <3>1. /\ changed \in [Playbacks -> Noted]
          /\ \A p \in Playbacks : p # c => changed[p] = output_object[p]
          /\ changed[c].stop_requested
          /\ IF output_object[c].stop_requested THEN changed[c] = output_object[c]
             ELSE changed[c].phase = "stopping"
      BY ONLY <1>1, <2>1, <2>3, c \in Playbacks, OutputStopping
    <3> QED BY <3>1
  <2> QED BY <2>2, <2>3
<1>4. OutputUses(c)
  BY <1>2 DEF OutputUses
<1>5. OutputTypes'
  <2>1. output_object' \in [Playbacks -> Noted]
    BY <1>3, AbsentIsNoted, OutputObjectTypes
  <2> QED BY <1>0, <2>1 DEF OutputTypes
<1>6. DeviceInv'
  <2>1. \A p \in Playbacks : frames'[p].shown = frames[p].shown
    OBVIOUS
  <2> QED BY <1>0, <2>1 DEF DeviceInv, OutputTypes
<1>7. ASSUME NEW p \in Playbacks, p # c PROVE Same(p)
  <2>1. output_object'[p] = output_object[p] \/ Dropped(p)
    BY <1>3, <1>7, OutputObjects
  <2> QED BY <1>7, <2>1, Constants DEF Same
<1>8. PlaybackInv(c)'
  <2>1. output_holder = c => ~Dropped(c)
    BY <1>1, <1>2, HolderIsNotDropped DEF Ending
  <2>2. CASE Dropped(c)
    BY <1>1, <2>1, <2>2, DroppedIsFree DEF Booked
  <2>3. CASE output_object'[c] = changed[c]
    <3>1. Booked(c)'
      BY <1>1, <1>2, <1>3, <2>3 DEF Booked, Retiring, Ending
    <3>2. Kept(c)'
      BY <1>1, <1>3, <2>3 DEF Kept
    <3>3. Filled(c)'
      BY <1>1, <1>3, <2>3 DEF Filled
    <3>4. Ordered(c)'
      BY <1>1, <1>2, <1>3, <2>3 DEF Ordered, Starting, Ending
    <3> QED BY <3>1, <3>2, <3>3, <3>4 DEF PlaybackInv
  <2> QED BY <2>2, <2>3, OutputObjects
<1> QED BY <1>4, <1>5, <1>6, <1>7, <1>8, OutputAlone

LEMMA OutputReplenish ==
    ASSUME IInv, Output!Replenish, UNCHANGED <<input, registry>>
    PROVE  IInv'
<1>0. OutputTypes /\ DeviceInv
  BY DEF IInv, OutputPart, OutputInv
<1>a. PICK c \in Playbacks : c = output_sdk
  BY <1>0 DEF OutputTypes, Output!Replenish
<1>1. /\ Filled(c) /\ output_object[c].phase # "none"
      /\ frames \in [Playbacks -> Frames] /\ observed \in [Playbacks -> BOOLEAN]
      /\ output_object \in [Playbacks -> Noted] /\ frames[c] \in Frames
  BY <1>0, <1>a, Constants DEF IInv, OutputPart, OutputInv, PlaybackInv, Kept, OutputTypes
<1>2. /\ output_sdk' = None
      /\ UNCHANGED <<running, at, closing, output_node, output_selection, playback, drawing, wanted,
                     output_holder, listed, output_device, path>>
  BY DEF Output!Replenish, Output!output_node
<1>3. ASSUME UNCHANGED <<tasks, frames, observed>>, Output!Objects(output_object)
      PROVE  IInv'
  BY <1>a, <1>1, <1>2, <1>3, OutputCompleted
<1>4. ASSUME output_object[c].phase = "running",
             NEW timed \in BOOLEAN, NEW refilled \in BOOLEAN,
             NEW left \in 0..Output!Collected(frames[c]).queued,
             observed' = [observed EXCEPT ![c] = timed \/ @],
             frames' = [frames EXCEPT ![c] =
                           [Output!Completed(c, timed, refilled) EXCEPT !.queued = left]],
             tasks' = (IF refilled THEN tasks ELSE Output!Asked(c, "fail output")),
             Output!Objects(IF refilled THEN output_object ELSE Output!Stopping(c))
      PROVE  IInv'
  <2>1. PICK f : f = Output!Collected(frames[c])
    OBVIOUS
  <2>2. /\ f \in Frames /\ f.scheduled = frames[c].scheduled /\ f.shown = frames[c].shown
        /\ \A on_air \in BOOLEAN, scheduled \in 0..Target :
              [f EXCEPT !.queued = left, !.shown = on_air, !.scheduled = scheduled] \in Frames
    BY <1>1, <1>4, <2>1, OutputCollected
  <2> DEFINE n == IF refilled THEN Target ELSE f.scheduled - 1
  <2>3. n \in 0..Target /\ (n > 0 => frames[c].scheduled > 0) /\ (refilled => n = Target)
        /\ output_device.user = c
    <3>1. frames[c].scheduled > 0 /\ frames[c].scheduled \in 0..Target /\ output_device.user = c
      BY <1>a, <1>1, <1>4 DEF Filled, Frames
    <3>2. Target \in 0..Target /\ \A s \in 0..Target : s > 0 => s - 1 \in 0..Target
      BY Bounds
    <3>3. f.scheduled > 0 /\ f.scheduled \in 0..Target
      BY <2>2, <3>1
    <3>4. f.scheduled - 1 \in 0..Target
      BY <3>2, <3>3
    <3> QED BY <3>1, <3>2, <3>4
  <2>4. frames' = [frames EXCEPT ![c] = [f EXCEPT !.scheduled = n, !.queued = left]]
    BY <1>4, <2>1 DEF Output!Completed
  <2> HIDE DEF n
  <2>5. [f EXCEPT !.scheduled = n, !.queued = left]
           = [f EXCEPT !.queued = left, !.shown = f.shown, !.scheduled = n]
    BY <2>2 DEF Frames
  <2>6. f.shown \in BOOLEAN
    BY <2>2 DEF Frames
  <2> DEFINE g == [f EXCEPT !.queued = left, !.shown = f.shown, !.scheduled = n]
  <2>7. g \in Frames /\ g.shown = frames[c].shown /\ g.scheduled = n
    BY <2>2, <2>3, <2>6 DEF Frames
  <2>8. frames' = [frames EXCEPT ![c] = g]
    BY <2>4, <2>5
  <2> HIDE DEF g
  <2>9. /\ frames' \in [Playbacks -> Frames] /\ frames'[c] = g
        /\ \A p \in Playbacks : p # c => frames'[p] = frames[p]
        /\ observed' \in [Playbacks -> BOOLEAN]
    BY <1>1, <1>4, <2>7, <2>8
  <2>10. CASE refilled
    BY <1>a, <1>1, <1>2, <1>4, <2>3, <2>7, <2>9, <2>10, OutputCompleted
  <2>11. CASE ~refilled
    <3>1. /\ tasks' = Output!Asked(c, "fail output") /\ Output!Objects(Output!Stopping(c))
      BY <1>4, <2>11
    <3>2. PICK changed : changed = Output!Stopping(c)
      OBVIOUS
    <3>3. changed[c].stop_requested
      BY ONLY <1>1, <3>2, c \in Playbacks, OutputStopping
    <3>4. tasks' = IF changed = output_object THEN tasks ELSE Output!Asked(c, "fail output")
      BY <3>1, <3>3 DEF Output!Asked
    <3>5. Output!Objects(changed) /\ changed \in {output_object, Output!Stopping(c)}
      BY <3>1, <3>2
    <3> QED BY <1>a, <1>1, <1>2, <2>3, <2>7, <2>9, <3>3, <3>4, <3>5, OutputCompleted
  <2> QED BY <2>10, <2>11
<1> QED BY <1>a, <1>3, <1>4 DEF Output!Replenish

LEMMA OutputCallback ==
    ASSUME IInv, Output!Callback, UNCHANGED <<input, registry>>
    PROVE  IInv'
BY OutputFrameCompletes, OutputReplenish DEF Output!Callback

-----------------------------------------------------------------------------
(* The executor and the registry *)

\* The executor takes the next task.
LEMMA ExecutorTakes ==
    ASSUME IInv, Take, UNCHANGED <<input, output, listed, registry>>
    PROVE  IInv'
<1>0. ExecutorInv /\ InputTypes /\ InputInv /\ OutputTypes /\ DeviceInv
  BY DEF IInv, InputPart, OutputPart, OutputInv
<1>1. /\ running = None /\ tasks # <<>> /\ tasks \in Seq(Work)
      /\ running' = Head(tasks) /\ tasks' = Tail(tasks) /\ at' = "begin" /\ UNCHANGED closing
  BY <1>0 DEF Take, ExecutorInv
<1>2. Head(tasks) \in Work /\ Tail(tasks) \in Seq(Work)
  BY <1>1
<1>3. Head(tasks) # None /\ \A c : Hand(running', c) <=> Head(tasks).object = c
  BY <1>1, <1>2, Constants DEF Hand
<1>4. ASSUME NEW c
      PROVE  /\ Named(tasks, c) <=> Named(tasks', c) \/ Hand(running', c)
             /\ \A op : HasTask(tasks, op, c) <=>
                           HasTask(tasks', op, c) \/ (running'.op = op /\ Hand(running', c))
             /\ \A op : ComesFirst(tasks, running, op, c) => ComesFirst(tasks', running', op, c)
  <2>1. /\ Named(tasks, c) <=> Named(Tail(tasks), c) \/ Head(tasks).object = c
        /\ \A op : HasTask(tasks, op, c) <=>
                      HasTask(Tail(tasks), op, c) \/ (Head(tasks).op = op /\ Head(tasks).object = c)
        /\ \A R, op : ComesFirst(tasks, R, op, c) => ComesFirst(Tail(tasks), Head(tasks), op, c)
    BY <1>1, Taking, Zenon
  <2> QED BY <1>1, <1>3, <2>1
<1>5. ASSUME NEW c PROVE ~Hand(running, c)
  BY <1>1 DEF Hand
<1>6. at' \notin Modes /\ at' \notin {"enabled", "checking", "deciding", "stopped", "failed"}
      /\ at' \notin {"initialized", "ready", "pumping", "playing"}
  BY <1>1, Constants
<1>7. ExecutorInv'
  BY <1>0, <1>1, <1>2 DEF ExecutorInv, output
<1>8. InputTypes' /\ OutputTypes' /\ DeviceInv'
  BY <1>0 DEF InputTypes, OutputTypes, DeviceInv, input, output, input_node, buffers
<1>9. ASSUME NEW c \in Captures PROVE (Reserved(c) /\ Alive(c) /\ Tasked(c))'
  <2>0. Reserved(c) /\ Alive(c) /\ Tasked(c)
    BY <1>0 DEF InputInv
  <2>1. Reserved(c)'
    BY <2>0 DEF Reserved, input, buffers
  <2>2. Alive(c)'
    BY <1>4, <2>0 DEF Alive, Unused, input, input_node
  <2>3. Starting("start input", c)' <=> Starting("start input", c)
    BY <1>1, <1>4, <1>5 DEF Starting
  <2>4. Tasked(c)'
    BY <1>4, <1>6, <2>0, <2>3 DEF Tasked, input
  <2> QED BY <2>1, <2>2, <2>4
<1>10. InputInv'
  BY <1>0, <1>9 DEF InputInv, input, buffers
<1>11. ASSUME NEW p \in Playbacks PROVE PlaybackInv(p)'
  <2>0. Booked(p) /\ Kept(p) /\ Filled(p) /\ Ordered(p)
    BY DEF IInv, OutputPart, OutputInv, PlaybackInv
  <2>1. Retiring(p)' <=> Retiring(p)
    BY <1>4, <1>5, <1>6 DEF Retiring
  <2>2. Booked(p)'
    BY <2>0, <2>1 DEF Booked, output
  <2>3. Kept(p)'
    BY <1>4, <2>0 DEF Kept, Unused, output
  <2>4. Filled(p)'
    BY <2>0 DEF Filled, output
  <2>5. Starting("start output", p)' <=> Starting("start output", p)
    BY <1>1, <1>4, <1>5 DEF Starting
  <2>6. Ordered(p)'
    BY <1>4, <1>6, <2>0, <2>5 DEF Ordered, output
  <2> QED BY <2>2, <2>3, <2>4, <2>6 DEF PlaybackInv
<1> QED BY <1>7, <1>8, <1>10, <1>11 DEF IInv, InputPart, OutputPart, OutputInv

\* The registry goes: nobody has the output any more, as nobody would give it back.
LEMMA RegistryGoes ==
    ASSUME IInv, Shutdown, UNCHANGED <<listed, input, output>>
    PROVE  IInv'
<1>0. ExecutorInv /\ InputPart /\ OutputPart /\ OutputTypes /\ DeviceInv
  BY DEF IInv, OutputPart, OutputInv
<1>1. /\ output_node = "gone" /\ tasks = <<>> /\ running = None
      /\ registry' = FALSE /\ closing' = TRUE /\ UNCHANGED <<tasks, running, at>>
  BY DEF Shutdown, NodesAreGone
<1>2. output_holder = None
  <2> SUFFICES ASSUME NEW p \in Playbacks, output_holder = p PROVE FALSE
    BY <1>0 DEF OutputTypes
  <2>1. Booked(p)
    BY DEF IInv, OutputPart, OutputInv, PlaybackInv
  <2>2. ~Retiring(p)
    BY <1>1 DEF Retiring, HasTask, Hand
  <2>3. playback # p
    BY <1>0, <1>1, Constants DEF DeviceInv
  <2> QED BY <2>1, <2>2, <2>3 DEF Booked
<1>3. ExecutorInv'
  BY <1>0, <1>1, <1>2 DEF ExecutorInv, output
<1>4. Elsewhere(Playbacks) /\ Elsewhere(Captures)
  BY <1>1 DEF Elsewhere
<1>5. listed' \in BOOLEAN
  BY <1>0 DEF InputPart, InputTypes
<1> QED BY <1>0, <1>3, <1>4, <1>5, OutputUndisturbed, InputUndisturbed DEF IInv

\* A step that changes nothing.
LEMMA Stutters ==
    ASSUME IInv, UNCHANGED system_vars
    PROVE  IInv'
<1>1. /\ UNCHANGED <<executor, input, listed, output, registry>>
      /\ ExecutorInv /\ InputPart /\ OutputPart /\ listed \in BOOLEAN
  BY DEF system_vars, vars, input_vars, input, IInv, InputPart, InputTypes
<1>2. UNCHANGED <<tasks, running, at, closing>>
  BY <1>1 DEF executor
<1>3. ExecutorInv'
  BY <1>1, <1>2 DEF ExecutorInv, output
<1>4. Elsewhere(Playbacks) /\ Elsewhere(Captures)
  BY <1>2 DEF Elsewhere
<1> QED BY <1>1, <1>3, <1>4, OutputUndisturbed, InputUndisturbed DEF IInv

-----------------------------------------------------------------------------
(* The theorems *)

\* What the inductive invariant says of what the runs check.
LEMMA IInvIsEnough == IInv => DevicesHaveOneUser /\ PlaybacksFollowTheirSettings
<1> SUFFICES ASSUME IInv PROVE DevicesHaveOneUser /\ PlaybacksFollowTheirSettings
  OBVIOUS
<1>0. ExecutorInv /\ InputTypes /\ InputInv /\ OutputTypes /\ DeviceInv
  BY DEF IInv, InputPart, OutputPart, OutputInv
<1>1. \A p \in Playbacks : Booked(p) /\ Filled(p) /\ p # None
  BY Constants DEF IInv, OutputPart, OutputInv, PlaybackInv
<1>2. TypeOK
  <2>1. ASSUME NEW c \in Captures
        PROVE  /\ object[c].phase \in Phases /\ object[c].stop_requested \in BOOLEAN
               /\ object[c].terminal \in {"stopped", "failed"}
               /\ {object[c].pending, object[c].mode} \subseteq Modes \cup {None}
    <3>1. object[c] \in Recorded
      BY <1>0 DEF InputTypes
    <3> QED BY <3>1 DEF Recorded
  <2>2. device.user \in Captures \cup {None} /\ (device.streaming <=> device.user # None)
    BY <1>0 DEF InputTypes, InputInv
  <2> QED BY <1>0, <2>1, <2>2 DEF TypeOK, InputTypes
<1>3. Output!TypeOK
  <2>1. ASSUME NEW p \in Playbacks
        PROVE  /\ output_object[p].phase \in Output!Phases
               /\ {output_object[p].stop_requested, output_object[p].pump_posted, observed[p]}
                     \subseteq BOOLEAN
               /\ wanted[p] \in Output!Selections /\ path[p] \in {"none", "plain", "keyed"}
               /\ frames[p].ready \in 0..PipelineBound /\ frames[p].queued \in 0..Output!Capacity
               /\ frames[p].scheduled \in 0..Target
    <3>1. output_object[p] \in Noted /\ frames[p] \in Frames
      BY <1>0 DEF OutputTypes
    <3> QED BY <1>0, <3>1 DEF Noted, Frames, OutputTypes
  <2>2. /\ {output_device.user, output_device.callback} \subseteq Playbacks \cup {None}
        /\ {output_device.playing, output_device.keyer} \subseteq BOOLEAN
    BY <1>0 DEF OutputTypes
  <2>3. listed \in BOOLEAN
    BY <1>0 DEF InputTypes
  <2> QED BY <1>0, <2>1, <2>2, <2>3 DEF Output!TypeOK, OutputTypes
<1>4. OneUserOfTheInput /\ BuffersHaveTheirPool
  BY <1>0 DEF InputInv, Reserved, OneUserOfTheInput, BuffersHaveTheirPool
<1>5. Output!OneUserOfTheOutput
  BY <1>0, <1>1, SMTT(30) DEF Booked, DeviceInv, Output!OneUserOfTheOutput
<1>6. output_holder # None => registry
  BY <1>0 DEF ExecutorInv
<1>7. Output!KeyerMatchesThePath
  BY <1>1 DEF Filled, Output!KeyerMatchesThePath
<1>8. Output!RunningOutputsAreFull
  BY <1>1 DEF Filled, Output!RunningOutputsAreFull
<1> QED
  BY <1>2, <1>3, <1>4, <1>5, <1>6, <1>7, <1>8 DEF DevicesHaveOneUser, PlaybacksFollowTheirSettings

\* What the program starts with.
LEMMA InitIsGood == SystemInit => IInv
<1> SUFFICES ASSUME SystemInit PROVE IInv
  OBVIOUS
<1>1. /\ tasks = <<>> /\ running = None /\ at = "begin" /\ closing = FALSE /\ registry = TRUE
      /\ InputInit /\ Output!OutputInit
  BY DEF SystemInit, Init
<1>2. /\ \A c : ~Hand(running, c) /\ ~Named(tasks, c)
      /\ \A op, c : ~HasTask(tasks, op, c) /\ ~Starting(op, c) /\ ComesFirst(tasks, running, op, c)
      /\ \A p : ~Retiring(p)
  BY <1>1 DEF Hand, Named, HasTask, Starting, ComesFirst, Retiring
<1>3. ExecutorInv
  <2>1. <<>> \in Seq(Work)
    OBVIOUS
  <2> QED BY <1>1, <2>1 DEF ExecutorInv, Output!OutputInit
<1>4. InputTypes
  <2>1. object \in [Captures -> Recorded]
    BY <1>1, AbsentIsRecorded DEF InputInit
  <2>2. queued \in [Captures -> 0..QueueBound] /\ lent \in [Captures -> BOOLEAN]
    BY <1>1, Bounds DEF InputInit
  <2> QED BY <1>1, <2>1, <2>2 DEF InputInit, InputTypes, Quiet, NoCall
<1>5. ASSUME NEW c \in Captures PROVE Reserved(c) /\ Alive(c) /\ Tasked(c)
  <2>1. /\ object[c] = Absent /\ pool[c] = "none" /\ ~lent[c] /\ queued[c] = 0 /\ c # None
        /\ capture = None /\ render = None /\ device.callback = None
        /\ sdk.call = "none" /\ sdk.object = None
    BY <1>1, Constants DEF InputInit, Quiet, NoCall
  <2>2. Reserved(c)
    BY <2>1 DEF Reserved, Absent
  <2>3. Alive(c) /\ Tasked(c)
    BY <1>2, <2>1 DEF Alive, Tasked, Unused
  <2> QED BY <2>2, <2>3
<1>6. InputInv
  BY <1>1, <1>5 DEF InputInit, InputInv, Quiet
<1>7. OutputTypes
  <2>1. output_object \in [Playbacks -> Noted]
    BY <1>1, AbsentIsNoted DEF Output!OutputInit
  <2>2. Output!Empty \in Frames
    BY Bounds, SMTT(30) DEF Output!Empty, Frames
  <2>3. /\ frames \in [Playbacks -> Frames] /\ wanted \in [Playbacks -> Output!Selections]
        /\ path \in [Playbacks -> {"none", "plain", "keyed"}] /\ observed \in [Playbacks -> BOOLEAN]
    BY <1>1, <2>2 DEF Output!OutputInit, Output!Selections
  <2>4. output_device \in OutputDevices
    BY <1>1 DEF Output!OutputInit, OutputDevices
  <2>5. /\ output_node \in {"alive", "gone"} /\ output_selection = Unset /\ playback = None
        /\ output_holder = None /\ output_sdk = None /\ drawing = FALSE
    BY <1>1 DEF Output!OutputInit
  <2> QED BY <2>1, <2>3, <2>4, <2>5 DEF OutputTypes, OutputDevices
<1>8. DeviceInv
  BY <1>1 DEF Output!OutputInit, DeviceInv
<1>9. ASSUME NEW p \in Playbacks PROVE PlaybackInv(p)
  <2>1. /\ output_object[p] = Output!Absent /\ path[p] = "none" /\ frames[p].scheduled = 0 /\ p # None
        /\ playback = None /\ output_device.callback = None /\ output_sdk = None
        /\ output_holder = None
    BY <1>1, Constants DEF Output!OutputInit, Output!Empty
  <2>2. Booked(p) /\ Filled(p)
    BY <2>1 DEF Booked, Filled, Output!Absent
  <2>3. Kept(p) /\ Ordered(p)
    BY <1>2, <2>1 DEF Kept, Ordered, Unused
  <2> QED BY <2>2, <2>3 DEF PlaybackInv
<1> QED BY <1>3, <1>4, <1>6, <1>7, <1>8, <1>9 DEF IInv, InputPart, OutputPart, OutputInv

(* The inductive invariant holds whatever the node, the executor, the SDK and  *)
(* the device do.                                                              *)
THEOREM Invariance == SystemSpec => []IInv
<1>1. IInv /\ [SystemNext]_system_vars => IInv'
  <2> SUFFICES ASSUME IInv, [SystemNext]_system_vars PROVE IInv'
    OBVIOUS
  <2> HIDE DEF IInv
  <2>1. ASSUME Node, UNCHANGED <<output, registry>> PROVE IInv'
    BY <2>1, InputNode
  <2>2. ASSUME Callback, UNCHANGED <<output, registry>> PROVE IInv'
    BY <2>2, InputCallback
  <2>3. ASSUME NEW c \in Captures, ReturnBuffers(c), UNCHANGED <<output, registry>> PROVE IInv'
    BY <2>3, InputReturnBuffers
  <2>4. ASSUME Output!Node, UNCHANGED <<input, registry>> PROVE IInv'
    BY <2>4, OutputNode
  <2>5. ASSUME Output!Callback, UNCHANGED <<input, registry>> PROVE IInv'
    BY <2>5, OutputCallback
  <2>6. ASSUME Take, UNCHANGED <<input, output, listed, registry>> PROVE IInv'
    BY <2>6, ExecutorTakes
  <2>7. ASSUME Control, UNCHANGED <<output, listed, registry>> PROVE IInv'
    BY <2>7, InputControl
  <2>8. ASSUME Output!Control, UNCHANGED <<input, listed, registry>> PROVE IInv'
    BY <2>8, OutputControl
  <2>9. ASSUME Discover, UNCHANGED <<output, registry>> PROVE IInv'
    BY <2>9, DeviceListed
  <2>10. ASSUME Shutdown, UNCHANGED <<listed, input, output>> PROVE IInv'
    BY <2>10, RegistryGoes
  <2>11. ASSUME UNCHANGED system_vars PROVE IInv'
    BY <2>11, Stutters
  <2> QED
    BY <2>1, <2>2, <2>3, <2>4, <2>5, <2>6, <2>7, <2>8, <2>9, <2>10, <2>11
    DEF SystemNext, Executor, DeviceChanges
<1> QED BY <1>1, InitIsGood, PTL DEF SystemSpec

(* However the input and the output are switched, fail, lose the device or are *)
(* removed, and wherever the executor and the SDK are: a device has one user in *)
(* each direction, who holds its reservation from before it enables the device *)
(* until nothing is captured, played or reported any more; no buffer outlives  *)
(* its pool; and no output keeps its device longer than the registry lives     *)
(* (device_reservation.hpp, retire_capture and retire_playback).               *)
THEOREM DevicesHaveAUser == SystemSpec => []DevicesHaveOneUser
BY Invariance, IInvIsEnough, PTL

(* While a playback runs that nobody has asked to stop, the device has as many *)
(* frames ahead as its settings ask for, whatever the completions before have  *)
(* been like; and the keyer is on exactly while frames with an alpha channel   *)
(* are shown (output.cpp, scheduled_frame_completed and pump_preroll;          *)
(* output_activation.cpp, start).                                              *)
THEOREM PlaybacksFollow == SystemSpec => []PlaybacksFollowTheirSettings
BY Invariance, IInvIsEnough, PTL

-----------------------------------------------------------------------------
(* What a node shows of DeckLink devices *)

Monitors == [version : Nat, status : Fields, subscribed : BOOLEAN]

-----------------------------------------------------------------------------
(* The inductive invariant *)

\* The list of devices, and where the frame is in following it.
ListInv ==
    /\ callback.op # "none" => callback.device \in Devices
    /\ device_version <= list_version
    /\ place \in {"modes", "showing", "existing"} => selected = option
    /\ NamesFollowTheLists /\ PlaybacksHaveADevice /\ DevicesOfTheirOwnAreListed

\* The monitors: what has been shown of one is of a version it has or had, and one
\* that is to be listed has what its device reports.
MonitorInv ==
    /\ \A d \in Devices : monitor[d].version = 0 => monitor[d].status = NoStatus
    /\ source # NoDevice => status_key.version <= monitor[source].version
    /\ StatusIsOfItsVersion
    /\ \A d \in Devices \ (notified \cup missed) :
           d \in names \/ (callback.op \in {"made", "arrived"} /\ callback.device = d) =>
               monitor[d].status.signal = actual[d].signal

\* The modes of the playback, which are set once, before their version is counted.
ModesInv ==
    /\ session # NoSession => session.phase # "none"
    /\ session.version \in {0, 1}
    /\ session.phase \in {"none", "starting", "publishing"} => session.version = 0
    /\ ~kept /\ modes_key # NoKey =>
           /\ session # NoSession /\ modes_key.version <= session.version
           /\ modes_key.version = 1 /\ place # "showing" => shown.modes = session.modes

ShownInv == DevicesTypeOK /\ ListInv /\ MonitorInv /\ ModesInv

-----------------------------------------------------------------------------
(* The parts depend on what they speak of *)

LEMMA ListsAlone ==
    ASSUME ListInv,
           UNCHANGED <<callback, names, outputs, list_version, name_of, device_version, place,
                       list_changed, option, selected, session, shown.names>>
    PROVE  ListInv'
BY DEF ListInv, NamesFollowTheLists, PlaybacksHaveADevice, DevicesOfTheirOwnAreListed,
       ListsChange, Listed

LEMMA MonitorsAlone ==
    ASSUME MonitorInv,
           UNCHANGED <<monitor, source, status_key, shown.status, notified, missed, names,
                       callback, actual>>
    PROVE  MonitorInv'
BY DEF MonitorInv, StatusIsOfItsVersion

LEMMA ModesAlone ==
    ASSUME ModesInv,
           UNCHANGED <<session, modes_key, kept, shown.modes>>,
           place' = "showing" <=> place = "showing"
    PROVE  ModesInv'
BY DEF ModesInv

-----------------------------------------------------------------------------
(* Monitors *)

\* What is read into a monitor: the version grows with every change, of the
\* status or of nothing.
LEMMA SignalRead ==
    ASSUME NEW m \in Monitors, NEW signal \in Signals \cup {Unknown}
    PROVE  LET r == Reads(m, "signal", signal)
           IN  /\ r \in Monitors /\ r.status.signal = signal
               /\ r = m \/ r.version = m.version + 1
<1> DEFINE t == [m.status EXCEPT !.signal = signal]
           k == m.version + 1
           n == [m EXCEPT !.status = t, !.version = k]
<1>1. t \in Fields /\ t.signal = signal
  BY DEF Monitors, Fields
<1>2. k \in Nat
  BY DEF Monitors
<1>3. Reads(m, "signal", signal) = IF m.status.signal = signal THEN m ELSE n
  BY DEF Reads, Assigned, Monitors
<1> HIDE DEF t, k
<1>4. n \in Monitors
  BY <1>1, <1>2 DEF Monitors
<1>5. n.status = t /\ n.version = k
  BY DEF Monitors
<1> HIDE DEF n
<1> QED BY <1>1, <1>3, <1>4, <1>5 DEF k

LEMMA TemperatureRead ==
    ASSUME NEW m \in Monitors, NEW temperature \in Temperatures \cup {Unknown}
    PROVE  LET r == Reads(m, "temperature", temperature)
           IN  /\ r \in Monitors /\ r.status.signal = m.status.signal
               /\ r = m \/ r.version = m.version + 1
<1> DEFINE t == [m.status EXCEPT !.temperature = temperature]
           k == m.version + 1
           n == [m EXCEPT !.status = t, !.version = k]
<1>1. t \in Fields /\ t.signal = m.status.signal
  BY DEF Monitors, Fields
<1>2. k \in Nat
  BY DEF Monitors
<1>3. Reads(m, "temperature", temperature) =
          IF m.status.temperature = temperature THEN m ELSE n
  BY DEF Reads, Assigned, Monitors
<1> HIDE DEF t, k
<1>4. n \in Monitors
  BY <1>1, <1>2 DEF Monitors
<1>5. n.status = t /\ n.version = k
  BY DEF Monitors
<1> HIDE DEF n
<1> QED BY <1>1, <1>3, <1>4, <1>5 DEF k

\* A monitor that is made has read its device.
LEMMA MadeReads ==
    ASSUME DevicesTypeOK, NEW d \in Devices
    PROVE  /\ Made(d) \in Monitors /\ Made(d).status.signal = actual[d].signal
           /\ Made(d).version = 0 => Made(d).status = NoStatus
<1> DEFINE s == Reads(NoMonitor, "signal", actual[d].signal)
           t == Reads(s, "temperature", actual[d].temperature)
<1>1. /\ actual[d].signal \in Signals \cup {Unknown}
      /\ actual[d].temperature \in Temperatures \cup {Unknown}
  BY DEF DevicesTypeOK, Fields
<1>2. NoMonitor \in Monitors /\ NoMonitor.version = 0 /\ NoMonitor.status = NoStatus
  BY DEF NoMonitor, NoStatus, Monitors, Fields
<1>3. s \in Monitors /\ s.status.signal = actual[d].signal /\ (s = NoMonitor \/ s.version = 1)
  BY <1>1, <1>2, SignalRead
<1> HIDE DEF s
<1>4. t \in Monitors /\ t.status.signal = s.status.signal /\ (t = s \/ t.version = s.version + 1)
  BY <1>1, <1>3, TemperatureRead
<1>5. s.version \in Nat
  BY <1>3 DEF Monitors
<1>6. t = Made(d)
  BY DEF Made, s
<1> HIDE DEF t
<1>7. t.version = 0 => t.status = NoStatus
  BY <1>2, <1>3, <1>4, <1>5
<1> QED BY <1>3, <1>4, <1>6, <1>7

\* A monitor takes in something: the invariant of monitors is kept.
LEMMA MonitorReads ==
    ASSUME ShownInv, NEW d \in Devices, NEW r \in Monitors,
           r = monitor[d] \/ r.version = monitor[d].version + 1,
           monitor' = [monitor EXCEPT ![d] = r],
           UNCHANGED <<source, status_key, shown, names, callback, actual>>,
           notified' \subseteq notified, missed' \subseteq missed,
           notified \subseteq notified' \cup {d}, missed \subseteq missed' \cup {d},
           \/ r.status.signal = monitor[d].status.signal /\ UNCHANGED <<notified, missed>>
           \/ r.status.signal = actual[d].signal
    PROVE  monitor' \in [Devices -> Monitors] /\ MonitorInv'
<1>1. /\ monitor \in [Devices -> Monitors] /\ source \in Devices \cup {NoDevice}
      /\ status_key.version \in Nat
  BY DEF ShownInv, DevicesTypeOK, Monitors, StatusKeys
<1>2. /\ monitor' \in [Devices -> Monitors]
      /\ \A e \in Devices : monitor'[e] = IF e = d THEN r ELSE monitor[e]
  BY <1>1
<1>3. r.version \in Nat /\ \A e \in Devices : monitor[e].version \in Nat
  BY <1>1 DEF Monitors
<1>4. \A e \in Devices : monitor'[e].version = 0 => monitor'[e].status = NoStatus
  BY <1>2, <1>3 DEF ShownInv, MonitorInv
<1>5. source # NoDevice => status_key.version <= monitor'[source].version
  BY <1>1, <1>2, <1>3 DEF ShownInv, MonitorInv
<1>6. StatusIsOfItsVersion'
  BY <1>1, <1>2, <1>3 DEF ShownInv, MonitorInv, StatusIsOfItsVersion
<1>7. \A e \in Devices \ (notified' \cup missed') :
          e \in names \/ (callback.op \in {"made", "arrived"} /\ callback.device = e) =>
              monitor'[e].status.signal = actual[e].signal
  BY <1>2 DEF ShownInv, MonitorInv
<1> QED BY <1>2, <1>4, <1>5, <1>6, <1>7 DEF MonitorInv

LEMMA NotifyKeepsInv == ASSUME ShownInv, NEW d \in Devices, Notify(d) PROVE ShownInv'
<1> DEFINE r == Reads(monitor[d], "signal", actual[d].signal)
<1>1. monitor[d] \in Monitors /\ actual[d].signal \in Signals \cup {Unknown}
  BY DEF ShownInv, DevicesTypeOK, Monitors, Fields
<1>2. /\ r \in Monitors /\ r.status.signal = actual[d].signal
      /\ r = monitor[d] \/ r.version = monitor[d].version + 1
  BY <1>1, SignalRead
<1>3. monitor' = [monitor EXCEPT ![d] = r]
  BY DEF Notify
<1>4. UNCHANGED <<world, callback, lists, worker, view, source>>
  BY DEF Notify
<1>5. notified' = notified \ {d} /\ missed' = missed \ {d}
  BY DEF Notify
<1> HIDE DEF r
<1>6. monitor' \in [Devices -> Monitors] /\ MonitorInv'
  BY <1>2, <1>3, <1>4, <1>5, MonitorReads DEF world, lists, view, fixed
<1>7. DevicesTypeOK'
  BY <1>4, <1>5, <1>6 DEF ShownInv, DevicesTypeOK, Monitors, world, fixed, lists, worker, view
<1>8. ListInv' /\ ModesInv'
  BY <1>4, ListsAlone, ModesAlone DEF ShownInv, world, fixed, lists, view
<1> QED BY <1>6, <1>7, <1>8 DEF ShownInv

LEMMA PollKeepsInv == ShownInv /\ PollStatistics => ShownInv'
<1> SUFFICES ASSUME ShownInv, PollStatistics PROVE ShownInv'
  OBVIOUS
<1> DEFINE d == reading.monitor
           r == Reads(monitor[d], "temperature", reading.temperature)
<1>1. UNCHANGED <<world, callback, lists, notified, view, source, missed>>
  BY DEF PollStatistics
<1>2. ListInv' /\ ModesInv'
  BY <1>1, ListsAlone, ModesAlone DEF ShownInv, world, fixed, lists, view
<1>3. monitor' \in [Devices -> Monitors] /\ MonitorInv'
  <2>1. CASE d \in Devices
    <3>1. monitor[d] \in Monitors /\ reading.temperature \in Temperatures \cup {Unknown}
      BY <2>1 DEF ShownInv, DevicesTypeOK, Monitors
    <3>2. /\ r \in Monitors /\ r.status.signal = monitor[d].status.signal
          /\ r = monitor[d] \/ r.version = monitor[d].version + 1
      BY <3>1, TemperatureRead
    <3>3. monitor' = [monitor EXCEPT ![d] = r]
      BY DEF PollStatistics
    <3> HIDE DEF r, d
    <3> QED BY <1>1, <2>1, <3>2, <3>3, MonitorReads DEF world, lists, view
  <2>2. CASE d \notin Devices
    <3>1. monitor \in [Devices -> Monitors]
      BY DEF ShownInv, DevicesTypeOK, Monitors
    <3>2. monitor' = monitor
      BY <2>2, <3>1 DEF PollStatistics
    <3> QED BY <1>1, <3>1, <3>2, MonitorsAlone DEF ShownInv, world, lists, view
  <2> QED BY <2>1, <2>2
<1>4. copies' \subseteq Devices /\ reading' = NoReading
  BY DEF ShownInv, DevicesTypeOK, PollStatistics
<1>5. DevicesTypeOK'
  BY <1>1, <1>3, <1>4 DEF ShownInv, DevicesTypeOK, Monitors, NoReading, world, fixed, lists, view
<1> QED BY <1>2, <1>3, <1>5 DEF ShownInv

LEMMA ReadingKeepsInv ==
    ShownInv /\ (StartPolling \/ \E d \in Devices : ReadTemperature(d)) => ShownInv'
<1> SUFFICES ASSUME ShownInv, StartPolling \/ \E d \in Devices : ReadTemperature(d) PROVE ShownInv'
  OBVIOUS
<1>1. UNCHANGED <<world, callback, lists, monitor, notified, view, source, missed>>
  BY DEF StartPolling, ReadTemperature
<1>2. ListInv' /\ MonitorInv' /\ ModesInv'
  BY <1>1, ListsAlone, MonitorsAlone, ModesAlone DEF ShownInv, world, fixed, lists, view
<1>3. copies' \subseteq Devices
  BY DEF ShownInv, DevicesTypeOK, StartPolling, ReadTemperature
<1>4. reading' \in [monitor : Devices \cup {NoDevice}, temperature : Temperatures \cup {Unknown}]
  BY DEF ShownInv, DevicesTypeOK, StartPolling, ReadTemperature, Fields
<1>5. DevicesTypeOK'
  BY <1>1, <1>3, <1>4 DEF ShownInv, DevicesTypeOK, world, fixed, lists, view
<1> QED BY <1>2, <1>5 DEF ShownInv

-----------------------------------------------------------------------------
(* discovery_callback *)

LEMMA ArrivedKeepsInv == ASSUME ShownInv, NEW d \in Devices, DeviceArrived(d) PROVE ShownInv'
<1>1. /\ callback.op = "none" /\ callback' = [op |-> "made", device |-> d]
      /\ monitor' = [monitor EXCEPT ![d] = Made(d)]
      /\ notified' = notified \ {d} /\ missed' = missed \ {d}
      /\ source' = (IF source = d THEN NoDevice ELSE source)
      /\ UNCHANGED <<fixed, actual, lists, view>>
  BY DEF DeviceArrived
<1>2. /\ Made(d) \in Monitors /\ Made(d).status.signal = actual[d].signal
      /\ Made(d).version = 0 => Made(d).status = NoStatus
  BY MadeReads DEF ShownInv
<1>3. monitor \in [Devices -> Monitors] /\ source \in Devices \cup {NoDevice}
  BY DEF ShownInv, DevicesTypeOK, Monitors
<1>4. /\ monitor' \in [Devices -> Monitors]
      /\ \A e \in Devices : monitor'[e] = IF e = d THEN Made(d) ELSE monitor[e]
  BY <1>1, <1>2, <1>3
<1>5. MonitorInv'
  <2>1. \A e \in Devices : monitor'[e].version = 0 => monitor'[e].status = NoStatus
    BY <1>2, <1>4 DEF ShownInv, MonitorInv
  <2>2. /\ (source # NoDevice => status_key.version <= monitor[source].version)'
        /\ StatusIsOfItsVersion'
    <3>1. source' # NoDevice => source' = source /\ source \in Devices \ {d}
      BY <1>1, <1>3
    <3>2. source' # NoDevice => monitor'[source'] = monitor[source]
      BY <1>4, <3>1
    <3> QED BY <1>1, <3>1, <3>2 DEF ShownInv, MonitorInv, StatusIsOfItsVersion, view
  <2>3. \A e \in Devices \ (notified' \cup missed') :
            e \in names \/ e = d => monitor'[e].status.signal = actual[e].signal
    BY <1>1, <1>2, <1>4 DEF ShownInv, MonitorInv
  <2> QED BY <1>1, <2>1, <2>2, <2>3 DEF MonitorInv, lists
<1>6. ListInv'
  BY <1>1 DEF ShownInv, ListInv, NamesFollowTheLists, PlaybacksHaveADevice, DevicesOfTheirOwnAreListed,
              ListsChange, Listed, fixed, lists, view
<1>7. ModesInv'
  BY <1>1, ModesAlone DEF ShownInv, view
<1>8. DevicesTypeOK'
  <2>1. /\ changes' \in Nat /\ attached' \subseteq Devices /\ copies' \subseteq Devices
        /\ notified' \subseteq Devices /\ missed' \subseteq Devices
    BY DEF ShownInv, DevicesTypeOK, DeviceArrived
  <2>2. reading' \in [monitor : Devices \cup {NoDevice}, temperature : Temperatures \cup {Unknown}]
    BY DEF ShownInv, DevicesTypeOK, DeviceArrived, NoReading
  <2>3. /\ callback' \in [op : {"none", "made", "arrived", "removed", "counting"},
                          device : Devices \cup {NoDevice}]
        /\ source' \in Devices \cup {NoDevice}
    BY <1>1, <1>3
  <2> QED BY <1>1, <1>4, <2>1, <2>2, <2>3 DEF ShownInv, DevicesTypeOK, Monitors, fixed, lists, view
<1> QED BY <1>5, <1>6, <1>7, <1>8 DEF ShownInv

LEMMA SubscribeKeepsInv == ShownInv /\ Subscribe => ShownInv'
<1> SUFFICES ASSUME ShownInv, Subscribe PROVE ShownInv'
  OBVIOUS
<1>1. /\ callback.op = "made" /\ callback' = [callback EXCEPT !.op = "arrived"]
      /\ UNCHANGED <<world, lists, notified, worker, view, source, missed>>
  BY DEF Subscribe
<1>2. callback.device \in Devices
  BY <1>1 DEF ShownInv, ListInv
<1>3. PICK subscribed \in BOOLEAN :
          monitor' = [monitor EXCEPT ![callback.device].subscribed = subscribed]
  BY DEF Subscribe
<1>4. monitor \in [Devices -> Monitors] /\ source \in Devices \cup {NoDevice}
  BY DEF ShownInv, DevicesTypeOK, Monitors
<1>5. monitor' \in [Devices -> Monitors]
  BY <1>2, <1>3, <1>4 DEF Monitors
<1>6. \A e \in Devices :
          monitor'[e].version = monitor[e].version /\ monitor'[e].status = monitor[e].status
  BY <1>2, <1>3, <1>4 DEF Monitors
<1>7. callback'.op = "arrived" /\ callback'.device = callback.device
  BY <1>1 DEF ShownInv, DevicesTypeOK
<1>8. MonitorInv'
  BY <1>1, <1>4, <1>6, <1>7
     DEF ShownInv, MonitorInv, StatusIsOfItsVersion, world, fixed, lists, view
<1>9. ListInv'
  BY <1>1, <1>2, <1>7
     DEF ShownInv, ListInv, NamesFollowTheLists, PlaybacksHaveADevice, DevicesOfTheirOwnAreListed,
         ListsChange, Listed, world, fixed, lists, view
<1>10. ModesInv'
  BY <1>1, ModesAlone DEF ShownInv, view
<1>11. callback' \in [op : {"none", "made", "arrived", "removed", "counting"},
                      device : Devices \cup {NoDevice}]
  BY <1>1 DEF ShownInv, DevicesTypeOK
<1>12. DevicesTypeOK'
  BY <1>1, <1>5, <1>11 DEF ShownInv, DevicesTypeOK, Monitors, world, fixed, lists, worker, view
<1> QED BY <1>8, <1>9, <1>10, <1>12 DEF ShownInv

\* What the callback does to the registry touches no monitor and no playback.
LEMMA CallbackKeepsTypes ==
    ASSUME ShownInv, UNCHANGED <<fixed, actual, monitor, notified, worker, view, source, missed>>,
           callback' \in [op : {"none", "made", "arrived", "removed", "counting"},
                          device : Devices \cup {NoDevice}],
           attached' \subseteq Devices, changes' \in Nat, list_version' \in Nat,
           names' \subseteq Devices, outputs' \in [Names -> Devices \cup {NoDevice}],
           monitors' \in [Names -> Devices \cup {NoDevice}]
    PROVE  DevicesTypeOK' /\ ModesInv'
<1>1. ModesInv'
  BY ModesAlone DEF ShownInv, view
<1>2. DevicesTypeOK'
  BY DEF ShownInv, DevicesTypeOK, fixed, worker, view
<1> QED BY <1>1, <1>2

LEMMA ArrivalFailsKeepsInv == ShownInv /\ ArrivalFails => ShownInv'
<1> SUFFICES ASSUME ShownInv, ArrivalFails PROVE ShownInv'
  OBVIOUS
<1>1. /\ callback.op \in {"made", "arrived"} /\ callback' = [op |-> "none", device |-> NoDevice]
      /\ UNCHANGED <<world, lists, monitor, notified, worker, view, source, missed>>
  BY DEF ArrivalFails, NoCallback
<1>2. DevicesTypeOK' /\ ModesInv'
  BY <1>1, CallbackKeepsTypes DEF ShownInv, DevicesTypeOK, world, lists
<1>3. ListInv'
  BY <1>1 DEF ShownInv, ListInv, NamesFollowTheLists, PlaybacksHaveADevice, DevicesOfTheirOwnAreListed,
              ListsChange, Listed, world, fixed, lists, view
<1>4. MonitorInv'
  BY <1>1 DEF ShownInv, MonitorInv, StatusIsOfItsVersion, world, fixed, lists, view
<1> QED BY <1>2, <1>3, <1>4 DEF ShownInv

LEMMA ListKeepsInv == ShownInv /\ List => ShownInv'
<1> SUFFICES ASSUME ShownInv, List PROVE ShownInv'
  OBVIOUS
<1> DEFINE d == callback.device
           n == name_of[d]
<1>1. /\ callback.op = "arrived" /\ callback' = [callback EXCEPT !.op = "counting"]
      /\ names' = names \cup {d} /\ monitors' = [monitors EXCEPT ![n] = d]
      /\ outputs' = (IF d \in Outputs THEN [outputs EXCEPT ![n] = d] ELSE outputs)
      /\ UNCHANGED <<world, list_version, monitor, notified, worker, view, source, missed>>
  BY DEF List
<1>2. d \in Devices /\ n \in Names
  BY <1>1 DEF ShownInv, ListInv, DevicesTypeOK
<1>3. callback'.op = "counting" /\ callback'.device = d
  BY <1>1 DEF ShownInv, DevicesTypeOK
<1>4. DevicesTypeOK' /\ ModesInv'
  <2>1. callback' \in [op : {"none", "made", "arrived", "removed", "counting"},
                       device : Devices \cup {NoDevice}]
    BY <1>1 DEF ShownInv, DevicesTypeOK
  <2>2. /\ names' \subseteq Devices /\ monitors' \in [Names -> Devices \cup {NoDevice}]
        /\ outputs' \in [Names -> Devices \cup {NoDevice}]
    BY <1>1, <1>2 DEF ShownInv, DevicesTypeOK
  <2> QED BY <1>1, <2>1, <2>2, CallbackKeepsTypes DEF ShownInv, DevicesTypeOK, world
<1> HIDE DEF d
<1>5. DevicesOfTheirOwnAreListed'
  <2> SUFFICES ASSUME NEW e \in names' \cap Outputs,
                      \A f \in Devices \ {e} : name_of[f] # name_of[e]
               PROVE  outputs'[name_of[e]] = e
    BY <1>1 DEF DevicesOfTheirOwnAreListed, world, fixed
  <2>1. outputs \in [Names -> Devices \cup {NoDevice}] /\ e \in Devices /\ name_of[e] \in Names
    BY <1>1, <1>2 DEF ShownInv, DevicesTypeOK
  <2>2. CASE e = d
    BY <1>1, <2>1, <2>2
  <2>3. CASE e # d
    BY <1>1, <1>2, <2>1, <2>3 DEF ShownInv, ListInv, DevicesOfTheirOwnAreListed
  <2> QED BY <2>2, <2>3
<1>6. ListInv'
  BY <1>1, <1>2, <1>3, <1>5
     DEF ShownInv, ListInv, NamesFollowTheLists, PlaybacksHaveADevice, ListsChange, world, fixed, view
<1>7. MonitorInv'
  BY <1>1, <1>3 DEF ShownInv, MonitorInv, StatusIsOfItsVersion, world, fixed, view
<1> QED BY <1>4, <1>6, <1>7 DEF ShownInv

LEMMA RemovedKeepsInv == ASSUME ShownInv, NEW d \in Devices, DeviceRemoved(d) PROVE ShownInv'
<1>1. /\ callback.op = "none" /\ callback' = [op |-> "removed", device |-> d]
      /\ UNCHANGED <<fixed, actual, lists, monitor, notified, worker, view, source, missed>>
  BY DEF DeviceRemoved
<1>2. attached' \subseteq Devices /\ changes' \in Nat
  BY DEF ShownInv, DevicesTypeOK, DeviceRemoved
<1>3. DevicesTypeOK' /\ ModesInv'
  BY <1>1, <1>2, CallbackKeepsTypes DEF ShownInv, DevicesTypeOK, lists
<1>4. ListInv'
  BY <1>1 DEF ShownInv, ListInv, NamesFollowTheLists, PlaybacksHaveADevice, DevicesOfTheirOwnAreListed,
              ListsChange, Listed, fixed, lists, view
<1>5. MonitorInv'
  BY <1>1 DEF ShownInv, MonitorInv, StatusIsOfItsVersion, lists, view
<1> QED BY <1>3, <1>4, <1>5 DEF ShownInv

LEMMA UnlistKeepsInv == ShownInv /\ Unlist => ShownInv'
<1> SUFFICES ASSUME ShownInv, Unlist PROVE ShownInv'
  OBVIOUS
<1> DEFINE d == callback.device
           n == name_of[d]
<1>1. callback.op = "removed" /\ d \in Devices /\ n \in Names
  BY DEF ShownInv, ListInv, DevicesTypeOK, Unlist
<1>2. UNCHANGED <<world, list_version, monitor, notified, worker, view, source, missed>>
  BY DEF Unlist
<1>3. \/ /\ names' = names \ {d} /\ callback'.op = "counting" /\ callback'.device = d
         /\ outputs' = [outputs EXCEPT ![n] = NoDevice]
         /\ monitors' = [monitors EXCEPT ![n] = NoDevice]
      \/ callback'.op = "none" /\ UNCHANGED <<names, outputs, monitors>>
  BY DEF ShownInv, DevicesTypeOK, Unlist, NoCallback
<1>4. DevicesTypeOK' /\ ModesInv'
  <2>1. callback' \in [op : {"none", "made", "arrived", "removed", "counting"},
                       device : Devices \cup {NoDevice}]
    BY DEF ShownInv, DevicesTypeOK, Unlist, NoCallback
  <2>2. /\ names' \subseteq Devices /\ monitors' \in [Names -> Devices \cup {NoDevice}]
        /\ outputs' \in [Names -> Devices \cup {NoDevice}]
    BY <1>1, <1>3 DEF ShownInv, DevicesTypeOK
  <2> QED BY <1>2, <2>1, <2>2, CallbackKeepsTypes DEF ShownInv, DevicesTypeOK, world
<1> HIDE DEF d
<1>5. DevicesOfTheirOwnAreListed'
  <2> SUFFICES ASSUME NEW e \in names' \cap Outputs,
                      \A f \in Devices \ {e} : name_of[f] # name_of[e]
               PROVE  outputs'[name_of[e]] = e
    BY <1>2 DEF DevicesOfTheirOwnAreListed, world, fixed
  <2>1. /\ outputs \in [Names -> Devices \cup {NoDevice}] /\ e \in names
        /\ names \subseteq Devices /\ name_of[e] \in Names
    BY <1>3 DEF ShownInv, DevicesTypeOK
  <2>2. outputs[name_of[e]] = e
    BY <2>1 DEF ShownInv, ListInv, DevicesOfTheirOwnAreListed
  <2> QED BY <1>1, <1>3, <2>1, <2>2
<1>6. ListInv'
  BY <1>1, <1>2, <1>3, <1>5
     DEF ShownInv, ListInv, NamesFollowTheLists, PlaybacksHaveADevice, ListsChange, Listed, world,
         fixed, view
<1>7. MonitorInv'
  BY <1>2, <1>3 DEF ShownInv, MonitorInv, StatusIsOfItsVersion, world, fixed, view
<1> QED BY <1>4, <1>6, <1>7 DEF ShownInv

LEMMA CountKeepsInv == ShownInv /\ Count => ShownInv'
<1> SUFFICES ASSUME ShownInv, Count PROVE ShownInv'
  OBVIOUS
<1>1. /\ callback.op = "counting" /\ callback' = [op |-> "none", device |-> NoDevice]
      /\ list_version' = list_version + 1
      /\ UNCHANGED <<world, names, outputs, monitors, monitor, notified, worker, view, source,
                     missed>>
  BY DEF Count, NoCallback
<1>2. list_version \in Nat /\ device_version \in Int
  BY DEF ShownInv, DevicesTypeOK, Unobserved
<1>3. DevicesTypeOK' /\ ModesInv'
  BY <1>1, <1>2, CallbackKeepsTypes DEF ShownInv, DevicesTypeOK, world
<1>4. device_version' < list_version'
  BY <1>1, <1>2 DEF ShownInv, ListInv, view
<1>5. ListInv'
  BY <1>1, <1>2, <1>4
     DEF ShownInv, ListInv, NamesFollowTheLists, PlaybacksHaveADevice, DevicesOfTheirOwnAreListed,
         ListsChange, world, fixed, view
<1>6. MonitorInv'
  BY <1>1 DEF ShownInv, MonitorInv, StatusIsOfItsVersion, world, fixed, view
<1> QED BY <1>3, <1>5, <1>6 DEF ShownInv

-----------------------------------------------------------------------------
(* prepare *)

\* What prepare leaves alone.
NotOfTheNode == <<world, callback, lists, monitor, notified, worker, missed>>

LEMMA ObserveListKeepsInv == ShownInv /\ ObserveList => ShownInv'
<1> SUFFICES ASSUME ShownInv, ObserveList PROVE ShownInv'
  OBVIOUS
<1>1. /\ place = "idle" /\ list_changed' = (device_version # list_version)
      /\ device_version' = list_version
      /\ place' = (IF list_changed' THEN "listing" ELSE "status")
      /\ UNCHANGED <<NotOfTheNode, option, selected, status_key, modes_key, session, shown, kept,
                     source>>
  BY DEF ObserveList, NotOfTheNode
<1>2. DevicesTypeOK'
  BY <1>1 DEF ShownInv, DevicesTypeOK, Places, NotOfTheNode, world, fixed, lists, worker
<1>3. ListInv'
  <2>1. device_version' <= list_version'
    BY <1>1 DEF ShownInv, DevicesTypeOK, NotOfTheNode, lists
  <2>2. NamesFollowTheLists' /\ PlaybacksHaveADevice' /\ DevicesOfTheirOwnAreListed'
    BY <1>1
       DEF ShownInv, ListInv, NamesFollowTheLists, PlaybacksHaveADevice, DevicesOfTheirOwnAreListed,
           ListsChange, Listed, NotOfTheNode, world, fixed, lists
  <2> QED BY <1>1, <2>1, <2>2 DEF ShownInv, ListInv, NotOfTheNode
<1>4. MonitorInv' /\ ModesInv'
  BY <1>1, MonitorsAlone, ModesAlone DEF ShownInv, NotOfTheNode, world, lists
<1> QED BY <1>2, <1>3, <1>4 DEF ShownInv

LEMMA ShowNamesKeepsInv == ShownInv /\ ShowNames => ShownInv'
<1> SUFFICES ASSUME ShownInv, ShowNames PROVE ShownInv'
  OBVIOUS
<1>1. /\ place = "listing" /\ place' = "status" /\ shown' = [shown EXCEPT !.names = Listed]
      /\ UNCHANGED <<NotOfTheNode, option, selected, device_version, list_changed, status_key,
                     modes_key, session, kept, source>>
  BY DEF ShowNames, NotOfTheNode
<1>2. /\ shown'.names = Listed /\ UNCHANGED <<shown.status, shown.modes>>
      /\ shown' \in [names : SUBSET Names, status : Fields, modes : Devices \cup {NoDevice}]
  BY <1>1 DEF ShownInv, DevicesTypeOK, Listed
<1>3. DevicesTypeOK'
  BY <1>1, <1>2 DEF ShownInv, DevicesTypeOK, Places, NotOfTheNode, world, fixed, lists, worker
<1>4. ListInv'
  BY <1>1, <1>2
     DEF ShownInv, ListInv, NamesFollowTheLists, PlaybacksHaveADevice, DevicesOfTheirOwnAreListed,
         ListsChange, Listed, NotOfTheNode, world, fixed, lists
<1>5. MonitorInv' /\ ModesInv'
  BY <1>1, <1>2, MonitorsAlone, ModesAlone DEF ShownInv, NotOfTheNode, world, lists
<1> QED BY <1>3, <1>4, <1>5 DEF ShownInv

LEMMA ShowStatusKeepsInv == ShownInv /\ ShowStatus => ShownInv'
<1> SUFFICES ASSUME ShownInv, ShowStatus PROVE ShownInv'
  OBVIOUS
<1> DEFINE found == monitors[option]
           there == MonitorOf(option)
           key == [name |-> option, version |-> there.version]
<1>1. /\ place = "status" /\ place' = "selection" /\ status_key' = key
      /\ UNCHANGED <<NotOfTheNode, option, selected, device_version, list_changed, modes_key,
                     session, kept>>
  BY DEF ShowStatus, NotOfTheNode
<1>2. \/ key # status_key /\ shown' = [shown EXCEPT !.status = there.status] /\ source' = found
      \/ key = status_key /\ UNCHANGED <<shown, source>>
  BY DEF ShowStatus
<1>3. /\ found \in Devices \cup {NoDevice} /\ option \in Names
      /\ monitor \in [Devices -> Monitors]
  BY DEF ShownInv, DevicesTypeOK, Monitors
<1>4. /\ there = IF found = NoDevice THEN NoMonitor ELSE monitor[found]
      /\ NoMonitor \in Monitors /\ NoMonitor.version = 0 /\ NoMonitor.status = NoStatus
  BY DEF MonitorOf, NoMonitor, NoStatus, Monitors, Fields
<1>5. /\ there \in Monitors
      /\ there.version = 0 => there.status = NoStatus
      /\ found # NoDevice => there = monitor[found]
  BY <1>3, <1>4 DEF ShownInv, MonitorInv
<1> HIDE DEF there, found
<1>6. there.version \in Nat /\ there.status \in Fields
  BY <1>5 DEF Monitors
<1>7. /\ shown' \in [names : SUBSET Names, status : Fields, modes : Devices \cup {NoDevice}]
      /\ UNCHANGED <<shown.names, shown.modes>>
      /\ key # status_key => shown'.status = there.status
  BY <1>2, <1>6 DEF ShownInv, DevicesTypeOK
<1>8. status_key' \in StatusKeys /\ status_key'.version = there.version
  BY <1>1, <1>3, <1>6 DEF StatusKeys
<1>9. MonitorInv'
  <2>1. CASE key = status_key
    BY <1>1, <1>2, <2>1, MonitorsAlone DEF ShownInv, NotOfTheNode, world, lists
  <2>2. CASE key # status_key
    <3>1. source' = found /\ shown'.status = there.status
      BY <1>2, <1>7, <2>2
    <3>2. UNCHANGED <<monitor, notified, missed, names, callback, actual>>
      BY <1>1 DEF NotOfTheNode, world, lists
    <3>3. found # NoDevice => status_key'.version <= monitor[found].version
      BY <1>5, <1>6, <1>8
    <3>4. StatusIsOfItsVersion'
      BY <1>5, <1>8, <3>1, <3>2 DEF StatusIsOfItsVersion
    <3> QED BY <3>1, <3>2, <3>3, <3>4 DEF ShownInv, MonitorInv
  <2> QED BY <2>1, <2>2
<1>10. ListInv'
  BY <1>1, <1>7
     DEF ShownInv, ListInv, NamesFollowTheLists, PlaybacksHaveADevice, DevicesOfTheirOwnAreListed,
         ListsChange, Listed, NotOfTheNode, world, fixed, lists
<1>11. ModesInv'
  BY <1>1, <1>7, ModesAlone DEF ShownInv
<1>12. DevicesTypeOK'
  BY <1>1, <1>2, <1>3, <1>7, <1>8
     DEF ShownInv, DevicesTypeOK, Places, NotOfTheNode, world, fixed, lists, worker
<1> QED BY <1>9, <1>10, <1>11, <1>12 DEF ShownInv

\* What prepare does with the playback and its modes touches no monitor.
LEMMA PlaybackKeepsMonitors ==
    ASSUME ShownInv, UNCHANGED <<NotOfTheNode, status_key, shown.status, source>>
    PROVE  MonitorInv'
BY MonitorsAlone DEF ShownInv, NotOfTheNode, world, lists

LEMMA ReselectKeepsInv == ShownInv /\ Reselect => ShownInv'
<1> SUFFICES ASSUME ShownInv, Reselect PROVE ShownInv'
  OBVIOUS
<1>1. /\ place = "selection" /\ place' = "modes" /\ selected' = option
      /\ UNCHANGED <<NotOfTheNode, option, device_version, list_changed, status_key, shown, source>>
  BY DEF Reselect, NotOfTheNode
<1>2. \/ /\ selected' = selected
         /\ ~(list_changed /\ session # NoSession /\ outputs[option] = NoDevice)
         /\ UNCHANGED <<modes_key, session, kept>>
      \/ session' = NoSession /\ modes_key' = NoKey /\ kept' = FALSE
  BY DEF Reselect
<1>3. ListInv'
  BY <1>1, <1>2
     DEF ShownInv, ListInv, NamesFollowTheLists, PlaybacksHaveADevice, DevicesOfTheirOwnAreListed,
         ListsChange, Listed, NotOfTheNode, world, fixed, lists
<1>4. ModesInv'
  BY <1>1, <1>2 DEF ShownInv, ModesInv, NoSession
<1>5. DevicesTypeOK'
  <2>1. NoSession \in [device : Devices \cup {NoDevice}, phase : SessionPhases,
                       modes : Devices \cup {NoDevice}, version : Nat]
        /\ NoKey \in StatusKeys
    BY DEF NoSession, SessionPhases, NoKey, StatusKeys
  <2>2. /\ session' \in [device : Devices \cup {NoDevice}, phase : SessionPhases,
                        modes : Devices \cup {NoDevice}, version : Nat]
        /\ modes_key' \in StatusKeys /\ kept' \in BOOLEAN
    BY <1>2, <2>1 DEF ShownInv, DevicesTypeOK
  <2> QED BY <1>1, <2>2 DEF ShownInv, DevicesTypeOK, Places, NotOfTheNode, world, fixed, lists, worker
<1> QED BY <1>1, <1>3, <1>4, <1>5, PlaybackKeepsMonitors DEF ShownInv

LEMMA ObserveModesKeepsInv == ShownInv /\ ObserveModes => ShownInv'
<1> SUFFICES ASSUME ShownInv, ObserveModes PROVE ShownInv'
  OBVIOUS
<1> DEFINE key == [name |-> option, version |-> session.version]
<1>1. /\ place = "modes"
      /\ UNCHANGED <<NotOfTheNode, option, selected, device_version, list_changed, status_key, session,
                     shown, source>>
  BY DEF ObserveModes, NotOfTheNode
<1>2. \/ session # NoSession /\ modes_key' = key /\ kept' = FALSE /\ place' = "showing"
      \/ place' = "existing" /\ UNCHANGED <<modes_key, kept>>
  BY DEF ObserveModes
<1>3. key \in StatusKeys /\ key.version = session.version /\ session.version \in Nat
  BY DEF ShownInv, DevicesTypeOK, StatusKeys
<1> HIDE DEF key
<1>4. ListInv'
  BY <1>1, <1>2
     DEF ShownInv, ListInv, NamesFollowTheLists, PlaybacksHaveADevice, DevicesOfTheirOwnAreListed,
         ListsChange, Listed, NotOfTheNode, world, fixed, lists
<1>5. ModesInv'
  BY <1>1, <1>2, <1>3 DEF ShownInv, ModesInv
<1>6. DevicesTypeOK'
  <2>1. modes_key' \in StatusKeys /\ kept' \in BOOLEAN /\ place' \in Places
    BY <1>2, <1>3 DEF ShownInv, DevicesTypeOK, Places
  <2> QED BY <1>1, <2>1 DEF ShownInv, DevicesTypeOK, NotOfTheNode, world, fixed, lists, worker
<1> QED BY <1>1, <1>4, <1>5, <1>6, PlaybackKeepsMonitors DEF ShownInv

LEMMA ShowModesKeepsInv == ShownInv /\ ShowModes => ShownInv'
<1> SUFFICES ASSUME ShownInv, ShowModes PROVE ShownInv'
  OBVIOUS
<1>1. /\ place = "showing" /\ place' = "existing" /\ shown' = [shown EXCEPT !.modes = session.modes]
      /\ UNCHANGED <<NotOfTheNode, option, selected, device_version, list_changed, status_key,
                     modes_key, session, kept, source>>
  BY DEF ShowModes, NotOfTheNode
<1>2. session.modes \in Devices \cup {NoDevice}
  BY DEF ShownInv, DevicesTypeOK
<1>3. /\ shown' \in [names : SUBSET Names, status : Fields, modes : Devices \cup {NoDevice}]
      /\ shown'.modes = session.modes /\ UNCHANGED <<shown.names, shown.status>>
  BY <1>1, <1>2 DEF ShownInv, DevicesTypeOK
<1>4. ListInv'
  BY <1>1, <1>3
     DEF ShownInv, ListInv, NamesFollowTheLists, PlaybacksHaveADevice, DevicesOfTheirOwnAreListed,
         ListsChange, Listed, NotOfTheNode, world, fixed, lists
<1>5. ModesInv'
  BY <1>1, <1>3 DEF ShownInv, ModesInv
<1>6. DevicesTypeOK'
  BY <1>1, <1>3 DEF ShownInv, DevicesTypeOK, Places, NotOfTheNode, world, fixed, lists, worker
<1> QED BY <1>1, <1>3, <1>4, <1>5, <1>6, PlaybackKeepsMonitors DEF ShownInv

LEMMA ExistingKeepsInv == ShownInv /\ Existing => ShownInv'
<1> SUFFICES ASSUME ShownInv, Existing PROVE ShownInv'
  OBVIOUS
<1>1. /\ place = "existing" /\ place' = "idle"
      /\ UNCHANGED <<NotOfTheNode, option, selected, device_version, list_changed, status_key,
                     modes_key, shown, source>>
  BY DEF Existing, NotOfTheNode
<1>2. \/ session' = NoSession /\ kept' \in BOOLEAN /\ (modes_key # NoKey => kept')
      \/ UNCHANGED <<session, kept>>
  BY DEF Existing
<1>3. NoSession \in [device : Devices \cup {NoDevice}, phase : SessionPhases,
                     modes : Devices \cup {NoDevice}, version : Nat]
  BY DEF NoSession, SessionPhases
<1>4. ListInv'
  BY <1>1, <1>2
     DEF ShownInv, ListInv, NamesFollowTheLists, PlaybacksHaveADevice, DevicesOfTheirOwnAreListed,
         ListsChange, Listed, NotOfTheNode, world, fixed, lists
<1>5. ModesInv'
  BY <1>1, <1>2 DEF ShownInv, ModesInv, NoSession
<1>6. DevicesTypeOK'
  BY <1>1, <1>2, <1>3 DEF ShownInv, DevicesTypeOK, Places, NotOfTheNode, world, fixed, lists, worker
<1> QED BY <1>1, <1>4, <1>5, <1>6, PlaybackKeepsMonitors DEF ShownInv

LEMMA StartKeepsInv == ShownInv /\ StartPlayback => ShownInv'
<1> SUFFICES ASSUME ShownInv, StartPlayback PROVE ShownInv'
  OBVIOUS
<1>1. /\ place = "existing" /\ session = NoSession /\ place' = "idle"
      /\ UNCHANGED <<NotOfTheNode, option, selected, device_version, list_changed, status_key,
                     modes_key, shown, kept, source>>
  BY DEF StartPlayback, NotOfTheNode
<1>2. \/ /\ outputs[option] # NoDevice
         /\ session' = [device |-> outputs[option], phase |-> "starting", modes |-> NoDevice,
                        version |-> 0]
      \/ UNCHANGED session
  BY DEF StartPlayback
<1>3. outputs[option] \in Devices \cup {NoDevice} /\ selected = option
  BY <1>1 DEF ShownInv, DevicesTypeOK, ListInv
<1>4. ListInv'
  BY <1>1, <1>2, <1>3
     DEF ShownInv, ListInv, NamesFollowTheLists, PlaybacksHaveADevice, DevicesOfTheirOwnAreListed,
         ListsChange, Listed, NotOfTheNode, world, fixed, lists
<1>5. ModesInv'
  BY <1>1, <1>2 DEF ShownInv, ModesInv
<1>6. DevicesTypeOK'
  <2>1. session' \in [device : Devices \cup {NoDevice}, phase : SessionPhases,
                      modes : Devices \cup {NoDevice}, version : Nat]
    BY <1>2, <1>3 DEF ShownInv, DevicesTypeOK, SessionPhases
  <2> QED BY <1>1, <2>1 DEF ShownInv, DevicesTypeOK, Places, NotOfTheNode, world, fixed, lists, worker
<1> QED BY <1>1, <1>4, <1>5, <1>6, PlaybackKeepsMonitors DEF ShownInv

-----------------------------------------------------------------------------
(* The control executor *)

Sessions == [device : Devices \cup {NoDevice}, phase : SessionPhases,
             modes : Devices \cup {NoDevice}, version : Nat]

\* A playback that there is goes on: the list is followed as before.
LEMMA PlaybackGoesOn ==
    ASSUME ShownInv, session' \in Sessions, session # NoSession,
           UNCHANGED <<NotOfTheNode, place, option, selected, device_version, list_changed, status_key,
                       modes_key, shown, kept, source>>
    PROVE  DevicesTypeOK' /\ ListInv' /\ MonitorInv'
<1>1. DevicesTypeOK'
  BY DEF ShownInv, DevicesTypeOK, Sessions, NotOfTheNode, world, fixed, lists, worker
<1>2. ListInv'
  BY DEF ShownInv, ListInv, NamesFollowTheLists, PlaybacksHaveADevice, DevicesOfTheirOwnAreListed,
         ListsChange, Listed, NotOfTheNode, world, fixed, lists
<1> QED BY <1>1, <1>2, PlaybackKeepsMonitors

LEMMA PlayingKeepsInv == ShownInv /\ Playing => ShownInv'
<1> SUFFICES ASSUME ShownInv, Playing PROVE ShownInv'
  OBVIOUS
<1>1. UNCHANGED <<NotOfTheNode, place, option, selected, device_version, list_changed, status_key,
                  modes_key, shown, kept, source>>
  BY DEF Playing, SetModes, CountModes, SessionFails, NotOfTheNode
<1>2. /\ session \in Sessions /\ session.version \in {0, 1}
      /\ session.device \in Devices \cup {NoDevice}
  BY DEF ShownInv, DevicesTypeOK, ModesInv, Sessions
<1>3. session.phase # "none" /\ session # NoSession
  BY DEF Playing, SetModes, CountModes, SessionFails, NoSession
<1>4. CASE SetModes
  <2>1. /\ session.phase = "starting"
        /\ session' = [session EXCEPT !.phase = "publishing", !.modes = session.device]
    BY <1>4 DEF SetModes
  <2>2. session' \in Sessions
    BY <1>2, <2>1 DEF Sessions, SessionPhases
  <2>3. session'.phase = "publishing" /\ session'.version = session.version
    BY <1>2, <2>1 DEF Sessions
  <2>4. session.version = 0 /\ session' # NoSession
    BY <2>1, <2>3 DEF ShownInv, ModesInv, NoSession
  <2>5. ~kept /\ modes_key # NoKey => modes_key.version # 1
    BY <2>4 DEF ShownInv, ModesInv
  <2>6. ModesInv'
    BY <1>1, <1>3, <2>3, <2>4, <2>5 DEF ShownInv, ModesInv
  <2> QED BY <1>1, <1>3, <2>2, <2>6, PlaybackGoesOn DEF ShownInv
<1>5. CASE CountModes
  <2>1. /\ session.phase = "publishing"
        /\ session' = [session EXCEPT !.phase = "started", !.version = @ + 1]
    BY <1>5 DEF CountModes
  <2>2. session.version = 0
    BY <2>1 DEF ShownInv, ModesInv
  <2>3. session' = [session EXCEPT !.phase = "started", !.version = 1]
    BY <1>2, <2>1, <2>2 DEF Sessions
  <2>4. session' \in Sessions
    BY <1>2, <2>3 DEF Sessions, SessionPhases
  <2>5. session'.phase = "started" /\ session'.version = 1
    BY <1>2, <2>3 DEF Sessions
  <2>6. ~kept /\ modes_key # NoKey => modes_key.version = 0
    BY <2>2 DEF ShownInv, DevicesTypeOK, ModesInv, StatusKeys
  <2>7. session' # NoSession
    BY <2>5 DEF NoSession
  <2>8. ModesInv'
    BY <1>1, <2>5, <2>6, <2>7 DEF ModesInv
  <2> QED BY <1>1, <1>3, <2>4, <2>8, PlaybackGoesOn DEF ShownInv
<1>6. CASE SessionFails
  <2>1. session' = [session EXCEPT !.phase = "failed"]
    BY <1>6 DEF SessionFails
  <2>2. session' \in Sessions
    BY <1>2, <2>1 DEF Sessions, SessionPhases
  <2>3. /\ session'.phase = "failed" /\ session'.version = session.version
        /\ session'.modes = session.modes
    BY <1>2, <2>1 DEF Sessions
  <2>4. ModesInv'
    BY <1>1, <1>3, <2>3 DEF ShownInv, ModesInv, NoSession
  <2> QED BY <1>1, <1>3, <2>2, <2>4, PlaybackGoesOn DEF ShownInv
<1> QED BY <1>4, <1>5, <1>6 DEF Playing

-----------------------------------------------------------------------------
(* What devices and users do *)

LEMMA SignalKeepsInv ==
    ASSUME ShownInv, NEW d \in Devices, NEW signal \in Signals \cup {Unknown}, SignalChanges(d, signal)
    PROVE  ShownInv'
<1>1. /\ changes' = changes + 1 /\ actual' = [actual EXCEPT ![d].signal = signal]
      /\ UNCHANGED <<fixed, attached, callback, lists, monitor, worker, view, source>>
  BY DEF SignalChanges
<1>2. /\ notified \subseteq notified' /\ missed \subseteq missed' /\ d \in notified' \cup missed'
      /\ notified' \subseteq Devices /\ missed' \subseteq Devices
  BY DEF ShownInv, DevicesTypeOK, SignalChanges
<1>3. actual \in [Devices -> Fields]
  BY DEF ShownInv, DevicesTypeOK
<1>4. actual' \in [Devices -> Fields] /\ \A e \in Devices \ {d} : actual'[e] = actual[e]
  BY <1>1, <1>3 DEF Fields
<1>5. DevicesTypeOK'
  BY <1>1, <1>2, <1>4 DEF ShownInv, DevicesTypeOK, fixed, lists, worker, view
<1>6. ListInv' /\ ModesInv'
  BY <1>1, ListsAlone, ModesAlone DEF ShownInv, fixed, lists, view
<1>7. MonitorInv'
  BY <1>1, <1>2, <1>4 DEF ShownInv, MonitorInv, StatusIsOfItsVersion, lists, view
<1> QED BY <1>5, <1>6, <1>7 DEF ShownInv

LEMMA TemperatureKeepsInv ==
    ASSUME ShownInv, NEW d \in Devices, NEW temperature \in Temperatures \cup {Unknown},
           TemperatureChanges(d, temperature)
    PROVE  ShownInv'
<1>1. /\ changes' = changes + 1 /\ actual' = [actual EXCEPT ![d].temperature = temperature]
      /\ UNCHANGED <<fixed, attached, callback, lists, monitor, notified, worker, view, source,
                     missed>>
  BY DEF TemperatureChanges
<1>2. actual \in [Devices -> Fields]
  BY DEF ShownInv, DevicesTypeOK
<1>3. actual' \in [Devices -> Fields] /\ \A e \in Devices : actual'[e].signal = actual[e].signal
  BY <1>1, <1>2 DEF Fields
<1>4. DevicesTypeOK'
  BY <1>1, <1>3 DEF ShownInv, DevicesTypeOK, fixed, lists, worker, view
<1>5. ListInv' /\ ModesInv'
  BY <1>1, ListsAlone, ModesAlone DEF ShownInv, fixed, lists, view
<1>6. MonitorInv'
  BY <1>1, <1>3 DEF ShownInv, MonitorInv, StatusIsOfItsVersion, lists, view
<1> QED BY <1>4, <1>5, <1>6 DEF ShownInv

LEMMA OptionKeepsInv == ASSUME ShownInv, NEW name \in Names, OptionChanges(name) PROVE ShownInv'
<1>1. /\ place = "idle" /\ option' = name /\ changes' = changes + 1
      /\ UNCHANGED <<fixed, actual, attached, callback, lists, monitor, notified, worker, place,
                     selected, device_version, list_changed, status_key, modes_key, session,
                     shown, kept, source, missed>>
  BY DEF OptionChanges
<1>2. DevicesTypeOK'
  BY <1>1 DEF ShownInv, DevicesTypeOK, fixed, lists, worker
<1>3. ListInv'
  BY <1>1 DEF ShownInv, ListInv, NamesFollowTheLists, PlaybacksHaveADevice, DevicesOfTheirOwnAreListed,
              ListsChange, Listed, fixed, lists
<1>4. MonitorInv' /\ ModesInv'
  BY <1>1, MonitorsAlone, ModesAlone DEF ShownInv, lists
<1> QED BY <1>2, <1>3, <1>4 DEF ShownInv

-----------------------------------------------------------------------------
(* The theorems *)

LEMMA ShownInitially == DevicesInit => ShownInv
<1> SUFFICES ASSUME DevicesInit PROVE ShownInv
  OBVIOUS
<1>1. PICK s \in Scenarios :
          enabled = s.enabled /\ reporting = s.reporting /\ name_of = s.name_of /\ option = s.option
  BY DEF DevicesInit
<1>2. /\ enabled \in BOOLEAN /\ reporting \subseteq Devices
      /\ name_of \in [Devices -> Names] /\ option \in Names
  BY <1>1, DevicesAssumption
<1>3. /\ NoStatus \in Fields /\ NoMonitor \in Monitors /\ NoKey \in StatusKeys
      /\ NoReading \in [monitor : Devices \cup {NoDevice},
                        temperature : Temperatures \cup {Unknown}]
  BY DEF NoStatus, Fields, NoMonitor, Monitors, NoKey, StatusKeys, NoReading
<1>4. NoSession \in Sessions
  BY DEF NoSession, Sessions, SessionPhases
<1>5. NoCallback \in [op : {"none", "made", "arrived", "removed", "counting"},
                      device : Devices \cup {NoDevice}]
  BY DEF NoCallback
<1>6. DevicesTypeOK
  <2>1. /\ monitor \in [Devices -> Monitors] /\ outputs \in [Names -> Devices \cup {NoDevice}]
        /\ monitors \in [Names -> Devices \cup {NoDevice}]
    BY <1>3 DEF DevicesInit
  <2>2. shown \in [names : SUBSET Names, status : Fields, modes : Devices \cup {NoDevice}]
    BY <1>3 DEF DevicesInit
  <2> QED BY <1>2, <1>3, <1>4, <1>5, <2>1, <2>2
             DEF DevicesInit, DevicesTypeOK, Monitors, Sessions, Places, Unobserved
<1>7. ListInv
  BY <1>2 DEF DevicesInit, ListInv, NoCallback, NamesFollowTheLists, Listed, PlaybacksHaveADevice,
              DevicesOfTheirOwnAreListed, Unobserved
<1>8. MonitorInv
  BY DEF DevicesInit, MonitorInv, StatusIsOfItsVersion, NoMonitor, NoStatus, NoCallback
<1>9. ModesInv
  BY DEF DevicesInit, ModesInv, NoSession
<1> QED BY <1>6, <1>7, <1>8, <1>9 DEF ShownInv

LEMMA ShownNext == ShownInv /\ [DevicesNext]_device_vars => ShownInv'
<1> SUFFICES ASSUME ShownInv, [DevicesNext]_device_vars PROVE ShownInv'
  OBVIOUS
<1>1. CASE Discovery
  BY <1>1, ArrivedKeepsInv, RemovedKeepsInv, SubscribeKeepsInv, ArrivalFailsKeepsInv, ListKeepsInv,
     UnlistKeepsInv, CountKeepsInv DEF Discovery
<1>2. CASE Monitoring
  BY <1>2, NotifyKeepsInv, ReadingKeepsInv, PollKeepsInv DEF Monitoring
<1>3. CASE Preparing
  BY <1>3, ObserveListKeepsInv, ShowNamesKeepsInv, ShowStatusKeepsInv, ReselectKeepsInv,
     ObserveModesKeepsInv, ShowModesKeepsInv, ExistingKeepsInv, StartKeepsInv DEF Preparing
<1>4. CASE Playing
  BY <1>4, PlayingKeepsInv
<1>5. CASE Changing
  BY <1>5, SignalKeepsInv, TemperatureKeepsInv, OptionKeepsInv DEF Changing
<1>6. CASE UNCHANGED device_vars
  <2>1. DevicesTypeOK'
    BY <1>6 DEF ShownInv, DevicesTypeOK, device_vars, world, fixed, lists, worker, view
  <2>2. ListInv' /\ MonitorInv' /\ ModesInv'
    BY <1>6, ListsAlone, MonitorsAlone, ModesAlone
       DEF ShownInv, device_vars, world, fixed, lists, worker, view
  <2> QED BY <2>1, <2>2 DEF ShownInv
<1> QED BY <1>1, <1>2, <1>3, <1>4, <1>5, <1>6 DEF DevicesNext

\* The invariant holds for any number of devices, names, reports and changes.
THEOREM DevicesInvariance == DevicesSpec => []ShownInv
BY ShownInitially, ShownNext, PTL DEF DevicesSpec

\* What prepare shows of the list of devices, of a device's monitor and of a
\* playback's modes is what registry.cpp, device_monitor.cpp and the control executor
\* have written, or is about to be noticed by its version.
THEOREM DevicesStayShown == DevicesSpec => []DevicesAreShown
<1>1. ShownInv => DevicesAreShown
  <2> SUFFICES ASSUME ShownInv PROVE DevicesAreShown
    OBVIOUS
  <2>1. MonitorsFollowTheirDevices
    BY DEF ShownInv, MonitorInv, MonitorsFollowTheirDevices
  <2>2. ModesAreOfTheirVersion
    BY DEF ShownInv, ModesInv, ModesAreOfTheirVersion, NoKey
  <2> QED BY <2>1, <2>2 DEF ShownInv, ListInv, MonitorInv, DevicesAreShown
<1> QED BY <1>1, DevicesInvariance, PTL
=============================================================================
