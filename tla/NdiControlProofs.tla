---------------------------- MODULE NdiControlProofs ----------------------------
(***************************************************************************)
(* Machine-checked proofs about the NDI part of the program, for any set   *)
(* of captures, sources, senders and streams.                              *)
(*                                                                         *)
(* The argument is about the one queue of the executor, and the same for   *)
(* the input and for the output: what an owner has let go of has its stop  *)
(* in the queue, and every start behind it in the queue comes after that   *)
(* stop. It is stated once, of any owner (Disciplined), and used twice.    *)
(***************************************************************************)
EXTENDS NdiControl, Integers, TLAPS

-----------------------------------------------------------------------------
(* The discipline of an owner whose devices are C, in a queue T with task R in *)
(* hand: current is the device it has, Open are those that are open, Idle have *)
(* not been started or have stopped, Free have no object.                      *)

StartOf(c) == [op |-> "start", object |-> c]
StopOf(c) == [op |-> "stop", object |-> c]
Starts(T, c) == {i \in DOMAIN T : T[i] = StartOf(c)}
Ends(T, c) == {i \in DOMAIN T : T[i] = StopOf(c)}

\* It is open or will be; it will be stopped; the task is of another owner.
Live(T, R, c, Open) == c \in Open \/ Starts(T, c) # {} \/ R = StartOf(c)
Doomed(T, R, c) == Ends(T, c) # {} \/ R = StopOf(c)
Foreign(R, C) == \A c \in C : R # StartOf(c) /\ R # StopOf(c)

\* A device is started once and stopped after that, and it is the owner's or is
\* going to be stopped.
Own(T, R, current, Open, Idle, Free, c) ==
    /\ \A i, j \in Starts(T, c) : i = j
    /\ \A i \in Starts(T, c), j \in Ends(T, c) : i < j
    /\ R \in {StartOf(c), StopOf(c)} \/ c \in Open \/ c \in Idle => Starts(T, c) = {}
    /\ Live(T, R, c, Open) /\ c # current => Doomed(T, R, c)
    /\ Doomed(T, R, c) => c # current
    /\ c \in Idle => c \notin Open /\ R # StartOf(c) /\ c # current
    /\ c \in Free => c \in Idle /\ ~Doomed(T, R, c)

\* Between the starts of two devices there is the stop of the first.
Apart(T, R, Open, c, d) ==
    /\ \A i \in Starts(T, d) :
          /\ c \in Open \/ R = StartOf(c) => R = StopOf(c) \/ \E k \in Ends(T, c) : k < i
          /\ \A j \in Starts(T, c) : j < i => \E k \in Ends(T, c) : j < k /\ k < i
    /\ R = StartOf(d) => c \notin Open
    /\ ~(c \in Open /\ d \in Open)

Disciplined(T, R, C, current, Open, Idle, Free) ==
    /\ \A c \in C : Own(T, R, current, Open, Idle, Free, c)
    /\ \A c, d \in C : c # d => Apart(T, R, Open, c, d)

-----------------------------------------------------------------------------
(* The inductive invariant *)

Work == Input!Tasks \cup Output!Tasks

\* The runtime goes when nothing is left to do, and the executor is closed when
\* nobody is left to post.
ExecutorInv ==
    /\ tasks \in Seq(Work) /\ running \in Work \cup {None}
    /\ at \in {"begin", "started", "joining"} /\ closing \in BOOLEAN /\ runtime \in BOOLEAN
    /\ ~runtime => closing /\ tasks = <<>> /\ running = None
    /\ closing => input_node = "gone" /\ output_node = "gone"

\* The input's side.
Receiving == {c \in Captures : receiver[c]}
InputFree == {c \in Captures : input_phase[c] = "none"}
InputIdle == {c \in Captures : input_phase[c] \in {"none", "stopped"}}
InputQueue == Disciplined(tasks, running, Captures, capture, Receiving, InputIdle, InputFree)
InputTypes ==
    /\ input_node \in {"alive", "gone"}
    /\ input_selection \in Sources \cup {None, Unset}
    /\ capture \in Captures \cup {None}
    /\ input_phase \in [Captures -> Input!Phases]
    /\ input_stop_requested \in [Captures -> BOOLEAN]
    /\ input_worker_running \in [Captures -> BOOLEAN]
    /\ thread \in [Captures -> {"none", "running", "failing", "ended"}]
    /\ receiver \in [Captures -> BOOLEAN]
InputInv ==
    /\ input_node = "gone" => capture = None
    /\ \A c \in Captures :
        /\ thread[c] # "none" => receiver[c]
        /\ receiver[c] => runtime
        /\ input_stop_requested[c] => c # capture /\ input_phase[c] # "none"
        /\ running = StartOf(c) /\ at = "begin" => ~receiver[c]

\* The output's side.
Sending == {s \in Senders : instance[s]}
OutputFree == {s \in Senders : output_phase[s] = "none"}
OutputIdle == {s \in Senders : output_phase[s] \in {"none", "stopped"}}
OutputQueue == Disciplined(tasks, running, Senders, sender, Sending, OutputIdle, OutputFree)
OutputTypes ==
    /\ output_node \in {"alive", "gone"}
    /\ output_selection \in {"enabled", "disabled", Unset}
    /\ sender \in Senders \cup {None} /\ stream \in Streams \cup {None}
    /\ output_phase \in [Senders -> Output!Phases]
    /\ output_stop_requested \in [Senders -> BOOLEAN]
    /\ output_worker_running \in [Senders -> BOOLEAN]
    /\ stream_state \in [Senders -> Streams \cup {None}]
    /\ taken \in [Senders -> Streams \cup {None}]
    /\ worker \in [Senders -> {"none", "waiting", "streaming", "ended"}]
    /\ instance \in [Senders -> BOOLEAN]
OutputInv ==
    /\ output_node = "gone" => sender = None
    /\ stream # None => sender # None /\ stream_state[sender] = stream
    /\ \A s \in Senders :
        /\ worker[s] # "none" => instance[s]
        /\ instance[s] => runtime
        /\ output_stop_requested[s] => s # sender /\ output_phase[s] # "none"
        /\ running = StartOf(s) => ~instance[s]

InputPart == InputTypes /\ InputQueue /\ InputInv
OutputPart == OutputTypes /\ OutputQueue /\ OutputInv
IInv == ExecutorInv /\ InputPart /\ OutputPart

-----------------------------------------------------------------------------
(* What a step of the owner or of the executor does to the discipline *)

\* Two tasks that are the same are of the same device.
LEMMA TasksDiffer ==
    ASSUME NEW c, NEW d
    PROVE  /\ StartOf(c) # StopOf(d)
           /\ StartOf(c) = StartOf(d) => c = d
           /\ StopOf(c) = StopOf(d) => c = d
BY DEF StartOf, StopOf

\* The places of a device's tasks are places of the queue.
LEMMA Places ==
    ASSUME NEW S, NEW T \in Seq(S), NEW c
    PROVE  Starts(T, c) \subseteq 1..Len(T) /\ Ends(T, c) \subseteq 1..Len(T) /\ Len(T) \in Nat
BY DEF Starts, Ends

\* A task goes to the end of the queue.
LEMMA PlacesWhenPosted ==
    ASSUME NEW S, NEW T \in Seq(S), NEW w \in S, NEW c
    PROVE  /\ Starts(Append(T, w), c) =
                IF w = StartOf(c) THEN Starts(T, c) \cup {Len(T) + 1} ELSE Starts(T, c)
           /\ Ends(Append(T, w), c) =
                IF w = StopOf(c) THEN Ends(T, c) \cup {Len(T) + 1} ELSE Ends(T, c)
<1>1. /\ Len(T) \in Nat /\ DOMAIN T = 1..Len(T)
      /\ DOMAIN Append(T, w) = 1..Len(T) + 1
      /\ \A i \in 1..Len(T) : Append(T, w)[i] = T[i]
      /\ Append(T, w)[Len(T) + 1] = w
  OBVIOUS
<1> DEFINE U == Append(T, w)
<1> HIDE DEF U
<1>2. \A i : i \in 1..Len(T) + 1 <=> i \in 1..Len(T) \/ i = Len(T) + 1
  BY <1>1
<1> QED BY <1>1, <1>2 DEF U, Starts, Ends

\* Taking the first task moves the others up.
LEMMA PlacesWhenTaken ==
    ASSUME NEW S, NEW T \in Seq(S), T # <<>>, NEW c
    PROVE  /\ \A i : i \in Starts(Tail(T), c) <=> i \in Nat \ {0} /\ i + 1 \in Starts(T, c)
           /\ \A i : i \in Ends(Tail(T), c) <=> i \in Nat \ {0} /\ i + 1 \in Ends(T, c)
           /\ Head(T) = StartOf(c) <=> 1 \in Starts(T, c)
           /\ Head(T) = StopOf(c) <=> 1 \in Ends(T, c)
<1> DEFINE U == Tail(T)
<1>1. /\ Len(T) \in Nat \ {0} /\ DOMAIN T = 1..Len(T)
      /\ DOMAIN U = 1..Len(T) - 1
      /\ \A i \in 1..Len(T) - 1 : U[i] = T[i + 1]
      /\ Head(T) = T[1]
  OBVIOUS
<1> HIDE DEF U
<1>2. \A i \in Nat \ {0} : i \in 1..Len(T) - 1 <=> i + 1 \in 1..Len(T)
  BY <1>1
<1>3. \A i : i \in 1..Len(T) - 1 => i \in Nat \ {0}
  BY <1>1
<1>4. 1 \in 1..Len(T)
  BY <1>1
<1> QED BY <1>1, <1>2, <1>3, <1>4 DEF U, Starts, Ends

\* The first task is taken.
LEMMA TakeKeeps ==
    ASSUME NEW S, NEW T \in Seq(S), T # <<>>,
           NEW R, NEW C, Foreign(R, C), NEW current, NEW Open, NEW Idle, NEW Free,
           Disciplined(T, R, C, current, Open, Idle, Free)
    PROVE  Disciplined(Tail(T), Head(T), C, current, Open, Idle, Free)
<1>1. ASSUME NEW c \in C
      PROVE  Own(Tail(T), Head(T), current, Open, Idle, Free, c)
  <2> Own(T, R, current, Open, Idle, Free, c)
    BY DEF Disciplined
  <2>1. \A i \in Starts(T, c) \cup Ends(T, c) : i = 1 \/ (i - 1 \in Nat \ {0} /\ i = (i - 1) + 1)
    BY Places
  <2>2. /\ Ends(Tail(T), c) # {} \/ Head(T) = StopOf(c) <=> Ends(T, c) # {}
        /\ Starts(Tail(T), c) # {} \/ Head(T) = StartOf(c) <=> Starts(T, c) # {}
    BY <2>1, PlacesWhenTaken
  <2> QED
    BY <2>2, PlacesWhenTaken, TasksDiffer, Places DEF Own, Live, Doomed, Foreign
<1>2. ASSUME NEW c \in C, NEW d \in C, c # d
      PROVE  Apart(Tail(T), Head(T), Open, c, d)
  <2> DEFINE U == Tail(T)
  <2>1. \A e \in {c, d} :
            /\ \A i : i \in Starts(U, e) <=> i \in Nat \ {0} /\ i + 1 \in Starts(T, e)
            /\ \A i : i \in Ends(U, e) <=> i \in Nat \ {0} /\ i + 1 \in Ends(T, e)
            /\ Head(T) = StartOf(e) <=> 1 \in Starts(T, e)
            /\ Head(T) = StopOf(e) <=> 1 \in Ends(T, e)
            /\ Starts(T, e) \subseteq Nat \ {0} /\ Ends(T, e) \subseteq Nat \ {0}
    <3> TAKE e \in {c, d}
    <3> QED BY PlacesWhenTaken, Places
  <2>2. Apart(T, R, Open, c, d) /\ R # StartOf(c) /\ R # StopOf(c)
    BY <1>2 DEF Disciplined, Foreign
  <2> HIDE DEF U
  <2>3. \A k \in Ends(T, c) : k = 1 \/ (k - 1 \in Ends(U, c) /\ k - 1 \in Nat)
    BY <2>1
  <2>4. ASSUME NEW i \in Starts(U, d), c \in Open \/ Head(T) = StartOf(c)
        PROVE  Head(T) = StopOf(c) \/ \E k \in Ends(U, c) : k < i
    <3>1. i \in Nat /\ i + 1 \in Starts(T, d)
      BY <2>1
    <3>2. PICK k \in Ends(T, c) : k < i + 1
      BY <2>1, <2>2, <2>4, <3>1 DEF Apart
    <3> QED BY <2>1, <2>3, <3>1, <3>2
  <2>5. ASSUME NEW i \in Starts(U, d), NEW j \in Starts(U, c), j < i
        PROVE  \E k \in Ends(U, c) : j < k /\ k < i
    <3>1. i \in Nat /\ i + 1 \in Starts(T, d) /\ j \in Nat /\ j + 1 \in Starts(T, c)
      BY <2>1
    <3>2. PICK k \in Ends(T, c) : j + 1 < k /\ k < i + 1
      BY <2>2, <2>5, <3>1 DEF Apart
    <3>3. k \in Nat /\ k # 1
      BY <2>1, <3>1, <3>2
    <3>4. k - 1 \in Ends(U, c)
      BY <2>3, <3>3
    <3> QED BY <3>1, <3>2, <3>3, <3>4
  <2>6. Head(T) = StartOf(d) => c \notin Open
    BY <2>1, <2>2 DEF Apart
  <2> QED BY <2>2, <2>4, <2>5, <2>6 DEF Apart, U
<1> QED BY <1>1, <1>2 DEF Disciplined

\* Another owner posts.
LEMMA PostElsewhereKeeps ==
    ASSUME NEW S, NEW T \in Seq(S), NEW w \in S,
           NEW R, NEW C, Foreign(w, C), NEW current, NEW Open, NEW Idle, NEW Free,
           Disciplined(T, R, C, current, Open, Idle, Free)
    PROVE  Disciplined(Append(T, w), R, C, current, Open, Idle, Free)
<1>1. ASSUME NEW c \in C
      PROVE  Starts(Append(T, w), c) = Starts(T, c) /\ Ends(Append(T, w), c) = Ends(T, c)
  <2>1. w # StartOf(c) /\ w # StopOf(c)
    BY DEF Foreign
  <2> QED BY <2>1, PlacesWhenPosted
<1> QED BY <1>1 DEF Disciplined, Own, Apart, Live, Doomed

\* The owner lets go of the device it has, and its stop is posted.
LEMMA PostStopKeeps ==
    ASSUME NEW S, NEW T \in Seq(S), NEW R, NEW C, NEW current \in C, StopOf(current) \in S,
           NEW next, next \notin C, NEW Open, NEW Idle, NEW Free,
           Disciplined(T, R, C, current, Open, Idle, Free)
    PROVE  Disciplined(Append(T, StopOf(current)), R, C, next, Open, Idle, Free)
<1> DEFINE U == Append(T, StopOf(current))
<1>1. ASSUME NEW c \in C
      PROVE  /\ Starts(U, c) = Starts(T, c)
             /\ c # current => Ends(U, c) = Ends(T, c)
             /\ c = current => Ends(U, c) = Ends(T, c) \cup {Len(T) + 1}
  <2>1. StopOf(current) # StartOf(c) /\ (StopOf(current) = StopOf(c) => c = current)
    BY TasksDiffer
  <2> QED BY <2>1, PlacesWhenPosted
<1> HIDE DEF U
<1>2. ASSUME NEW c \in C
      PROVE  Own(U, R, next, Open, Idle, Free, c)
  BY <1>1, Places DEF Disciplined, Own, Live, Doomed
<1>3. ASSUME NEW c \in C, NEW d \in C, c # d
      PROVE  Apart(U, R, Open, c, d)
  BY <1>1, <1>3, Places DEF Disciplined, Apart
<1> QED BY <1>2, <1>3 DEF Disciplined, U

\* The owner, which has none, takes a new device, and its start is posted.
LEMMA PostStartKeeps ==
    ASSUME NEW S, NEW T \in Seq(S), NEW R, NEW C, NEW current, current \notin C,
           NEW Open, NEW Idle, NEW Free, NEW next \in C \cap Free, StartOf(next) \in S,
           Disciplined(T, R, C, current, Open, Idle, Free)
    PROVE  Disciplined(Append(T, StartOf(next)), R, C, next, Open, Idle \ {next}, Free \ {next})
<1> DEFINE U == Append(T, StartOf(next))
<1>1. ASSUME NEW c \in C
      PROVE  /\ Ends(U, c) = Ends(T, c)
             /\ c # next => Starts(U, c) = Starts(T, c)
             /\ c = next => Starts(U, c) = {Len(T) + 1}
  <2>1. Starts(T, next) = {}
    BY DEF Disciplined, Own
  <2>2. StartOf(next) # StopOf(c) /\ (StartOf(next) = StartOf(c) => c = next)
    BY TasksDiffer
  <2> QED BY <2>1, <2>2, PlacesWhenPosted
<1>2. \A c \in C : Starts(T, c) \subseteq 1..Len(T) /\ Ends(T, c) \subseteq 1..Len(T)
  BY Places
<1> HIDE DEF U
<1>3. ASSUME NEW c \in C
      PROVE  Own(U, R, next, Open, Idle \ {next}, Free \ {next}, c)
  BY <1>1, <1>2, Places, TasksDiffer DEF Disciplined, Own, Live, Doomed
<1>4. ASSUME NEW c \in C, NEW d \in C, c # d
      PROVE  Apart(U, R, Open, c, d)
  <2>1. next \notin Open /\ R # StartOf(next) /\ ~Doomed(T, R, next)
    BY DEF Disciplined, Own
  <2>2. CASE c = next
    BY <1>1, <1>2, <1>4, <2>1, <2>2, Places DEF Disciplined, Apart
  <2>3. CASE d = next
    <3>1. Live(T, R, c, Open) => Doomed(T, R, c)
      BY DEF Disciplined, Own
    <3> QED BY <3>1, <1>1, <1>2, <1>4, <2>1, <2>3, Places DEF Disciplined, Own, Apart, Live, Doomed
  <2>4. CASE c # next /\ d # next
    BY <1>1, <1>4, <2>4 DEF Disciplined, Apart
  <2> QED BY <2>2, <2>3, <2>4
<1> QED BY <1>3, <1>4 DEF Disciplined, U

\* A device is idle or free no more.
LEMMA PhaseKeeps ==
    ASSUME NEW T, NEW R, NEW C, NEW current, NEW Open, NEW Idle, NEW Free,
           NEW Idle2 \in SUBSET Idle, NEW Free2 \in SUBSET Free, Free2 \subseteq Idle2,
           Disciplined(T, R, C, current, Open, Idle, Free)
    PROVE  Disciplined(T, R, C, current, Open, Idle2, Free2)
BY DEF Disciplined, Own

\* A task of another owner ends.
LEMMA FinishElsewhereKeeps ==
    ASSUME NEW T, NEW R, NEW C, NEW current, NEW Open, NEW Idle, NEW Free,
           NEW Q, Foreign(Q, C), Foreign(R, C),
           Disciplined(T, R, C, current, Open, Idle, Free)
    PROVE  Disciplined(T, Q, C, current, Open, Idle, Free)
BY DEF Disciplined, Own, Apart, Live, Doomed, Foreign

\* The start in hand opens its device.
LEMMA OpenKeeps ==
    ASSUME NEW T, NEW C, NEW c \in C, NEW current, NEW Open, NEW Idle, NEW Free,
           Disciplined(T, StartOf(c), C, current, Open, Idle, Free)
    PROVE  Disciplined(T, StartOf(c), C, current, Open \cup {c}, Idle, Free)
<1>1. ASSUME NEW d \in C
      PROVE  Own(T, StartOf(c), current, Open \cup {c}, Idle, Free, d)
  BY TasksDiffer DEF Disciplined, Own, Live, Doomed
<1>2. ASSUME NEW d \in C, NEW e \in C, d # e
      PROVE  Apart(T, StartOf(c), Open \cup {c}, d, e)
  BY <1>2, TasksDiffer DEF Disciplined, Apart
<1> QED BY <1>1, <1>2 DEF Disciplined

\* The start in hand ends, with its device open or not.
LEMMA StartEndsKeeps ==
    ASSUME NEW T, NEW C, NEW c \in C, NEW current, NEW Open, NEW Idle, NEW Free,
           NEW Q, Foreign(Q, C), NEW Idle2, NEW Free2,
           Disciplined(T, StartOf(c), C, current, Open, Idle, Free),
           Idle2 \subseteq Idle \cup {c}, Free2 \subseteq Free \cup {c}, Free2 \subseteq Idle2,
           c \in Idle2 => c # current /\ c \notin Open,
           c \in Free2 => Ends(T, c) = {}
    PROVE  Disciplined(T, Q, C, current, Open, Idle2, Free2)
<1>1. ASSUME NEW d \in C
      PROVE  Own(T, Q, current, Open, Idle2, Free2, d)
  BY TasksDiffer DEF Disciplined, Own, Live, Doomed, Foreign
<1>2. ASSUME NEW d \in C, NEW e \in C, d # e
      PROVE  Apart(T, Q, Open, d, e)
  BY <1>2, TasksDiffer DEF Disciplined, Apart, Foreign
<1> QED BY <1>1, <1>2 DEF Disciplined

\* The stop in hand ends, with its device closed.
LEMMA StopEndsKeeps ==
    ASSUME NEW T, NEW C, NEW c \in C, NEW current, NEW Open, NEW Idle, NEW Free,
           NEW Q, Foreign(Q, C), NEW Idle2, NEW Free2,
           Disciplined(T, StopOf(c), C, current, Open, Idle, Free),
           Idle2 \subseteq Idle \cup {c}, Free2 \subseteq Free \cup {c}, Free2 \subseteq Idle2,
           c \in Free2 => Ends(T, c) = {}
    PROVE  Disciplined(T, Q, C, current, Open \ {c}, Idle2, Free2)
<1>1. ASSUME NEW d \in C
      PROVE  Own(T, Q, current, Open \ {c}, Idle2, Free2, d)
  BY TasksDiffer DEF Disciplined, Own, Live, Doomed, Foreign
<1>2. ASSUME NEW d \in C, NEW e \in C, d # e
      PROVE  Apart(T, Q, Open \ {c}, d, e)
  BY <1>2, TasksDiffer DEF Disciplined, Apart, Foreign
<1> QED BY <1>1, <1>2 DEF Disciplined

-----------------------------------------------------------------------------
(* The invariant says what the property does *)

\* None is not a task of either node, nor one of their devices.
LEMMA NoneIsNoTask ==
    /\ Foreign(None, Captures) /\ Foreign(None, Senders)
    /\ None \notin Captures /\ None \notin Senders
BY NdiAssumption DEF Foreign, StartOf, StopOf, Input!Tasks, Output!Tasks,
   Input!SentinelsAssumption, Output!OutputAssumption

\* A task of one node is not a task of the other.
LEMMA TasksOfOne ==
    /\ \A c \in Captures : /\ StartOf(c) \in Work /\ StopOf(c) \in Work
                           /\ Foreign(StartOf(c), Senders) /\ Foreign(StopOf(c), Senders)
    /\ \A s \in Senders : /\ StartOf(s) \in Work /\ StopOf(s) \in Work
                          /\ Foreign(StartOf(s), Captures) /\ Foreign(StopOf(s), Captures)
BY NdiAssumption DEF Foreign, StartOf, StopOf, Work, Input!Tasks, Output!Tasks

\* A task is a start or a stop of a device of one of the nodes.
LEMMA TasksAreTheirs ==
    ASSUME NEW w \in Work
    PROVE  /\ w.object \in Captures \cup Senders
           /\ w.op = "start" => w = StartOf(w.object)
           /\ w.op = "stop" => w = StopOf(w.object)
           /\ w.object \in Captures => w \in Input!Tasks
           /\ w.object \in Senders => w \in Output!Tasks
BY NdiAssumption DEF StartOf, StopOf, Work, Input!Tasks, Output!Tasks

\* The invariant implies the property.
LEMMA IInvIsEnough == IInv => DevicesAreUsedInTime
<1> SUFFICES ASSUME IInv PROVE DevicesAreUsedInTime
  OBVIOUS
<1>0. /\ ExecutorInv /\ InputTypes /\ InputQueue /\ InputInv
      /\ OutputTypes /\ OutputQueue /\ OutputInv
  BY DEF IInv, InputPart, OutputPart
<1>1. \A i \in DOMAIN tasks : tasks[i] \in Work
  BY <1>0 DEF ExecutorInv
<1>2. ASSUME NEW c \in Captures, input_phase[c] = "none"
      PROVE  /\ c # capture /\ ~receiver[c]
             /\ Input!Task("start", c) \notin Input!Pending /\ Input!Task("stop", c) \notin Input!Pending
             /\ running # None => running.object # c
  <2>1. Own(tasks, running, capture, Receiving, InputIdle, InputFree, c) /\ c \in InputFree
    BY <1>0, <1>2 DEF InputQueue, Disciplined, InputFree
  <2>2. /\ c # capture /\ c \notin Receiving /\ Starts(tasks, c) = {} /\ Ends(tasks, c) = {}
        /\ running # StartOf(c) /\ running # StopOf(c)
    BY <2>1 DEF Own, Doomed
  <2>3. running # None => running.object # c
    <3> SUFFICES ASSUME running # None, running.object = c PROVE FALSE
      OBVIOUS
    <3>1. running \in Work /\ running.op \in {"start", "stop"}
      BY <1>0 DEF ExecutorInv, Work, Input!Tasks, Output!Tasks
    <3> QED BY <3>1, <2>2, TasksAreTheirs
  <2> QED
    BY <2>2, <2>3 DEF Starts, Ends, StartOf, StopOf, Input!Task, Input!Pending, Receiving
<1>3. Input!TypeOK
  BY <1>0, <1>1, <1>2, TasksAreTheirs DEF ExecutorInv, InputTypes, Input!TypeOK
<1>4. Output!TypeOK
  BY <1>0, <1>1, TasksAreTheirs DEF OutputTypes, OutputInv, Output!TypeOK
<1>5. Input!ReceiversAreUsedInTime
  BY <1>0, <1>2 DEF InputInv, Input!ReceiversAreUsedInTime
<1>6. Input!OneReceiver
  BY <1>0 DEF InputQueue, Disciplined, Apart, Receiving, Input!OneReceiver
<1>7. Output!SendersAreUsedInTime
  BY <1>0 DEF OutputQueue, OutputInv, Disciplined, Apart, Sending, Output!SendersAreUsedInTime
<1> QED
  BY <1>0, <1>3, <1>4, <1>5, <1>6, <1>7 DEF DevicesAreUsedInTime, OutputInv

-----------------------------------------------------------------------------
(* A step of the other node *)

Elsewhere(C) ==
    /\ running' = running \/ (running' = None /\ Foreign(running, C))
    /\ at' = at \/ Foreign(running', C)
    /\ \/ tasks' = tasks
       \/ \E v \in Work : Foreign(v, C) /\ tasks' = Append(tasks, v)
       \/ \E v, w \in Work : Foreign(v, C) /\ Foreign(w, C) /\ tasks' = Append(Append(tasks, v), w)

\* A step of one node does not disturb the discipline of the other,
LEMMA DisciplinedElsewhere ==
    ASSUME NEW C, NEW current, NEW Open, NEW Idle, NEW Free,
           tasks \in Seq(Work), Foreign(None, C), Elsewhere(C),
           Disciplined(tasks, running, C, current, Open, Idle, Free)
    PROVE  Disciplined(tasks', running', C, current, Open, Idle, Free)
<1>1. Disciplined(tasks', running, C, current, Open, Idle, Free)
  <2>1. CASE tasks' = tasks
    BY <2>1
  <2>2. ASSUME NEW v \in Work, Foreign(v, C), tasks' = Append(tasks, v)
        PROVE  Disciplined(tasks', running, C, current, Open, Idle, Free)
    BY <2>2, PostElsewhereKeeps, Zenon
  <2>3. ASSUME NEW v \in Work, NEW w \in Work, Foreign(v, C), Foreign(w, C),
               tasks' = Append(Append(tasks, v), w)
        PROVE  Disciplined(tasks', running, C, current, Open, Idle, Free)
    <3>1. Append(tasks, v) \in Seq(Work)
      OBVIOUS
    <3>2. Disciplined(Append(tasks, v), running, C, current, Open, Idle, Free)
      BY <2>3, PostElsewhereKeeps, Zenon
    <3> QED BY <2>3, <3>1, <3>2, PostElsewhereKeeps, Zenon
  <2> QED BY <2>1, <2>2, <2>3 DEF Elsewhere
<1>2. CASE running' = running
  BY <1>1, <1>2
<1>3. CASE running' = None /\ Foreign(running, C)
  BY <1>1, <1>3, FinishElsewhereKeeps, Zenon
<1> QED BY <1>2, <1>3 DEF Elsewhere

\* so nothing of the output changes with a step of the input,
LEMMA OutputUndisturbed ==
    ASSUME ExecutorInv, OutputPart, UNCHANGED output, runtime' = runtime, Elsewhere(Senders)
    PROVE  OutputPart'
<1> USE DEF output
<1>1. OutputTypes'
  BY DEF OutputPart, OutputTypes
<1>2. OutputQueue'
  <2>1. /\ Disciplined(tasks, running, Senders, sender, Sending, OutputIdle, OutputFree)
        /\ tasks \in Seq(Work)
    BY DEF OutputPart, OutputQueue, ExecutorInv
  <2>2. Disciplined(tasks', running', Senders, sender, Sending, OutputIdle, OutputFree)
    BY <2>1, NoneIsNoTask, DisciplinedElsewhere, Zenon
  <2>3. sender' = sender /\ Sending' = Sending /\ OutputIdle' = OutputIdle /\ OutputFree' = OutputFree
    BY DEF Sending, OutputIdle, OutputFree
  <2> QED BY <2>2, <2>3 DEF OutputQueue
<1>3. OutputInv'
  BY NoneIsNoTask DEF OutputPart, OutputInv, Elsewhere, Foreign
<1> QED BY <1>1, <1>2, <1>3 DEF OutputPart

\* and nothing of the input with a step of the output.
LEMMA InputUndisturbed ==
    ASSUME ExecutorInv, InputPart, UNCHANGED input, Elsewhere(Captures)
    PROVE  InputPart'
<1> USE DEF input
<1>1. InputTypes'
  BY DEF InputPart, InputTypes
<1>2. InputQueue'
  <2>1. /\ Disciplined(tasks, running, Captures, capture, Receiving, InputIdle, InputFree)
        /\ tasks \in Seq(Work)
    BY DEF InputPart, InputQueue, ExecutorInv
  <2>2. Disciplined(tasks', running', Captures, capture, Receiving, InputIdle, InputFree)
    BY <2>1, NoneIsNoTask, DisciplinedElsewhere, Zenon
  <2>3. /\ capture' = capture /\ Receiving' = Receiving
        /\ InputIdle' = InputIdle /\ InputFree' = InputFree
    BY DEF Receiving, InputIdle, InputFree
  <2> QED BY <2>2, <2>3 DEF InputQueue
<1>3. InputInv'
  BY NoneIsNoTask DEF InputPart, InputInv, Elsewhere, Foreign
<1> QED BY <1>1, <1>2, <1>3 DEF InputPart

-----------------------------------------------------------------------------
(* The input *)

\* What it posts is its own.
LEMMA InputPosts ==
    ASSUME IInv, input_node = "alive", UNCHANGED <<running, at, closing, runtime>>,
           UNCHANGED output,
           \/ tasks' = tasks
           \/ \E v \in Input!Tasks : tasks' = Append(tasks, v)
           \/ \E v, w \in Input!Tasks : tasks' = Append(Append(tasks, v), w)
    PROVE  ExecutorInv' /\ OutputPart' /\ runtime
<1>0. ExecutorInv /\ OutputPart
  BY DEF IInv
<1>1. \A v \in Input!Tasks : v \in Work /\ Foreign(v, Senders)
  BY NdiAssumption DEF Foreign, StartOf, StopOf, Work, Input!Tasks
<1>2. tasks' \in Seq(Work)
  BY <1>0, <1>1 DEF ExecutorInv
<1>3. Elsewhere(Senders)
  BY <1>1 DEF Elsewhere
<1>4. OutputPart'
  BY <1>0, <1>3, OutputUndisturbed
<1>5. ExecutorInv' /\ runtime
  BY <1>0, <1>2 DEF ExecutorInv, output
<1> QED BY <1>4, <1>5

\* A frame replaces the capture.
LEMMA InputPrepare ==
    ASSUME IInv, NEW wanted \in Sources \cup {None}, Input!Prepare(wanted), UNCHANGED output
    PROVE  IInv'
<1> USE NoneIsNoTask
<1>0. /\ ExecutorInv /\ InputTypes /\ InputQueue /\ InputInv /\ OutputPart
      /\ input_node = "alive" /\ ~closing /\ runtime
  BY DEF IInv, ExecutorInv, InputPart, Input!Prepare
<1> DEFINE stops == IF capture = None THEN <<>> ELSE <<StopOf(capture)>>
           T == IF capture = None THEN tasks ELSE Append(tasks, StopOf(capture))
<1>1. Input!Stops = stops
  <2>1. capture # None => capture \notin InputIdle
    BY <1>0 DEF InputQueue, Disciplined, Own, InputTypes
  <2>2. capture # None => input_phase[capture] # "stopped"
    BY <2>1, <1>0 DEF InputIdle, InputTypes
  <2> QED BY <2>2 DEF Input!Stops, Input!Task, StopOf
<1>2. Input!Requested = [c \in Captures |-> c = capture \/ input_stop_requested[c]]
  <2>1. {task.object : task \in {stops[i] : i \in DOMAIN stops}} =
            IF capture = None THEN {} ELSE {capture}
    BY DEF StopOf
  <2>2. \A c \in Captures : c \in (IF capture = None THEN {} ELSE {capture}) <=> c = capture
    OBVIOUS
  <2>3. Input!Requested =
            [c \in Captures |-> c \in {task.object : task \in {stops[i] : i \in DOMAIN stops}}
                                \/ input_stop_requested[c]]
    BY <1>1 DEF Input!Requested
  <2> HIDE DEF stops
  <2> QED BY <2>1, <2>2, <2>3
<1>3. /\ T \in Seq(Work)
      /\ Disciplined(T, running, Captures, None, Receiving, InputIdle, InputFree)
      /\ tasks \o stops = T
  <2>1. CASE capture = None
    BY <1>0, <2>1 DEF InputQueue, ExecutorInv
  <2>2. CASE capture # None
    <3>1. capture \in Captures /\ StopOf(capture) \in Work /\ tasks \in Seq(Work)
      BY <1>0, <2>2, TasksOfOne DEF InputTypes, ExecutorInv
    <3>2. Disciplined(tasks, running, Captures, capture, Receiving, InputIdle, InputFree)
      BY <1>0 DEF InputQueue
    <3>3. Disciplined(Append(tasks, StopOf(capture)), running, Captures, None, Receiving,
                      InputIdle, InputFree)
      BY <3>1, <3>2, PostStopKeeps, Zenon
    <3> QED BY <3>1, <3>3, <2>2
  <2> QED BY <2>1, <2>2
<1>4. /\ UNCHANGED <<running, at, closing, input_node, input_worker_running, thread, receiver, runtime>>
      /\ input_selection' = wanted
      /\ input_stop_requested' = [c \in Captures |-> c = capture \/ input_stop_requested[c]]
  BY <1>2 DEF Input!Prepare
<1>5. CASE /\ wanted = None
           /\ capture' = None
           /\ tasks' = Input!Posted(Input!Stops)
           /\ UNCHANGED input_phase
  <2>1. tasks' = T
    BY <1>0, <1>1, <1>3, <1>5 DEF Input!Posted
  <2>2. tasks' = tasks \/ \E v \in Input!Tasks : tasks' = Append(tasks, v)
    BY <1>0, <2>1 DEF InputTypes, StopOf, Input!Tasks
  <2>3. ExecutorInv' /\ OutputPart'
    BY <1>0, <1>4, <2>2, InputPosts
  <2>4. InputTypes'
    BY <1>0, <1>4, <1>5 DEF InputTypes
  <2>5. InputQueue'
    <3>1. Receiving' = Receiving /\ InputIdle' = InputIdle /\ InputFree' = InputFree
      BY <1>4, <1>5 DEF Receiving, InputIdle, InputFree
    <3> QED BY <1>3, <1>4, <1>5, <2>1, <3>1 DEF InputQueue
  <2>6. InputInv'
    <3>1. \A c \in Captures : c = capture => input_phase[c] # "none"
      BY <1>0 DEF InputQueue, Disciplined, Own, InputFree
    <3> QED BY <1>0, <1>4, <1>5, <3>1 DEF InputInv
  <2> QED BY <2>3, <2>4, <2>5, <2>6 DEF IInv, InputPart
<1>6. ASSUME NEW c \in Captures,
             wanted # None,
             input_phase[c] = "none",
             capture' = c,
             input_phase' = [input_phase EXCEPT ![c] = "starting"],
             tasks' = Input!Posted(Input!Replacement(c))
      PROVE  IInv'
  <2>1. tasks' = Append(T, StartOf(c))
    <3>1. tasks' = tasks \o (stops \o <<StartOf(c)>>)
      BY <1>0, <1>1, <1>6 DEF Input!Posted, Input!Replacement, StartOf, Input!Task
    <3>2. tasks \in Seq(Work) /\ stops \in Seq(Work)
      BY <1>0, TasksOfOne DEF ExecutorInv, InputTypes
    <3>3. tasks \o (stops \o <<StartOf(c)>>) = Append(tasks \o stops, StartOf(c))
      <4> HIDE DEF stops
      <4>1. StartOf(c) \in Work
        BY TasksOfOne
      <4> QED BY <3>2, <4>1
    <3> QED BY <3>1, <3>3, <1>3
  <2>2. \/ \E v \in Input!Tasks : tasks' = Append(tasks, v)
        \/ \E v, w \in Input!Tasks : tasks' = Append(Append(tasks, v), w)
    BY <1>0, <2>1 DEF InputTypes, StopOf, StartOf, Input!Tasks
  <2>3. ExecutorInv' /\ OutputPart'
    BY <1>0, <1>4, <2>2, InputPosts
  <2>4. InputTypes'
    BY <1>0, <1>4, <1>6 DEF InputTypes, Input!Phases
  <2>5. InputQueue'
    <3>1. /\ Receiving' = Receiving /\ InputIdle' = InputIdle \ {c}
          /\ InputFree' = InputFree \ {c} /\ c \in Captures \cap InputFree
      BY <1>0, <1>4, <1>6 DEF Receiving, InputIdle, InputFree, InputTypes
    <3>2. Disciplined(Append(T, StartOf(c)), running, Captures, c, Receiving,
                      InputIdle \ {c}, InputFree \ {c})
      <4> HIDE DEF T
      <4>1. StartOf(c) \in Work
        BY TasksOfOne
      <4> QED BY <1>3, <3>1, <4>1, PostStartKeeps, Zenon
    <3> HIDE DEF T
    <3> QED BY <1>4, <1>6, <2>1, <3>1, <3>2 DEF InputQueue
  <2>6. InputInv'
    <3>1. \A d \in Captures : d = capture => input_phase[d] # "none"
      BY <1>0 DEF InputQueue, Disciplined, Own, InputFree
    <3> QED BY <1>0, <1>4, <1>6, <3>1 DEF InputInv, InputTypes
  <2> QED BY <2>3, <2>4, <2>5, <2>6 DEF IInv, InputPart
<1> QED BY <1>5, <1>6 DEF Input!Prepare

\* The node is destroyed.
LEMMA InputRemoveNode ==
    ASSUME IInv, Input!RemoveNode, UNCHANGED output
    PROVE  IInv'
<1> USE NoneIsNoTask
<1>0. /\ ExecutorInv /\ InputTypes /\ InputQueue /\ InputInv /\ OutputPart
      /\ input_node = "alive" /\ ~closing /\ runtime
  BY DEF IInv, ExecutorInv, InputPart, Input!RemoveNode
<1>1. /\ UNCHANGED <<running, at, closing, input_phase, input_worker_running, thread, receiver, runtime>>
      /\ input_node' = "gone" /\ capture' = None /\ input_selection' = Unset
      /\ input_stop_requested' = [c \in Captures |-> c = capture \/ input_stop_requested[c]]
      /\ tasks' = IF capture = None THEN tasks ELSE Append(tasks, StopOf(capture))
  BY <1>0 DEF Input!RemoveNode, Input!Posted, ExecutorInv, StopOf, Input!Task
<1>2. tasks' = tasks \/ \E v \in Input!Tasks : tasks' = Append(tasks, v)
  BY <1>0, <1>1 DEF InputTypes, StopOf, Input!Tasks
<1>3. ExecutorInv' /\ OutputPart'
  BY <1>0, <1>1, <1>2, InputPosts
<1>4. InputTypes'
  BY <1>0, <1>1 DEF InputTypes
<1>5. InputQueue'
  <2>1. Receiving' = Receiving /\ InputIdle' = InputIdle /\ InputFree' = InputFree
    BY <1>1 DEF Receiving, InputIdle, InputFree
  <2>2. CASE capture = None
    BY <1>0, <1>1, <2>1, <2>2 DEF InputQueue
  <2>3. CASE capture # None
    <3>1. capture \in Captures /\ StopOf(capture) \in Work /\ tasks \in Seq(Work)
      BY <1>0, <2>3, TasksOfOne DEF InputTypes, ExecutorInv
    <3>2. Disciplined(tasks, running, Captures, capture, Receiving, InputIdle, InputFree)
      BY <1>0 DEF InputQueue
    <3>3. Disciplined(Append(tasks, StopOf(capture)), running, Captures, None, Receiving,
                      InputIdle, InputFree)
      BY <3>1, <3>2, PostStopKeeps, Zenon
    <3> QED BY <1>1, <2>1, <2>3, <3>3 DEF InputQueue
  <2> QED BY <2>2, <2>3
<1>6. InputInv'
  <2>1. \A c \in Captures : c = capture => input_phase[c] # "none"
    BY <1>0 DEF InputQueue, Disciplined, Own, InputFree
  <2> QED BY <1>0, <1>1, <2>1 DEF InputInv
<1> QED BY <1>3, <1>4, <1>5, <1>6 DEF IInv, InputPart

\* Another node is created.
LEMMA InputAddNode ==
    ASSUME IInv, Input!AddNode, UNCHANGED output
    PROVE  IInv'
<1>0. ExecutorInv /\ InputTypes /\ InputQueue /\ InputInv /\ OutputPart
  BY DEF IInv, InputPart
<1>1. /\ UNCHANGED <<tasks, running, at, closing, input_selection, capture, input_phase,
                     input_stop_requested, input_worker_running, thread, receiver, runtime>>
      /\ input_node' = "alive" /\ ~closing
  BY DEF Input!AddNode, Input!executor, Input!objects
<1>2. OutputPart'
  BY <1>0, <1>1, OutputUndisturbed DEF Elsewhere
<1>3. InputQueue'
  BY <1>0, <1>1 DEF InputQueue, Receiving, InputIdle, InputFree
<1> QED
  BY <1>0, <1>1, <1>2, <1>3 DEF IInv, InputPart, ExecutorInv, InputTypes, InputInv, output

\* A capture thread fails or ends.
LEMMA InputThread ==
    ASSUME IInv, NEW c \in Captures, Input!Thread(c), UNCHANGED output
    PROVE  IInv'
<1>0. ExecutorInv /\ InputTypes /\ InputQueue /\ InputInv /\ OutputPart
  BY DEF IInv, InputPart
<1>1. /\ UNCHANGED <<tasks, running, at, closing, input_node, input_selection, capture,
                     input_stop_requested, receiver, runtime>>
      /\ \/ UNCHANGED input_phase
         \/ input_phase' = [input_phase EXCEPT ![c] = "failed"]
      /\ thread[c] # "none"
      /\ \E t \in {"failing", "ended"} : thread' = [thread EXCEPT ![c] = t]
      /\ \/ UNCHANGED input_worker_running
         \/ input_worker_running' = [input_worker_running EXCEPT ![c] = FALSE]
  BY DEF Input!Thread, Input!CaptureFails, Input!CaptureEnds, Input!executor
<1>2. OutputPart'
  BY <1>0, <1>1, OutputUndisturbed DEF Elsewhere
<1>3. InputTypes'
  BY <1>0, <1>1 DEF InputTypes, Input!Phases
<1>4. InputQueue'
  <2>1. Receiving' = Receiving
    BY <1>1 DEF Receiving
  <2>2. InputIdle' \in SUBSET InputIdle /\ InputFree' \in SUBSET InputFree /\ InputFree' \subseteq InputIdle'
    BY <1>0, <1>1 DEF InputIdle, InputFree, InputTypes
  <2>3. Disciplined(tasks, running, Captures, capture, Receiving, InputIdle, InputFree)
    BY <1>0 DEF InputQueue
  <2>4. Disciplined(tasks, running, Captures, capture, Receiving, InputIdle', InputFree')
    BY <2>2, <2>3, PhaseKeeps, Zenon
  <2> QED BY <1>1, <2>1, <2>4 DEF InputQueue
<1>5. InputInv'
  BY <1>0, <1>1 DEF InputInv, InputTypes
<1>6. ExecutorInv'
  BY <1>0, <1>1 DEF ExecutorInv, output
<1> QED BY <1>2, <1>3, <1>4, <1>5, <1>6 DEF IInv, InputPart

\* A task in hand of the input.
LEMMA InputInHand ==
    ASSUME IInv, NEW op \in {"start", "stop"}, NEW place, Input!InHand(op, place)
    PROVE  /\ running.object \in Captures /\ running # None /\ at = place
           /\ running = IF op = "start" THEN StartOf(running.object) ELSE StopOf(running.object)
           /\ Foreign(running, Senders) /\ runtime
<1>1. running \in Work /\ running.op = op /\ running.object \in Captures /\ at = place /\ runtime
  BY DEF IInv, ExecutorInv, Input!InHand
<1> QED BY <1>1, TasksAreTheirs, TasksOfOne DEF Input!InHand

\* A device no task in the queue refers to.
LEMMA Unreferred ==
    ASSUME NEW c, c \notin {task.object : task \in Input!Pending}
    PROVE  Starts(tasks, c) = {} /\ Ends(tasks, c) = {}
BY DEF Input!Pending, Starts, Ends, StartOf, StopOf

\* What the other side, and the executor, see of it.
LEMMA InputFinishes ==
    ASSUME IInv, running # None, Foreign(running, Senders), Finish, UNCHANGED <<runtime, input_node>>,
           UNCHANGED output
    PROVE  ExecutorInv' /\ OutputPart'
<1>1. ExecutorInv /\ OutputPart
  BY DEF IInv
<1>2. Elsewhere(Senders)
  BY NoneIsNoTask DEF Finish, Elsewhere
<1>3. OutputPart'
  BY <1>1, <1>2, OutputUndisturbed
<1>4. ExecutorInv'
  BY <1>1 DEF Finish, ExecutorInv, output
<1> QED BY <1>3, <1>4

LEMMA InputReaches ==
    ASSUME IInv, running # None, Foreign(running, Senders), UNCHANGED <<runtime, input_node>>,
           NEW place \in {"started", "joining"}, Reach(place), UNCHANGED output
    PROVE  ExecutorInv' /\ OutputPart'
<1>1. ExecutorInv /\ OutputPart
  BY DEF IInv
<1>2. Elsewhere(Senders)
  BY DEF Reach, Elsewhere
<1>3. OutputPart'
  BY <1>1, <1>2, OutputUndisturbed DEF Reach
<1>4. ExecutorInv'
  BY <1>1 DEF Reach, ExecutorInv, output
<1> QED BY <1>3, <1>4

\* A start ends, in whatever phase it leaves the capture.
LEMMA InputStartEnds ==
    ASSUME IInv, NEW c \in Captures, running = StartOf(c),
           NEW p \in {"running", "stopped", "failed"},
           p = "stopped" => c # capture,
           p # "running" => ~receiver[c],
           Input!Released(c, p), Finish,
           UNCHANGED <<input_node, input_selection, capture, input_worker_running, thread, receiver,
                       runtime>>,
           UNCHANGED output
    PROVE  IInv'
<1>0. ExecutorInv /\ InputTypes /\ InputQueue /\ InputInv /\ OutputPart
  BY DEF IInv, InputPart
<1> DEFINE referred == c = capture \/ c \in {task.object : task \in Input!Pending}
<1>1. /\ input_phase' = [input_phase EXCEPT ![c] = IF referred THEN p ELSE "none"]
      /\ input_stop_requested' = [input_stop_requested EXCEPT ![c] = referred /\ @]
  BY DEF Input!Released
<1>2. Disciplined(tasks, StartOf(c), Captures, capture, Receiving, InputIdle, InputFree)
  BY <1>0 DEF InputQueue
<1>3. referred
  <2> SUFFICES ASSUME ~referred PROVE FALSE
    OBVIOUS
  <2>1. Ends(tasks, c) = {} /\ c # capture
    BY Unreferred
  <2> QED BY <1>2, <2>1, TasksDiffer DEF Disciplined, Own, Live, Doomed
<1> HIDE DEF referred
<1>4. running' = None /\ at' = "begin" /\ UNCHANGED <<tasks, closing>>
  BY DEF Finish
<1>5. ExecutorInv' /\ OutputPart'
  BY TasksOfOne, NoneIsNoTask, InputFinishes DEF Foreign
<1>6. InputTypes'
  BY <1>0, <1>1, <1>3 DEF InputTypes, Input!Phases
<1>7. InputQueue'
  <2>1. Receiving' = Receiving
    BY DEF Receiving
  <2>2. /\ InputIdle' \subseteq InputIdle \cup {c} /\ InputFree' \subseteq InputFree \cup {c}
        /\ InputFree' \subseteq InputIdle' /\ c \notin InputFree'
        /\ c \in InputIdle' => p = "stopped"
    BY <1>0, <1>1, <1>3 DEF InputIdle, InputFree, InputTypes
  <2>3. c \in InputIdle' => c # capture /\ c \notin Receiving
    BY <2>2 DEF Receiving
  <2>4. Disciplined(tasks, None, Captures, capture, Receiving, InputIdle', InputFree')
    BY <1>2, <2>2, <2>3, NoneIsNoTask, StartEndsKeeps, Zenon
  <2> QED BY <1>4, <2>1, <2>4 DEF InputQueue
<1>8. InputInv'
  <2>1. \A d \in Captures : running' # StartOf(d)
    BY <1>4, NoneIsNoTask DEF Foreign
  <2> QED BY <1>0, <1>1, <1>3, <2>1 DEF InputInv, InputTypes
<1> QED BY <1>5, <1>6, <1>7, <1>8 DEF IInv, InputPart

\* A stop ends, with a receiver to destroy or without.
LEMMA InputStopEnds ==
    ASSUME IInv, NEW c \in Captures, running = StopOf(c),
           Input!Released(c, "stopped"), Finish,
           \/ UNCHANGED <<thread, receiver>> /\ ~receiver[c]
           \/ /\ thread' = [thread EXCEPT ![c] = "none"]
              /\ receiver' = [receiver EXCEPT ![c] = FALSE],
           UNCHANGED <<input_node, input_selection, capture, input_worker_running, runtime>>,
           UNCHANGED output
    PROVE  IInv'
<1>0. ExecutorInv /\ InputTypes /\ InputQueue /\ InputInv /\ OutputPart
  BY DEF IInv, InputPart
<1> DEFINE referred == c = capture \/ c \in {task.object : task \in Input!Pending}
<1>1. /\ input_phase' = [input_phase EXCEPT ![c] = IF referred THEN "stopped" ELSE "none"]
      /\ input_stop_requested' = [input_stop_requested EXCEPT ![c] = referred /\ @]
  BY DEF Input!Released
<1>2. Disciplined(tasks, StopOf(c), Captures, capture, Receiving, InputIdle, InputFree)
  BY <1>0 DEF InputQueue
<1>3. ~referred => Ends(tasks, c) = {}
  BY Unreferred
<1> HIDE DEF referred
<1>4. running' = None /\ at' = "begin" /\ UNCHANGED <<tasks, closing>>
  BY DEF Finish
<1>5. ExecutorInv' /\ OutputPart'
  BY TasksOfOne, NoneIsNoTask, InputFinishes DEF Foreign
<1>6. InputTypes'
  BY <1>0, <1>1 DEF InputTypes, Input!Phases
<1>7. InputQueue'
  <2>1. Receiving' = Receiving \ {c}
    BY <1>0 DEF Receiving, InputTypes
  <2>2. /\ InputIdle' \subseteq InputIdle \cup {c} /\ InputFree' \subseteq InputFree \cup {c}
        /\ InputFree' \subseteq InputIdle' /\ (c \in InputFree' => ~referred)
    BY <1>0, <1>1 DEF InputIdle, InputFree, InputTypes
  <2>4. Disciplined(tasks, None, Captures, capture, Receiving \ {c}, InputIdle', InputFree')
    BY <1>2, <1>3, <2>2, NoneIsNoTask, StopEndsKeeps, Zenon
  <2> QED BY <1>4, <2>1, <2>4 DEF InputQueue
<1>8. InputInv'
  <2>1. \A d \in Captures : running' # StartOf(d)
    BY <1>4, NoneIsNoTask DEF Foreign
  <2>2. c # capture
    BY <1>2 DEF Disciplined, Own, Doomed
  <2>3. \A d \in Captures : /\ thread'[d] # "none" => receiver'[d]
                            /\ receiver'[d] => runtime
    BY <1>0 DEF InputInv, InputTypes
  <2>4. \A d \in Captures : input_stop_requested'[d] => d # capture /\ input_phase'[d] # "none"
    BY <1>0, <1>1, <2>2 DEF InputInv, InputTypes
  <2> QED BY <1>0, <2>1, <2>3, <2>4 DEF InputInv
<1> QED BY <1>5, <1>6, <1>7, <1>8 DEF IInv, InputPart

\* The tasks of the input.
LEMMA InputExecutor ==
    ASSUME IInv, Input!Executor, UNCHANGED output
    PROVE  IInv'
<1>0. ExecutorInv /\ InputTypes /\ InputQueue /\ InputInv /\ OutputPart
  BY DEF IInv, InputPart
<1> DEFINE c == running.object
<1>1. ASSUME Input!StartNothing PROVE IInv'
  <2>1. c \in Captures /\ running = StartOf(c) /\ at = "begin"
    BY <1>1, InputInHand DEF Input!StartNothing
  <2>2. ~receiver[c]
    BY <1>0, <2>1 DEF InputInv
  <2>3. input_stop_requested[c] => c # capture
    BY <1>0, <2>1 DEF InputInv
  <2>4. \E p \in {"stopped", "failed"} : Input!Released(c, p) /\ (p = "stopped" => input_stop_requested[c])
    BY <1>1 DEF Input!StartNothing
  <2>5. /\ Finish
        /\ UNCHANGED <<input_node, input_selection, capture, input_worker_running, thread, receiver,
                       runtime>>
    BY <1>1 DEF Input!StartNothing, Input!Finish, Finish
  <2> QED BY <2>1, <2>2, <2>3, <2>4, <2>5, InputStartEnds
<1>2. ASSUME Input!StartThread PROVE IInv'
  <2>1. c \in Captures /\ running = StartOf(c) /\ running # None /\ Foreign(running, Senders) /\ runtime
    BY <1>2, InputInHand DEF Input!StartThread
  <2>2. /\ Reach("started")
        /\ receiver' = [receiver EXCEPT ![c] = TRUE]
        /\ input_worker_running' = [input_worker_running EXCEPT ![c] = TRUE]
        /\ thread' = [thread EXCEPT ![c] = "running"]
        /\ UNCHANGED <<input_node, input_selection, capture, input_phase, input_stop_requested, runtime>>
    BY <1>2 DEF Input!StartThread, Input!Reach, Reach
  <2>3. ExecutorInv' /\ OutputPart'
    BY <2>1, <2>2, InputReaches
  <2>4. InputTypes'
    BY <1>0, <2>1, <2>2 DEF InputTypes
  <2>5. InputQueue'
    <3>1. Receiving' = Receiving \cup {c} /\ InputIdle' = InputIdle /\ InputFree' = InputFree
      BY <1>0, <2>1, <2>2 DEF Receiving, InputIdle, InputFree, InputTypes
    <3>2. Disciplined(tasks, StartOf(c), Captures, capture, Receiving, InputIdle, InputFree)
      BY <1>0, <2>1 DEF InputQueue
    <3>3. Disciplined(tasks, StartOf(c), Captures, capture, Receiving \cup {c}, InputIdle, InputFree)
      BY <2>1, <3>2, OpenKeeps, Zenon
    <3> QED BY <2>1, <2>2, <3>1, <3>3 DEF InputQueue, Reach
  <2>6. InputInv'
    BY <1>0, <2>1, <2>2 DEF InputInv, InputTypes, Reach
  <2> QED BY <2>3, <2>4, <2>5, <2>6 DEF IInv, InputPart
<1>3. ASSUME Input!StartEnds PROVE IInv'
  <2>1. c \in Captures /\ running = StartOf(c)
    BY <1>3, InputInHand DEF Input!StartEnds
  <2>2. /\ Finish /\ Input!Released(c, "running")
        /\ UNCHANGED <<input_node, input_selection, capture, input_worker_running, thread, receiver,
                       runtime>>
    BY <1>3 DEF Input!StartEnds, Input!Finish, Finish
  <2> QED BY <2>1, <2>2, InputStartEnds
<1>4. ASSUME Input!StopNothing PROVE IInv'
  <2>1. c \in Captures /\ running = StopOf(c)
    BY <1>4, InputInHand DEF Input!StopNothing
  <2>2. ~receiver[c]
    <3>1. c \in InputIdle
      BY <1>4, <2>1 DEF Input!StopNothing, InputIdle
    <3> QED BY <1>0, <2>1, <3>1 DEF InputQueue, Disciplined, Own, Receiving
  <2>3. /\ Finish /\ Input!Released(c, "stopped")
        /\ UNCHANGED <<input_node, input_selection, capture, input_worker_running, thread, receiver,
                       runtime>>
    BY <1>4 DEF Input!StopNothing, Input!Finish, Finish
  <2> QED BY <2>1, <2>2, <2>3, InputStopEnds
<1>5. ASSUME Input!StopThread PROVE IInv'
  <2>1. c \in Captures /\ running = StopOf(c) /\ running # None /\ Foreign(running, Senders)
    BY <1>5, InputInHand DEF Input!StopThread
  <2>2. /\ Reach("joining")
        /\ input_phase[c] # "stopped"
        /\ input_phase' = [input_phase EXCEPT ![c] = "stopping"]
        /\ input_worker_running' = [input_worker_running EXCEPT ![c] = FALSE]
        /\ UNCHANGED <<input_node, input_selection, capture, input_stop_requested, thread, receiver,
                       runtime>>
    BY <1>5 DEF Input!StopThread, Input!Reach, Reach
  <2>3. ExecutorInv' /\ OutputPart'
    BY <2>1, <2>2, InputReaches
  <2>4. InputTypes'
    BY <1>0, <2>1, <2>2 DEF InputTypes, Input!Phases
  <2>5. InputQueue'
    <3>1. /\ InputIdle' \in SUBSET InputIdle /\ InputFree' \in SUBSET InputFree
          /\ InputFree' \subseteq InputIdle' /\ Receiving' = Receiving
      BY <1>0, <2>1, <2>2 DEF Receiving, InputIdle, InputFree, InputTypes
    <3>2. Disciplined(tasks, running, Captures, capture, Receiving, InputIdle, InputFree)
      BY <1>0 DEF InputQueue
    <3>3. Disciplined(tasks, running, Captures, capture, Receiving, InputIdle', InputFree')
      BY <3>1, <3>2, PhaseKeeps, Zenon
    <3> QED BY <2>2, <3>1, <3>3 DEF InputQueue, Reach
  <2>6. InputInv'
    BY <1>0, <2>1, <2>2, TasksDiffer DEF InputInv, InputTypes, Reach
  <2> QED BY <2>3, <2>4, <2>5, <2>6 DEF IInv, InputPart
<1>6. ASSUME Input!StopEnds PROVE IInv'
  <2>1. c \in Captures /\ running = StopOf(c)
    BY <1>6, InputInHand DEF Input!StopEnds
  <2>2. /\ Finish /\ Input!Released(c, "stopped")
        /\ thread' = [thread EXCEPT ![c] = "none"]
        /\ receiver' = [receiver EXCEPT ![c] = FALSE]
        /\ UNCHANGED <<input_node, input_selection, capture, input_worker_running, runtime>>
    BY <1>6 DEF Input!StopEnds, Input!Finish, Finish
  <2> QED BY <2>1, <2>2, InputStopEnds
<1> QED BY <1>1, <1>2, <1>3, <1>4, <1>5, <1>6 DEF Input!Executor

-----------------------------------------------------------------------------
(* The output *)

\* What it posts is its own.
LEMMA OutputPosts ==
    ASSUME IInv, output_node = "alive", UNCHANGED <<running, at, closing>>, UNCHANGED input,
           \/ tasks' = tasks
           \/ \E v \in Output!Tasks : tasks' = Append(tasks, v)
           \/ \E v, w \in Output!Tasks : tasks' = Append(Append(tasks, v), w)
    PROVE  ExecutorInv' /\ InputPart' /\ runtime
<1>0. ExecutorInv /\ InputPart
  BY DEF IInv
<1>1. \A v \in Output!Tasks : v \in Work /\ Foreign(v, Captures)
  BY NdiAssumption DEF Foreign, StartOf, StopOf, Work, Output!Tasks
<1>2. tasks' \in Seq(Work)
  BY <1>0, <1>1 DEF ExecutorInv
<1>3. Elsewhere(Captures)
  BY <1>1 DEF Elsewhere
<1>4. InputPart'
  BY <1>0, <1>3, InputUndisturbed
<1>5. ExecutorInv' /\ runtime
  BY <1>0, <1>2 DEF ExecutorInv, input
<1> QED BY <1>4, <1>5

\* A frame replaces the sender, or clears its stream.
LEMMA OutputPrepare ==
    ASSUME IInv, NEW wanted \in {"enabled", "disabled"}, NEW renamed \in BOOLEAN,
           Output!Prepare(wanted, renamed), UNCHANGED input
    PROVE  IInv'
<1> USE NoneIsNoTask
<1>0. /\ ExecutorInv /\ OutputTypes /\ OutputQueue /\ OutputInv /\ InputPart
      /\ output_node = "alive" /\ ~closing /\ runtime /\ runtime' = runtime
  BY DEF IInv, ExecutorInv, OutputPart, Output!Prepare, input
<1> DEFINE retired == Output!Retire(Output!Changed(wanted, renamed))
           changes == retired # {} \/ Output!Changed(wanted, renamed)
           stops == IF retired = {} THEN <<>> ELSE <<StopOf(sender)>>
           T == IF retired = {} THEN tasks ELSE Append(tasks, StopOf(sender))
           left == IF retired = {} THEN sender ELSE None
<1>1. /\ retired \in {{}, {sender}} /\ (retired # {} => sender \in Senders)
      /\ changes /\ retired = {} => sender = None
      /\ ~changes => retired = {}
  BY <1>0 DEF Output!Retire, OutputTypes
<1>2. Output!Stops(retired) = retired
  <2>1. sender # None => sender \notin OutputIdle
    BY <1>0 DEF OutputQueue, Disciplined, Own, OutputTypes
  <2>2. sender # None => output_phase[sender] # "stopped"
    BY <2>1, <1>0 DEF OutputIdle, OutputTypes
  <2> QED BY <1>1, <2>2 DEF Output!Stops
<1>3. /\ T \in Seq(Work)
      /\ Disciplined(T, running, Senders, left, Sending, OutputIdle, OutputFree)
      /\ tasks \o stops = T
  <2>1. CASE retired = {}
    BY <1>0, <2>1 DEF OutputQueue, ExecutorInv
  <2>2. CASE retired # {}
    <3>1. sender \in Senders /\ StopOf(sender) \in Work /\ tasks \in Seq(Work)
      BY <1>0, <1>1, <2>2, TasksOfOne DEF ExecutorInv
    <3>2. Disciplined(tasks, running, Senders, sender, Sending, OutputIdle, OutputFree)
      BY <1>0 DEF OutputQueue
    <3>3. Disciplined(Append(tasks, StopOf(sender)), running, Senders, None, Sending,
                      OutputIdle, OutputFree)
      BY <3>1, <3>2, PostStopKeeps, Zenon
    <3> QED BY <3>1, <3>3, <2>2
  <2> QED BY <2>1, <2>2
<1>4. /\ UNCHANGED <<running, at, closing, output_node, output_worker_running, instance,
                     worker, taken>>
      /\ output_selection' = wanted /\ stream' = None
      /\ \E gone : stream_state' = Output!ClearedOf(gone)
      /\ output_stop_requested' = [s \in Senders |-> s \in retired \/ output_stop_requested[s]]
      /\ \/ /\ changes
            /\ \E s \in Senders :
                  /\ output_phase[s] = "none"
                  /\ sender' = s
                  /\ output_phase' = [output_phase EXCEPT ![s] = "starting"]
                  /\ tasks' = Output!Posted(stops \o <<StartOf(s)>>)
         \/ /\ sender' = (IF changes THEN None ELSE sender)
            /\ tasks' = Output!Posted(stops)
            /\ UNCHANGED output_phase
  <2> HIDE DEF retired
  <2> QED BY <1>2 DEF Output!Prepare, Output!output_threads, Output!Task, StartOf, StopOf, retired
<1>5. stream_state' \in [Senders -> Streams \cup {None}]
  BY <1>0, <1>4 DEF OutputTypes, Output!ClearedOf
<1>6. \A s \in Senders : s = sender => output_phase[s] # "none"
  BY <1>0 DEF OutputQueue, Disciplined, Own, OutputFree
<1>7. Sending' = Sending
  BY <1>4 DEF Sending
<1>8. CASE /\ sender' = (IF changes THEN None ELSE sender)
           /\ tasks' = Output!Posted(stops)
           /\ UNCHANGED output_phase
  <2>1. tasks' = T /\ sender' = left
    BY <1>0, <1>1, <1>3, <1>8 DEF Output!Posted
  <2>2. tasks' = tasks \/ \E v \in Output!Tasks : tasks' = Append(tasks, v)
    BY <1>1, <2>1 DEF StopOf, Output!Tasks
  <2>3. ExecutorInv' /\ InputPart'
    BY <1>0, <1>4, <2>2, OutputPosts
  <2>4. OutputTypes'
    <3>1. sender' \in Senders \cup {None}
      BY <1>0, <2>1 DEF OutputTypes
    <3>2. output_stop_requested' \in [Senders -> BOOLEAN]
      BY <1>0, <1>4 DEF OutputTypes
    <3> HIDE DEF retired
    <3> QED BY <1>0, <1>4, <1>5, <1>8, <3>1, <3>2 DEF OutputTypes
  <2>5. OutputQueue'
    <3>1. OutputIdle' = OutputIdle /\ OutputFree' = OutputFree
      BY <1>8 DEF OutputIdle, OutputFree
    <3> HIDE DEF T, left
    <3> QED BY <1>3, <1>4, <1>7, <2>1, <3>1 DEF OutputQueue
  <2>6. OutputInv'
    <3>1. \A s \in Senders : output_stop_requested'[s] => s # left /\ output_phase[s] # "none"
      BY <1>0, <1>1, <1>4, <1>6 DEF OutputInv
    <3> HIDE DEF left, retired
    <3> QED BY <1>0, <1>4, <1>8, <2>1, <3>1 DEF OutputInv
  <2> QED BY <2>3, <2>4, <2>5, <2>6 DEF IInv, OutputPart
<1>9. ASSUME NEW s \in Senders,
             changes,
             output_phase[s] = "none",
             sender' = s,
             output_phase' = [output_phase EXCEPT ![s] = "starting"],
             tasks' = Output!Posted(stops \o <<StartOf(s)>>)
      PROVE  IInv'
  <2>1. tasks' = Append(T, StartOf(s))
    <3>1. tasks' = tasks \o (stops \o <<StartOf(s)>>)
      BY <1>0, <1>9 DEF Output!Posted
    <3>2. tasks \in Seq(Work) /\ stops \in Seq(Work) /\ StartOf(s) \in Work
      BY <1>0, <1>1, TasksOfOne DEF ExecutorInv
    <3>3. tasks \o (stops \o <<StartOf(s)>>) = Append(tasks \o stops, StartOf(s))
      <4> HIDE DEF stops
      <4> QED BY <3>2
    <3> QED BY <3>1, <3>3, <1>3
  <2>2. \/ \E v \in Output!Tasks : tasks' = Append(tasks, v)
        \/ \E v, w \in Output!Tasks : tasks' = Append(Append(tasks, v), w)
    BY <1>1, <2>1 DEF StopOf, StartOf, Output!Tasks
  <2>3. ExecutorInv' /\ InputPart'
    BY <1>0, <1>4, <2>2, OutputPosts
  <2>4. OutputTypes'
    <3>1. output_stop_requested' \in [Senders -> BOOLEAN]
      BY <1>0, <1>4 DEF OutputTypes
    <3>2. output_phase' \in [Senders -> Output!Phases]
      BY <1>0, <1>9 DEF OutputTypes, Output!Phases
    <3> HIDE DEF retired
    <3> QED BY <1>0, <1>4, <1>5, <1>9, <3>1, <3>2 DEF OutputTypes
  <2>5. OutputQueue'
    <3>1. /\ OutputIdle' = OutputIdle \ {s} /\ OutputFree' = OutputFree \ {s}
          /\ s \in Senders \cap OutputFree
      BY <1>0, <1>9 DEF OutputIdle, OutputFree, OutputTypes
    <3>2. left \notin Senders
      BY <1>1, <1>9
    <3>3. Disciplined(Append(T, StartOf(s)), running, Senders, s, Sending,
                      OutputIdle \ {s}, OutputFree \ {s})
      <4> HIDE DEF T, left
      <4>1. StartOf(s) \in Work
        BY TasksOfOne
      <4> QED BY <1>3, <3>1, <3>2, <4>1, PostStartKeeps, Zenon
    <3> HIDE DEF T, left
    <3> QED BY <1>4, <1>7, <1>9, <2>1, <3>1, <3>3 DEF OutputQueue
  <2>6. OutputInv'
    <3>1. \A d \in Senders : output_stop_requested'[d] => d # s /\ output_phase'[d] # "none"
      BY <1>0, <1>1, <1>4, <1>6, <1>9 DEF OutputInv, OutputTypes
    <3> HIDE DEF retired
    <3> QED BY <1>0, <1>4, <1>9, <3>1 DEF OutputInv
  <2> QED BY <2>3, <2>4, <2>5, <2>6 DEF IInv, OutputPart
<1> HIDE DEF retired, stops, changes
<1> QED BY <1>4, <1>8, <1>9

\* The sender is told of a new stream.
LEMMA OutputSetStream ==
    ASSUME IInv, Output!SetStream, UNCHANGED input
    PROVE  IInv'
<1>0. ExecutorInv /\ InputPart /\ OutputTypes /\ OutputQueue /\ OutputInv
  BY DEF IInv, OutputPart
<1>1. PICK st \in Streams : /\ stream' = st
                            /\ stream_state' = [stream_state EXCEPT ![sender] = st]
  BY DEF Output!SetStream
<1>2. /\ UNCHANGED <<tasks, running, at, closing, output_node, output_selection, sender, output_phase,
                     output_stop_requested, output_worker_running, instance, worker, taken>>
      /\ sender # None
  BY DEF Output!SetStream, Output!executor, Output!output_threads
<1>3. InputPart'
  BY <1>0, <1>2, InputUndisturbed DEF Elsewhere
<1>4. OutputTypes'
  BY <1>0, <1>1, <1>2 DEF OutputTypes
<1>5. OutputQueue'
  BY <1>0, <1>2 DEF OutputQueue, Sending, OutputIdle, OutputFree
<1>6. OutputInv'
  <2>1. stream_state'[sender'] = stream'
    BY <1>0, <1>1, <1>2 DEF OutputTypes
  <2> QED BY <1>0, <1>2, <2>1 DEF OutputInv, input
<1>7. ExecutorInv'
  BY <1>0, <1>2 DEF ExecutorInv, input
<1> QED BY <1>3, <1>4, <1>5, <1>6, <1>7 DEF IInv, OutputPart

\* The node is destroyed.
LEMMA OutputRemoveNode ==
    ASSUME IInv, Output!RemoveNode, UNCHANGED input
    PROVE  IInv'
<1> USE NoneIsNoTask
<1>0. /\ ExecutorInv /\ OutputTypes /\ OutputQueue /\ OutputInv /\ InputPart
      /\ output_node = "alive" /\ ~closing /\ runtime' = runtime
  BY DEF IInv, ExecutorInv, OutputPart, Output!RemoveNode, input
<1>1. /\ UNCHANGED <<running, at, closing, output_phase, output_worker_running, instance, worker, taken>>
      /\ output_node' = "gone" /\ sender' = None /\ stream' = None /\ output_selection' = Unset
      /\ stream_state' = Output!ClearedOf({sender})
      /\ output_stop_requested' = [s \in Senders |-> s = sender \/ output_stop_requested[s]]
      /\ tasks' = IF sender = None THEN tasks ELSE Append(tasks, StopOf(sender))
  BY <1>0 DEF Output!RemoveNode, Output!Posted, ExecutorInv, StopOf, Output!Task,
              Output!output_threads
<1>2. tasks' = tasks \/ \E v \in Output!Tasks : tasks' = Append(tasks, v)
  BY <1>0, <1>1 DEF OutputTypes, StopOf, Output!Tasks
<1>3. ExecutorInv' /\ InputPart'
  BY <1>0, <1>1, <1>2, OutputPosts
<1>4. OutputTypes'
  BY <1>0, <1>1 DEF OutputTypes, Output!ClearedOf
<1>5. OutputQueue'
  <2>1. Sending' = Sending /\ OutputIdle' = OutputIdle /\ OutputFree' = OutputFree
    BY <1>1 DEF Sending, OutputIdle, OutputFree
  <2>2. CASE sender = None
    BY <1>0, <1>1, <2>1, <2>2 DEF OutputQueue
  <2>3. CASE sender # None
    <3>1. sender \in Senders /\ StopOf(sender) \in Work /\ tasks \in Seq(Work)
      BY <1>0, <2>3, TasksOfOne DEF OutputTypes, ExecutorInv
    <3>2. Disciplined(tasks, running, Senders, sender, Sending, OutputIdle, OutputFree)
      BY <1>0 DEF OutputQueue
    <3>3. Disciplined(Append(tasks, StopOf(sender)), running, Senders, None, Sending,
                      OutputIdle, OutputFree)
      BY <3>1, <3>2, PostStopKeeps, Zenon
    <3> QED BY <1>1, <2>1, <2>3, <3>3 DEF OutputQueue
  <2> QED BY <2>2, <2>3
<1>6. OutputInv'
  <2>1. \A s \in Senders : s = sender => output_phase[s] # "none"
    BY <1>0 DEF OutputQueue, Disciplined, Own, OutputFree
  <2> QED BY <1>0, <1>1, <2>1 DEF OutputInv
<1> QED BY <1>3, <1>4, <1>5, <1>6 DEF IInv, OutputPart

\* Another node is created.
LEMMA OutputAddNode ==
    ASSUME IInv, Output!AddNode, UNCHANGED input
    PROVE  IInv'
<1>0. ExecutorInv /\ InputPart /\ OutputTypes /\ OutputQueue /\ OutputInv
  BY DEF IInv, OutputPart
<1>1. /\ UNCHANGED <<tasks, running, at, closing, output_selection, sender, stream, output_phase,
                     output_stop_requested, output_worker_running, stream_state, worker, taken,
                     instance>>
      /\ output_node' = "alive" /\ ~closing
  BY DEF Output!AddNode, Output!executor, Output!output_objects, Output!output_threads
<1>2. InputPart'
  BY <1>0, <1>1, InputUndisturbed DEF Elsewhere
<1>3. OutputQueue'
  BY <1>0, <1>1 DEF OutputQueue, Sending, OutputIdle, OutputFree
<1> QED
  BY <1>0, <1>1, <1>2, <1>3 DEF IInv, OutputPart, ExecutorInv, OutputTypes, OutputInv, input

\* A sender's thread takes a stream, lets go of it or ends.
LEMMA OutputWorker ==
    ASSUME IInv, NEW s \in Senders, Output!Worker(s), UNCHANGED input
    PROVE  IInv'
<1>0. ExecutorInv /\ InputPart /\ OutputTypes /\ OutputQueue /\ OutputInv
  BY DEF IInv, OutputPart
<1>1. /\ UNCHANGED <<tasks, running, at, closing, output_node, output_selection, sender, stream,
                     output_phase, output_stop_requested, output_worker_running, stream_state, instance>>
      /\ worker[s] # "none"
      /\ \E w \in {"ended", "streaming", "waiting"} : worker' = [worker EXCEPT ![s] = w]
      /\ \/ UNCHANGED taken
         \/ \E st \in Streams \cup {None} : taken' = [taken EXCEPT ![s] = st]
  BY <1>0 DEF Output!Worker, Output!executor, Output!output_node, Output!output_objects, OutputTypes
<1>2. InputPart'
  BY <1>0, <1>1, InputUndisturbed DEF Elsewhere
<1>3. OutputTypes'
  BY <1>0, <1>1 DEF OutputTypes
<1>4. OutputQueue'
  BY <1>0, <1>1 DEF OutputQueue, Sending, OutputIdle, OutputFree
<1>5. OutputInv'
  BY <1>0, <1>1 DEF OutputInv, OutputTypes, input
<1>6. ExecutorInv'
  BY <1>0, <1>1 DEF ExecutorInv, input
<1> QED BY <1>2, <1>3, <1>4, <1>5, <1>6 DEF IInv, OutputPart

\* A task in hand of the output.
LEMMA OutputInHand ==
    ASSUME IInv, NEW op \in {"start", "stop"}, NEW place, Output!InHand(op, place)
    PROVE  /\ running.object \in Senders /\ running # None /\ at = place
           /\ running = IF op = "start" THEN StartOf(running.object) ELSE StopOf(running.object)
           /\ Foreign(running, Captures) /\ runtime
<1>1. running \in Work /\ running.op = op /\ running.object \in Senders /\ at = place /\ runtime
  BY DEF IInv, ExecutorInv, Output!InHand
<1> QED BY <1>1, TasksAreTheirs, TasksOfOne DEF Output!InHand

\* What the other side, and the executor, see of its end.
LEMMA OutputFinishes ==
    ASSUME IInv, running # None, Foreign(running, Captures), Finish, UNCHANGED output_node,
           UNCHANGED input
    PROVE  ExecutorInv' /\ InputPart'
<1>1. ExecutorInv /\ InputPart
  BY DEF IInv
<1>2. Elsewhere(Captures)
  BY NoneIsNoTask DEF Finish, Elsewhere
<1>3. InputPart'
  BY <1>1, <1>2, InputUndisturbed
<1>4. ExecutorInv'
  BY <1>1 DEF Finish, ExecutorInv, input
<1> QED BY <1>3, <1>4

\* A start ends, with the sender or without.
LEMMA OutputStartEnds ==
    ASSUME IInv, NEW s \in Senders, running = StartOf(s),
           NEW p \in {"running", "stopped", "failed"},
           p = "stopped" => s # sender,
           \/ p # "running" /\ UNCHANGED <<instance, worker>>
           \/ /\ p = "running"
              /\ instance' = [instance EXCEPT ![s] = TRUE]
              /\ worker' = [worker EXCEPT ![s] = "waiting"],
           \/ UNCHANGED output_worker_running
           \/ output_worker_running' = [output_worker_running EXCEPT ![s] = TRUE],
           Output!Released(s, p), Finish,
           UNCHANGED <<output_node, output_selection, sender, stream, stream_state, taken>>,
           UNCHANGED input
    PROVE  IInv'
<1>0. ExecutorInv /\ InputPart /\ OutputTypes /\ OutputQueue /\ OutputInv
  BY DEF IInv, OutputPart
<1> DEFINE referred == s = sender \/ s \in {task.object : task \in Output!Pending}
<1>1. /\ output_phase' = [output_phase EXCEPT ![s] = IF referred THEN p ELSE "none"]
      /\ output_stop_requested' = [output_stop_requested EXCEPT ![s] = referred /\ @]
  BY DEF Output!Released
<1>2. Disciplined(tasks, StartOf(s), Senders, sender, Sending, OutputIdle, OutputFree)
  BY <1>0 DEF OutputQueue
<1>3. referred
  <2> SUFFICES ASSUME ~referred PROVE FALSE
    OBVIOUS
  <2>1. Ends(tasks, s) = {} /\ s # sender
    BY Unreferred DEF Output!Pending, Input!Pending
  <2> QED BY <1>2, <2>1, TasksDiffer DEF Disciplined, Own, Live, Doomed
<1> HIDE DEF referred
<1>4. running' = None /\ at' = "begin" /\ UNCHANGED <<tasks, closing>> /\ runtime' = runtime
  BY DEF Finish, input
<1>5. ExecutorInv' /\ InputPart' /\ runtime
  <2>1. ExecutorInv' /\ InputPart'
    BY TasksOfOne, NoneIsNoTask, OutputFinishes DEF Foreign
  <2>2. runtime
    BY <1>0, NoneIsNoTask DEF ExecutorInv, Foreign
  <2> QED BY <2>1, <2>2
<1>6. OutputTypes'
  BY <1>0, <1>1, <1>3 DEF OutputTypes, Output!Phases
<1>7. OutputQueue'
  <2>1. /\ OutputIdle' \subseteq OutputIdle \cup {s} /\ OutputFree' \subseteq OutputFree \cup {s}
        /\ OutputFree' \subseteq OutputIdle' /\ s \notin OutputFree'
        /\ s \in OutputIdle' => p = "stopped"
    BY <1>0, <1>1, <1>3 DEF OutputIdle, OutputFree, OutputTypes
  <2>2. s \notin Sending
    BY <1>0 DEF OutputInv, Sending
  <2>3. CASE p # "running"
    <3>1. Sending' = Sending
      BY <2>3 DEF Sending
    <3>2. Disciplined(tasks, None, Senders, sender, Sending, OutputIdle', OutputFree')
      BY <1>2, <2>1, <2>2, NoneIsNoTask, StartEndsKeeps, Zenon
    <3> QED BY <1>4, <3>1, <3>2 DEF OutputQueue
  <2>4. CASE p = "running"
    <3>1. Sending' = Sending \cup {s}
      BY <1>0, <2>4 DEF Sending, OutputTypes
    <3>2. Disciplined(tasks, StartOf(s), Senders, sender, Sending \cup {s}, OutputIdle, OutputFree)
      BY <1>2, OpenKeeps, Zenon
    <3>3. s \notin OutputIdle'
      BY <2>1, <2>4
    <3>4. Disciplined(tasks, None, Senders, sender, Sending \cup {s}, OutputIdle', OutputFree')
      BY <2>1, <3>2, <3>3, NoneIsNoTask, StartEndsKeeps, Zenon
    <3> QED BY <1>4, <3>1, <3>4 DEF OutputQueue
  <2> QED BY <2>3, <2>4
<1>8. OutputInv'
  <2>1. \A d \in Senders : running' # StartOf(d)
    BY <1>4, NoneIsNoTask DEF Foreign
  <2>2. \A d \in Senders : (worker'[d] # "none" => instance'[d]) /\ (instance'[d] => runtime')
    BY <1>0, <1>4, <1>5 DEF OutputInv, OutputTypes
  <2>3. \A d \in Senders : output_stop_requested'[d] => d # sender /\ output_phase'[d] # "none"
    BY <1>0, <1>1, <1>3 DEF OutputInv, OutputTypes
  <2> QED BY <1>0, <2>1, <2>2, <2>3 DEF OutputInv
<1> QED BY <1>5, <1>6, <1>7, <1>8 DEF IInv, OutputPart

\* A stop ends, and the sender is destroyed.
LEMMA OutputStopEnds ==
    ASSUME IInv, Output!StopEnds, UNCHANGED input
    PROVE  IInv'
<1> DEFINE s == running.object
<1>0. ExecutorInv /\ InputPart /\ OutputTypes /\ OutputQueue /\ OutputInv
  BY DEF IInv, OutputPart
<1>a. s \in Senders /\ running = StopOf(s) /\ running # None /\ Foreign(running, Captures)
  BY OutputInHand DEF Output!StopEnds
<1>b. /\ worker' = [worker EXCEPT ![s] = "none"]
      /\ instance' = [instance EXCEPT ![s] = FALSE]
      /\ Output!Released(s, "stopped") /\ Finish
      /\ UNCHANGED <<output_node, output_selection, sender, stream, output_worker_running,
                     stream_state, taken>>
  BY DEF Output!StopEnds, Output!Finish, Finish, Output!output_node
<1> HIDE DEF s
<1> DEFINE referred == s = sender \/ s \in {task.object : task \in Output!Pending}
<1>1. /\ output_phase' = [output_phase EXCEPT ![s] = IF referred THEN "stopped" ELSE "none"]
      /\ output_stop_requested' = [output_stop_requested EXCEPT ![s] = referred /\ @]
  BY <1>b DEF Output!Released
<1>2. Disciplined(tasks, StopOf(s), Senders, sender, Sending, OutputIdle, OutputFree)
  BY <1>0, <1>a DEF OutputQueue
<1>3. ~referred => Ends(tasks, s) = {}
  BY Unreferred DEF Output!Pending, Input!Pending
<1> HIDE DEF referred
<1>4. running' = None /\ at' = "begin" /\ UNCHANGED <<tasks, closing>> /\ runtime' = runtime
  BY <1>b DEF Finish, input
<1>5. ExecutorInv' /\ InputPart'
  BY <1>a, <1>b, OutputFinishes
<1>6. OutputTypes'
  BY <1>0, <1>a, <1>b, <1>1 DEF OutputTypes, Output!Phases
<1>7. OutputQueue'
  <2>1. Sending' = Sending \ {s}
    BY <1>0, <1>b DEF Sending, OutputTypes
  <2>2. /\ OutputIdle' \subseteq OutputIdle \cup {s} /\ OutputFree' \subseteq OutputFree \cup {s}
        /\ OutputFree' \subseteq OutputIdle' /\ (s \in OutputFree' => ~referred)
    BY <1>0, <1>a, <1>1 DEF OutputIdle, OutputFree, OutputTypes
  <2>4. Disciplined(tasks, None, Senders, sender, Sending \ {s}, OutputIdle', OutputFree')
    BY <1>2, <1>3, <1>a, <2>2, NoneIsNoTask, StopEndsKeeps, Zenon
  <2> QED BY <1>4, <1>b, <2>1, <2>4 DEF OutputQueue
<1>8. OutputInv'
  <2>1. \A d \in Senders : running' # StartOf(d)
    BY <1>4, NoneIsNoTask DEF Foreign
  <2>2. s # sender
    BY <1>2, <1>a DEF Disciplined, Own, Doomed
  <2>3. \A d \in Senders : (worker'[d] # "none" => instance'[d]) /\ (instance'[d] => runtime')
    BY <1>0, <1>b, <1>4 DEF OutputInv, OutputTypes
  <2>4. \A d \in Senders : output_stop_requested'[d] => d # sender /\ output_phase'[d] # "none"
    BY <1>0, <1>1, <2>2 DEF OutputInv, OutputTypes
  <2> QED BY <1>0, <1>b, <2>1, <2>3, <2>4 DEF OutputInv
<1> QED BY <1>5, <1>6, <1>7, <1>8 DEF IInv, OutputPart

\* The tasks of the output.
LEMMA OutputExecutor ==
    ASSUME IInv, Output!Executor, UNCHANGED input
    PROVE  IInv'
<1>0. ExecutorInv /\ InputPart /\ OutputTypes /\ OutputQueue /\ OutputInv
  BY DEF IInv, OutputPart
<1> DEFINE s == running.object
<1>1. ASSUME Output!StartNothing PROVE IInv'
  <2>1. s \in Senders /\ running = StartOf(s)
    BY <1>1, OutputInHand DEF Output!StartNothing
  <2>2. output_stop_requested[s] => s # sender
    BY <1>0, <2>1 DEF OutputInv
  <2>3. \E p \in {"stopped", "failed"} :
            Output!Released(s, p) /\ (p = "stopped" => output_stop_requested[s])
    BY <1>1 DEF Output!StartNothing
  <2>4. /\ Finish
        /\ UNCHANGED <<output_node, output_selection, sender, stream, output_worker_running,
                       stream_state, instance, worker, taken>>
    BY <1>1 DEF Output!StartNothing, Output!Finish, Finish, Output!output_node, Output!output_threads
  <2> QED BY <2>1, <2>2, <2>3, <2>4, OutputStartEnds
<1>2. ASSUME Output!StartSender PROVE IInv'
  <2>1. s \in Senders /\ running = StartOf(s)
    BY <1>2, OutputInHand DEF Output!StartSender
  <2>2. /\ instance' = [instance EXCEPT ![s] = TRUE]
        /\ output_worker_running' = [output_worker_running EXCEPT ![s] = TRUE]
        /\ worker' = [worker EXCEPT ![s] = "waiting"]
        /\ Output!Released(s, "running") /\ Finish
        /\ UNCHANGED <<output_node, output_selection, sender, stream, stream_state, taken>>
    BY <1>2 DEF Output!StartSender, Output!Finish, Finish, Output!output_node
  <2> QED BY <2>1, <2>2, OutputStartEnds
<1>3. ASSUME Output!StopBegins PROVE IInv'
  <2>1. s \in Senders /\ running = StopOf(s) /\ running # None /\ Foreign(running, Captures)
    BY <1>3, OutputInHand DEF Output!StopBegins
  <2>2. /\ output_phase[s] # "stopped"
        /\ output_phase' = [output_phase EXCEPT ![s] = "stopping"]
        /\ output_worker_running' = [output_worker_running EXCEPT ![s] = FALSE]
        /\ stream_state' = [stream_state EXCEPT ![s] = None]
        /\ at' = "joining" /\ UNCHANGED <<tasks, running, closing>>
        /\ UNCHANGED <<output_node, output_selection, sender, stream, output_stop_requested, instance,
                       worker, taken>>
        /\ runtime' = runtime
    BY <1>3 DEF Output!StopBegins, Output!Reach, Output!output_node, Output!output_threads, input
  <2>3. InputPart'
    BY <1>0, <2>1, <2>2, InputUndisturbed DEF Elsewhere
  <2>4. ExecutorInv'
    BY <1>0, <2>1, <2>2 DEF ExecutorInv, input
  <2>5. OutputTypes'
    BY <1>0, <2>1, <2>2 DEF OutputTypes, Output!Phases
  <2>6. Own(tasks, running, sender, Sending, OutputIdle, OutputFree, s)
    BY <1>0, <2>1 DEF OutputQueue, Disciplined
  <2>7. OutputQueue'
    <3>1. /\ OutputIdle' \in SUBSET OutputIdle /\ OutputFree' \in SUBSET OutputFree
          /\ OutputFree' \subseteq OutputIdle' /\ Sending' = Sending
      BY <1>0, <2>1, <2>2 DEF Sending, OutputIdle, OutputFree, OutputTypes
    <3>2. Disciplined(tasks, running, Senders, sender, Sending, OutputIdle, OutputFree)
      BY <1>0 DEF OutputQueue
    <3>3. Disciplined(tasks, running, Senders, sender, Sending, OutputIdle', OutputFree')
      BY <3>1, <3>2, PhaseKeeps, Zenon
    <3> QED BY <2>2, <3>1, <3>3 DEF OutputQueue
  <2>8. OutputInv'
    <3>1. s # sender
      BY <2>1, <2>6 DEF Own, Doomed
    <3>2. stream' # None => sender' # None /\ stream_state'[sender'] = stream'
      BY <1>0, <2>1, <2>2, <3>1 DEF OutputInv, OutputTypes
    <3> QED BY <1>0, <2>1, <2>2, <3>2 DEF OutputInv, OutputTypes
  <2> QED BY <2>3, <2>4, <2>5, <2>7, <2>8 DEF IInv, OutputPart
<1> QED BY <1>1, <1>2, <1>3, OutputStopEnds DEF Output!Executor

-----------------------------------------------------------------------------
(* The executor and the registry *)

\* The executor goes on to its next task.
LEMMA TakeNext ==
    ASSUME IInv, Take, UNCHANGED <<input, output>>
    PROVE  IInv'
<1>0. /\ ExecutorInv /\ InputTypes /\ InputQueue /\ InputInv
      /\ OutputTypes /\ OutputQueue /\ OutputInv
  BY DEF IInv, InputPart, OutputPart
<1>1. /\ tasks \in Seq(Work) /\ tasks # <<>> /\ running = None
      /\ running' = Head(tasks) /\ tasks' = Tail(tasks) /\ at' = "begin" /\ closing' = closing
  BY <1>0 DEF Take, ExecutorInv
<1>2. running' \in Work /\ tasks' \in Seq(Work)
  BY <1>1
<1>3. ExecutorInv'
  BY <1>0, <1>1, <1>2 DEF ExecutorInv, input, output
<1>4. Disciplined(tasks', running', Captures, capture, Receiving, InputIdle, InputFree)
  BY <1>0, <1>1, NoneIsNoTask, TakeKeeps, Zenon DEF InputQueue
<1>5. Disciplined(tasks', running', Senders, sender, Sending, OutputIdle, OutputFree)
  BY <1>0, <1>1, NoneIsNoTask, TakeKeeps, Zenon DEF OutputQueue
<1>6. InputTypes' /\ OutputTypes'
  BY <1>0 DEF InputTypes, OutputTypes, input, output
<1>7. InputQueue' /\ OutputQueue'
  BY <1>4, <1>5 DEF InputQueue, OutputQueue, Receiving, InputIdle, InputFree, Sending, OutputIdle,
                    OutputFree, input, output
<1>8. \A c \in Captures : running' = StartOf(c) => ~receiver[c]
  <2> TAKE c \in Captures
  <2>1. running' = StartOf(c) => 1 \in Starts(tasks, c)
    BY <1>1, PlacesWhenTaken
  <2> QED BY <1>0, <2>1 DEF InputQueue, Disciplined, Own, Receiving
<1>9. \A s \in Senders : running' = StartOf(s) => ~instance[s]
  <2> TAKE s \in Senders
  <2>1. running' = StartOf(s) => 1 \in Starts(tasks, s)
    BY <1>1, PlacesWhenTaken
  <2> QED BY <1>0, <2>1 DEF OutputQueue, Disciplined, Own, Sending
<1>10. InputInv' /\ OutputInv'
  BY <1>0, <1>8, <1>9 DEF InputInv, OutputInv, input, output
<1> QED BY <1>3, <1>6, <1>7, <1>10 DEF IInv, InputPart, OutputPart

\* A registry whose executor has drained finds no device open.
LEMMA RegistryGoes ==
    ASSUME IInv, Shutdown, UNCHANGED output
    PROVE  IInv'
<1>0. /\ ExecutorInv /\ InputTypes /\ InputQueue /\ InputInv
      /\ OutputTypes /\ OutputQueue /\ OutputInv
  BY DEF IInv, InputPart, OutputPart
<1>1. ASSUME Input!CloseExecutor, output_node = "gone"
      PROVE  IInv'
  <2>1. /\ input_node = "gone" /\ closing' = TRUE /\ UNCHANGED <<tasks, running, at>>
        /\ UNCHANGED input
    BY <1>1 DEF Input!CloseExecutor, Input!Close, Input!objects, input
  <2>2. Elsewhere(Captures) /\ Elsewhere(Senders) /\ runtime' = runtime
    BY <2>1 DEF Elsewhere, input
  <2>3. InputPart' /\ OutputPart'
    BY <2>1, <2>2, InputUndisturbed, OutputUndisturbed DEF IInv
  <2>4. ExecutorInv'
    BY <1>0, <1>1, <2>1 DEF ExecutorInv, input, output
  <2> QED BY <2>3, <2>4 DEF IInv
<1>2. ASSUME Input!DestroyRuntime
      PROVE  IInv'
  <2>1. /\ closing /\ tasks = <<>> /\ running = None /\ runtime' = FALSE
        /\ UNCHANGED <<tasks, running, at, closing, input_node, input_selection, capture, input_phase,
                       input_stop_requested, input_worker_running, thread, receiver>>
    BY <1>2 DEF Input!DestroyRuntime, Input!Drained, Input!executor, Input!objects
  <2>2. capture = None /\ sender = None
    BY <1>0, <2>1 DEF ExecutorInv, InputInv, OutputInv
  <2>3. \A c \in Captures \cup Senders : ~Doomed(tasks, running, c)
    BY <2>1, NoneIsNoTask DEF Doomed, Ends, Foreign
  <2>4. \A c \in Captures : ~receiver[c]
    BY <1>0, <2>2, <2>3, NoneIsNoTask DEF InputQueue, Disciplined, Own, Live, Receiving
  <2>5. \A s \in Senders : ~instance[s]
    BY <1>0, <2>2, <2>3, NoneIsNoTask DEF OutputQueue, Disciplined, Own, Live, Sending
  <2>6. ExecutorInv'
    BY <1>0, <2>1 DEF ExecutorInv, output
  <2>7. InputTypes' /\ OutputTypes'
    BY <1>0, <2>1 DEF InputTypes, OutputTypes, output
  <2>8. InputQueue' /\ OutputQueue'
    BY <1>0, <2>1 DEF InputQueue, OutputQueue, Receiving, InputIdle, InputFree, Sending, OutputIdle,
                      OutputFree, output
  <2>9. InputInv' /\ OutputInv'
    BY <1>0, <2>1, <2>4, <2>5 DEF InputInv, OutputInv, output
  <2> QED BY <2>6, <2>7, <2>8, <2>9 DEF IInv, InputPart, OutputPart
<1> QED BY <1>1, <1>2 DEF Shutdown

-----------------------------------------------------------------------------
(* The theorem *)

\* Nothing happens.
LEMMA Stutters ==
    ASSUME IInv, UNCHANGED vars
    PROVE  IInv'
<1>1. /\ UNCHANGED <<tasks, running, at, closing>> /\ UNCHANGED input /\ UNCHANGED output
      /\ runtime' = runtime
  BY DEF vars, executor, input
<1>2. Elsewhere(Captures) /\ Elsewhere(Senders)
  BY <1>1 DEF Elsewhere
<1>3. ExecutorInv'
  BY <1>1 DEF IInv, ExecutorInv, input, output
<1> QED BY <1>1, <1>2, <1>3, InputUndisturbed, OutputUndisturbed DEF IInv

(* Every reachable state satisfies the inductive invariant. *)
THEOREM Invariance == Spec => []IInv
<1>1. Init => IInv
  <2> SUFFICES ASSUME Init PROVE IInv
    OBVIOUS
  <2> USE NoneIsNoTask
  <2>1. /\ tasks = <<>> /\ running = None /\ at = "begin" /\ closing = FALSE /\ runtime = TRUE
        /\ capture = None /\ sender = None /\ stream = None
    BY DEF Init, Input!Init, Output!Init
  <2>2. ExecutorInv
    <3>1. <<>> \in Seq(Work)
      OBVIOUS
    <3> QED BY <2>1, <3>1 DEF ExecutorInv
  <2>3. InputTypes /\ InputInv
    BY DEF Init, Input!Init, InputTypes, InputInv, Input!Phases, Foreign
  <2>4. OutputTypes /\ OutputInv
    BY DEF Init, Output!Init, OutputTypes, OutputInv, Output!Phases, Foreign
  <2>5. \A c \in Captures \cup Senders :
           /\ Starts(tasks, c) = {} /\ Ends(tasks, c) = {}
           /\ running # StartOf(c) /\ running # StopOf(c)
    BY <2>1 DEF Starts, Ends, Foreign
  <2>6. Receiving = {} /\ Sending = {}
    BY DEF Init, Input!Init, Output!Init, Receiving, Sending
  <2>7. InputQueue
    BY <2>1, <2>5, <2>6 DEF InputQueue, Disciplined, Own, Apart, Live, Doomed, InputIdle, InputFree
  <2>8. OutputQueue
    BY <2>1, <2>5, <2>6 DEF OutputQueue, Disciplined, Own, Apart, Live, Doomed, OutputIdle, OutputFree
  <2> QED BY <2>2, <2>3, <2>4, <2>7, <2>8 DEF IInv, InputPart, OutputPart
<1>2. IInv /\ [Next]_vars => IInv'
  <2> SUFFICES ASSUME IInv, [Next]_vars PROVE IInv'
    OBVIOUS
  <2> HIDE DEF IInv
  <2>1. ASSUME Input!Node, UNCHANGED output PROVE IInv'
    BY <2>1, InputPrepare, InputRemoveNode, InputAddNode DEF Input!Node
  <2>2. ASSUME NEW c \in Captures, Input!Thread(c), UNCHANGED output PROVE IInv'
    BY <2>2, InputThread
  <2>3. ASSUME Output!Node, UNCHANGED input PROVE IInv'
    BY <2>3, OutputPrepare, OutputSetStream, OutputRemoveNode, OutputAddNode DEF Output!Node
  <2>4. ASSUME NEW s \in Senders, Output!Worker(s), UNCHANGED input PROVE IInv'
    BY <2>4, OutputWorker
  <2>5. ASSUME Take, UNCHANGED <<input, output>> PROVE IInv'
    BY <2>5, TakeNext
  <2>6. ASSUME Input!Executor, UNCHANGED output PROVE IInv'
    BY <2>6, InputExecutor
  <2>7. ASSUME Output!Executor, UNCHANGED input PROVE IInv'
    BY <2>7, OutputExecutor
  <2>8. ASSUME Shutdown, UNCHANGED output PROVE IInv'
    BY <2>8, RegistryGoes
  <2>9. ASSUME UNCHANGED vars PROVE IInv'
    BY <2>9, Stutters
  <2> QED
    BY <2>1, <2>2, <2>3, <2>4, <2>5, <2>6, <2>7, <2>8, <2>9 DEF Next
<1> QED BY <1>1, <1>2, PTL DEF Spec

(* However the input and the output are switched, fail and are removed, and     *)
(* however their tasks follow each other on the one executor: a thread has its *)
(* receiver or sender until it is joined, each node has at most one open, and  *)
(* none outlives its object or the runtime the registry destroys               *)
(* (input_capture.cpp and output_sender.cpp, start_control and stop_control).  *)
THEOREM DevicesAreUsed == Spec => []DevicesAreUsedInTime
BY Invariance, IInvIsEnough, PTL
=============================================================================
