--------------------------- MODULE ApplicationProofs ---------------------------
(***************************************************************************)
(* Machine-checked proofs about the life of the program, for any set of    *)
(* connections and any number of edits and runs.                           *)
(*                                                                         *)
(* The invariant follows the configuration thread's queue: which posted    *)
(* functions can still be in it at each step of the main thread, and what  *)
(* the function that closes the connections leaves behind.                 *)
(***************************************************************************)
EXTENDS Application, TLAPS

\* The last place in the queue each posted function can have.
Place(task) == CASE task = "getters" -> 1 [] task = "subscribe" -> 2 [] OTHER -> 3

\* The main thread posts in a fixed order, and what stop() posts, or the last
\* connection to close, is the end of the queue.
Queue(q) ==
    /\ q \in Seq({"getters", "subscribe", "stop", "resolve"})
    /\ \A i \in 1..Len(q) :
        /\ i <= Place(q[i])
        /\ q[i] \in {"stop", "resolve"} => i = Len(q)

Holds(q, some) == \A i \in 1..Len(q) : q[i] \in some

TaskInv ==
    /\ Queue(tasks)
    /\ main \in {"loading", "loaded"} => tasks = <<>>
    /\ main = "configured" => Holds(tasks, {"getters"})
    /\ main \in {"adapting", "running"} => Holds(tasks, {"getters", "subscribe"})

\* No handler is subscribed before the adapter is created.
SubscriptionInv ==
    main \in {"loading", "loaded", "configured"} => ~handlers

\* stop() has closed, or is closing, every connection there is to close.
Closing == promise # "none" \/ ~Holds(tasks, {"getters", "subscribe", "stop"})

StopInv ==
    /\ Closing =>
        /\ main \notin {"loading", "loaded", "configured", "adapting", "running"}
        /\ ~listening
        /\ \A c \in Connections : conn[c] # "open"
    /\ promise # "none" => tasks = <<>>
    /\ main \in {"saving", "writing", "clearing"} => promise = "resolved"

\* What clients were answered is in the graph until it has been saved.
SaveInv ==
    /\ main \in {"loading", "loaded", "configured", "adapting", "running", "stopping", "saving",
                 "writing", "clearing"} => answered <= graph
    /\ main \in {"loading", "loaded", "configured", "adapting", "running", "stopping", "saving",
                 "writing"} => ~saved
    /\ saved => promise = "resolved"

IInv ==
    /\ LoadMeetsAnEmptyGraph
    /\ TaskInv
    /\ SubscriptionInv
    /\ StopInv
    /\ SaveInv
    /\ AnsweredEditsAreSaved

-----------------------------------------------------------------------------
(* The queue *)

\* It never has more than three functions.
LEMMA QueuesAreShort ==
    ASSUME NEW q, Queue(q)
    PROVE  Len(q) <= 3
<1>1. CASE q = <<>>
  BY <1>1
<1>2. CASE q # <<>>
  <2>1. Len(q) \in 1..Len(q) /\ q[Len(q)] \in {"getters", "subscribe", "stop", "resolve"}
    BY <1>2 DEF Queue
  <2> QED BY <2>1 DEF Queue, Place
<1> QED BY <1>1, <1>2

\* A function posted behind an unfinished queue of earlier ones.
LEMMA PostTask ==
    ASSUME NEW q, Queue(q), NEW earlier, Holds(q, earlier),
           NEW task \in {"getters", "subscribe", "stop", "resolve"},
           \/ earlier = {}
           \/ task = "subscribe" /\ earlier = {"getters"}
           \/ task = "stop" /\ earlier = {"getters", "subscribe"}
    PROVE  Queue(Append(q, task)) /\ Holds(Append(q, task), earlier \cup {task})
<1> DEFINE t == Append(q, task)
<1>1. /\ t \in Seq({"getters", "subscribe", "stop", "resolve"})
      /\ Len(t) = Len(q) + 1 /\ Len(q) \in Nat
      /\ t[Len(t)] = task
      /\ \A i \in 1..Len(q) : t[i] = q[i]
  BY DEF Queue
<1> HIDE DEF t
<1>2. Len(q) + 1 <= Place(task)
  <2>1. CASE q = <<>>
    BY <2>1 DEF Place
  <2>2. CASE q # <<>>
    <3>1. Len(q) \in 1..Len(q)
      BY <1>1, <2>2 DEF Queue
    <3> QED BY <3>1 DEF Queue, Place, Holds
  <2> QED BY <2>1, <2>2
<1>3. \A i \in 1..Len(t) : i # Len(t) => i \in 1..Len(q)
  BY <1>1
<1>4. Queue(t)
  BY <1>1, <1>2, <1>3 DEF Queue, Holds
<1>5. Holds(t, earlier \cup {task})
  BY <1>1, <1>3 DEF Holds
<1> QED BY <1>4, <1>5 DEF t

\* The first function is run.
LEMMA RunFirst ==
    ASSUME NEW q, Queue(q), q # <<>>
    PROVE  /\ Queue(Tail(q))
           /\ \A some : Holds(q, some) => Holds(Tail(q), some) /\ Head(q) \in some
           /\ Head(q) \in {"stop", "resolve"} => Tail(q) = <<>>
           /\ ~Holds(Tail(q), {"getters", "subscribe", "stop"})
                  => ~Holds(q, {"getters", "subscribe", "stop"})
<1> DEFINE t == Tail(q)
<1>1. /\ t \in Seq({"getters", "subscribe", "stop", "resolve"})
      /\ Len(t) = Len(q) - 1 /\ Len(q) \in Nat \ {0}
      /\ Head(q) = q[1]
      /\ \A i \in 1..Len(t) : t[i] = q[i + 1] /\ i + 1 \in 1..Len(q)
  BY DEF Queue
<1>2. Head(q) \in {"stop", "resolve"} => t = <<>>
  <2>1. 1 \in 1..Len(q)
    BY <1>1
  <2>2. q[1] \in {"stop", "resolve"} => 1 = Len(q)
    BY <2>1 DEF Queue
  <2> QED BY <2>2, <1>1
<1> HIDE DEF t
<1>3. Queue(t)
  <2> SUFFICES ASSUME NEW i \in 1..Len(t)
               PROVE  i <= Place(t[i]) /\ (t[i] \in {"stop", "resolve"} => i = Len(t))
    BY <1>1 DEF Queue
  <2>1. i + 1 <= Place(q[i + 1]) /\ (q[i + 1] \in {"stop", "resolve"} => i + 1 = Len(q))
    BY <1>1 DEF Queue
  <2>2. Place(q[i + 1]) \in Nat
    BY DEF Place
  <2> QED BY <1>1, <2>1, <2>2
<1>4. ASSUME NEW some, Holds(q, some)
      PROVE  Holds(t, some) /\ Head(q) \in some
  BY <1>1, <1>4 DEF Holds
<1> QED BY <1>2, <1>3, <1>4 DEF t

-----------------------------------------------------------------------------
(* One step *)

\* The kinds of settings files are told apart, and a written one says what it holds.
LEMMA Files ==
    /\ Missing.kind # "settings" /\ Unloadable.kind # "settings" /\ Missing # Unloadable
    /\ \A n \in 0..MaxEdits : Settings(n).kind = "settings" /\ Settings(n).edits = n
BY DEF Missing, Unloadable, Settings

\* The steps of the main thread by name, and those of the teardown.
LEMMA MainThread ==
    /\ MainSteps = {"loading", "loaded", "configured", "adapting", "running", "stopping", "saving",
                    "writing", "clearing", "unwinding", "destroying", "uninstalling", "draining",
                    "releasing", "joining", "off"}
    /\ Destroy => /\ main \in {"destroying", "uninstalling", "draining", "releasing", "joining"}
                  /\ main' \in {"uninstalling", "draining", "releasing", "joining", "off"}
<1>1. DOMAIN Teardown = 1..6 /\ Len(Teardown) = 6
  BY DEF Teardown
<1>2. 1..6 = {1, 2, 3, 4, 5, 6} /\ 1..(6 - 1) = {1, 2, 3, 4, 5}
  OBVIOUS
<1>3. /\ Teardown[1] = "destroying" /\ Teardown[2] = "uninstalling" /\ Teardown[3] = "draining"
      /\ Teardown[4] = "releasing" /\ Teardown[5] = "joining" /\ Teardown[6] = "off"
  BY DEF Teardown
<1>4. {Teardown[i] : i \in DOMAIN Teardown}
        = {"destroying", "uninstalling", "draining", "releasing", "joining", "off"}
  BY <1>1, <1>2, <1>3
<1>5. ASSUME NEW i \in {1, 2, 3, 4, 5}
      PROVE  /\ Teardown[i] \in {"destroying", "uninstalling", "draining", "releasing", "joining"}
             /\ Teardown[i + 1] \in {"uninstalling", "draining", "releasing", "joining", "off"}
  BY <1>3
<1> QED BY <1>1, <1>2, <1>4, <1>5 DEF MainSteps, Destroy

LEMMA InitInv == Init => IInv
<1> SUFFICES ASSUME Init PROVE IInv
  OBVIOUS
<1> USE ApplicationAssumption, Files, MainThread
<1>1. /\ conn \in [Connections -> {"none", "opening", "open", "closing", "late"}]
      /\ tasks \in Seq({"getters", "subscribe", "stop", "resolve"}) /\ Len(tasks) <= 3
      /\ file \in {Missing, Unloadable} \cup {Settings(n) : n \in 0..MaxEdits}
  BY DEF Init
<1>3. LoadMeetsAnEmptyGraph
  <2>1. main \in MainSteps /\ runs \in 0..MaxRuns /\ graph \in 0..MaxEdits /\ answered \in 0..MaxEdits
    BY DEF Init
  <2> QED BY <1>1, <2>1 DEF Init, LoadMeetsAnEmptyGraph, TypeOK
<1>2. TaskInv
  BY DEF Init, TaskInv, Queue
<1> QED
  BY <1>2, <1>3 DEF Init, IInv, SubscriptionInv, StopInv, SaveInv, AnsweredEditsAreSaved, Closing, Holds

\* The main thread leaves the part of its life in which it serves and saves.
LEMMA NothingRuns ==
    ASSUME IInv,
           main' \in MainSteps,
           main' \notin {"loading", "loaded", "configured", "adapting", "running", "stopping",
                        "saving", "writing", "clearing"},
           listening' \in BOOLEAN, listening' => listening, watchdog' \in BOOLEAN,
           UNCHANGED <<runs, file, graph, answered, saved, tasks, conn, handlers, adapter, promise>>
    PROVE  IInv'
<1>1. LoadMeetsAnEmptyGraph'
  BY DEF IInv, LoadMeetsAnEmptyGraph, TypeOK, Connected
<1>2. TaskInv' /\ SubscriptionInv'
  BY DEF IInv, TaskInv, SubscriptionInv
<1>3. StopInv'
  BY DEF IInv, StopInv, Closing, LoadMeetsAnEmptyGraph, TypeOK
<1>4. SaveInv' /\ AnsweredEditsAreSaved'
  BY DEF IInv, SaveInv, AnsweredEditsAreSaved
<1> QED BY <1>1, <1>2, <1>3, <1>4 DEF IInv

\* The steps of the main thread that post nothing.
LEMMA MainKeepsInv ==
    IInv /\ (Start \/ LoadFile \/ AddAdapter \/ FrameThrows \/ ClearAdapters \/ OpenForSaving
             \/ WriteSettings \/ ClearNodes \/ Unwind \/ Destroy \/ WatchdogFires \/ Killed) => IInv'
<1> USE ApplicationAssumption
<1> USE DEF IInv, LoadMeetsAnEmptyGraph, TypeOK, TaskInv, SubscriptionInv, StopInv, SaveInv,
            AnsweredEditsAreSaved, Closing, Connected, settings, server
<1>1. ASSUME IInv, Start PROVE IInv'
  <2>1. conn' \in [Connections -> {"none", "opening", "open", "closing", "late"}]
        /\ \A c \in Connections : conn'[c] = "none"
    BY <1>1 DEF Start
  <2>2. Queue(tasks') /\ Len(tasks') <= 3
    BY <1>1 DEF Start, Queue
  <2>3. LoadMeetsAnEmptyGraph'
    <3>1. main' \in MainSteps /\ runs' \in 0..MaxRuns /\ file' = file
      BY <1>1, MainThread DEF Start
    <3>2. /\ graph' = 0 /\ answered' = 0
          /\ saved' = FALSE /\ handlers' = FALSE /\ watchdog' = FALSE /\ listening' \in BOOLEAN
          /\ adapter' = "none" /\ promise' = "none"
      BY <1>1 DEF Start
    <3>3. graph' \in 0..MaxEdits /\ answered' \in 0..MaxEdits
      BY <3>2
    <3>4. file' \in {Missing, Unloadable} \cup {Settings(n) : n \in 0..MaxEdits}
      BY <3>1, <1>1
    <3>5. TypeOK'
      <4> HIDE DEF IInv
      <4> QED BY <2>1, <2>2, <3>1, <3>2, <3>3, <3>4 DEF Queue
    <3> QED BY <3>2, <3>5
  <2> HIDE DEF LoadMeetsAnEmptyGraph
  <2>4. TaskInv'
    BY <1>1, <2>2 DEF Start, Holds
  <2>5. StopInv'
    BY <1>1, <2>1 DEF Start, Holds
  <2> QED BY <1>1, <2>3, <2>4, <2>5 DEF Start
<1>2. ASSUME IInv, LoadFile PROVE IInv'
  BY <1>2, Files, MainThread DEF LoadFile
<1>3. ASSUME IInv, AddAdapter PROVE IInv'
  BY <1>3, Files, MainThread DEF AddAdapter
<1>4. ASSUME IInv, FrameThrows PROVE IInv'
  BY <1>4, Files, MainThread DEF FrameThrows
<1>5. ASSUME IInv, ClearAdapters PROVE IInv'
  BY <1>5, Files, MainThread DEF ClearAdapters
<1>6. ASSUME IInv, OpenForSaving PROVE IInv'
  BY <1>6, Files, MainThread DEF OpenForSaving
<1>7. ASSUME IInv, WriteSettings PROVE IInv'
  <2>1. file' \in {Missing, Unloadable} \cup {Settings(n) : n \in 0..MaxEdits}
    BY <1>7, Files, MainThread DEF WriteSettings
  <2>2. CASE file' = Settings(graph) /\ saved' = TRUE
    <3>1. file'.kind = "settings" /\ file'.edits = graph /\ answered <= graph
      BY <1>7, <2>2, Files DEF WriteSettings
    <3>2. LoadMeetsAnEmptyGraph'
      BY <1>7, <2>1, <2>2, MainThread DEF WriteSettings
    <3> HIDE DEF LoadMeetsAnEmptyGraph
    <3> QED BY <1>7, <2>2, <3>1, <3>2 DEF WriteSettings
  <2>3. CASE UNCHANGED <<file, saved>>
    BY <1>7, <2>3, MainThread DEF WriteSettings
  <2> QED BY <1>7, <2>2, <2>3 DEF WriteSettings
<1>8. ASSUME IInv, ClearNodes PROVE IInv'
  BY <1>8, Files, MainThread DEF ClearNodes
<1>9. ASSUME IInv, Unwind PROVE IInv'
  BY <1>9, Files, MainThread DEF Unwind
<1>10. ASSUME IInv, Destroy PROVE IInv'
  <2>1. /\ main' \in MainSteps
        /\ main' \notin {"loading", "loaded", "configured", "adapting", "running", "stopping",
                        "saving", "writing", "clearing"}
        /\ listening' = FALSE /\ watchdog' \in BOOLEAN
        /\ UNCHANGED <<runs, file, graph, answered, saved, tasks, conn, handlers, adapter, promise>>
    BY <1>10, Files, MainThread DEF Destroy
  <2> HIDE DEF IInv
  <2> QED BY <1>10, <2>1, NothingRuns
<1>11. ASSUME IInv, WatchdogFires \/ Killed PROVE IInv'
  <2>1. /\ main' = "off" /\ watchdog' = FALSE
        /\ UNCHANGED <<runs, file, graph, answered, saved, tasks, listening, conn, handlers,
                       adapter, promise>>
    BY <1>11, Files, MainThread DEF WatchdogFires, Killed, Exit
  <2>2. main' \in MainSteps /\ (listening' => listening) /\ listening' \in BOOLEAN
    BY <2>1, <1>11, MainThread
  <2> HIDE DEF IInv
  <2> QED BY <1>11, <2>1, <2>2, NothingRuns
<1> QED
  BY <1>1, <1>2, <1>3, <1>4, <1>5, <1>6, <1>7, <1>8, <1>9, <1>10, <1>11

\* The steps of the main thread that post a function.
LEMMA PostingKeepsInv == IInv /\ (SetConfigGetters \/ CreateAdapter \/ LeaveLoop) => IInv'
<1> USE DEF TaskInv, SubscriptionInv, StopInv, SaveInv, AnsweredEditsAreSaved, Closing, settings
<1>1. ASSUME IInv, SetConfigGetters PROVE IInv'
  <2>1. Queue(tasks') /\ Holds(tasks', {"getters"})
    <3>1. Queue(tasks) /\ Holds(tasks, {})
      BY <1>1 DEF IInv, SetConfigGetters, Holds
    <3>2. Queue(Append(tasks, "getters")) /\ Holds(Append(tasks, "getters"), {} \cup {"getters"})
      BY <3>1, PostTask, Zenon
    <3>3. {} \cup {"getters"} = {"getters"}
      OBVIOUS
    <3> QED BY <1>1, <3>2, <3>3, Zenon DEF SetConfigGetters
  <2>2. LoadMeetsAnEmptyGraph'
    BY <1>1, <2>1, QueuesAreShort, MainThread
       DEF SetConfigGetters, IInv, LoadMeetsAnEmptyGraph, TypeOK, Queue, Connected
  <2>3. promise = "none" /\ main' = "configured"
    BY <1>1 DEF SetConfigGetters, IInv
  <2> QED BY <1>1, <2>1, <2>2, <2>3 DEF SetConfigGetters, IInv, Holds
<1>2. ASSUME IInv, CreateAdapter PROVE IInv'
  <2>1. Queue(tasks') /\ Holds(tasks', {"getters", "subscribe"})
    <3>1. Queue(tasks) /\ Holds(tasks, {"getters"})
      BY <1>2 DEF IInv, CreateAdapter
    <3>2. {"getters"} \cup {"subscribe"} = {"getters", "subscribe"}
      OBVIOUS
    <3>3. /\ Queue(Append(tasks, "subscribe"))
          /\ Holds(Append(tasks, "subscribe"), {"getters"} \cup {"subscribe"})
      BY <3>1, PostTask, Zenon
    <3> QED BY <1>2, <3>2, <3>3, Zenon DEF CreateAdapter
  <2>2. LoadMeetsAnEmptyGraph'
    BY <1>2, <2>1, QueuesAreShort, MainThread
       DEF CreateAdapter, IInv, LoadMeetsAnEmptyGraph, TypeOK, Queue, Connected
  <2>3. promise = "none" /\ main' = "adapting"
    BY <1>2 DEF CreateAdapter, IInv
  <2> QED BY <1>2, <2>1, <2>2, <2>3 DEF CreateAdapter, IInv, Holds
<1>3. ASSUME IInv, LeaveLoop PROVE IInv'
  <2>1. Queue(tasks') /\ Holds(tasks', {"getters", "subscribe", "stop"})
    <3>1. Queue(tasks) /\ Holds(tasks, {"getters", "subscribe"})
      BY <1>3 DEF IInv, LeaveLoop
    <3>2. {"getters", "subscribe"} \cup {"stop"} = {"getters", "subscribe", "stop"}
      OBVIOUS
    <3>3. /\ Queue(Append(tasks, "stop"))
          /\ Holds(Append(tasks, "stop"), {"getters", "subscribe"} \cup {"stop"})
      BY <3>1, PostTask, Zenon
    <3> QED BY <1>3, <3>2, <3>3, Zenon DEF LeaveLoop
  <2>2. LoadMeetsAnEmptyGraph'
    BY <1>3, <2>1, QueuesAreShort, MainThread
       DEF LeaveLoop, IInv, LoadMeetsAnEmptyGraph, TypeOK, Queue, Connected
  <2>3. promise = "none" /\ main' = "stopping"
    BY <1>3 DEF LeaveLoop, IInv
  <2> QED BY <1>3, <2>1, <2>2, <2>3 DEF LeaveLoop, IInv
<1> QED BY <1>1, <1>2, <1>3

\* The posted functions.
LEMMA TasksKeepInv == IInv /\ RunTask => IInv'
<1> SUFFICES ASSUME IInv, RunTask PROVE IInv'
  OBVIOUS
<1>1. /\ Queue(tasks) /\ tasks # <<>> /\ tasks' = Tail(tasks)
      /\ UNCHANGED <<main, runs, watchdog, file, graph, answered, saved, adapter>>
  BY DEF RunTask, IInv, TaskInv, Subscribe, CloseConnections, Resolve, Process, settings
<1>2. /\ TaskInv' /\ promise = "none"
      /\ Head(tasks) \in {"stop", "resolve"} => tasks' = <<>>
      /\ ~Holds(tasks', {"getters", "subscribe", "stop"})
             => ~Holds(tasks, {"getters", "subscribe", "stop"})
  <2>1. TaskInv'
    BY <1>1, RunFirst DEF IInv, TaskInv
  <2> QED BY <1>1, <2>1, RunFirst DEF IInv, StopInv
<1>3. tasks' \in Seq({"getters", "subscribe", "stop", "resolve"}) /\ Len(tasks') <= 3
  BY <1>2, QueuesAreShort DEF TaskInv, Queue
<1>4. CASE Subscribe
  <2>1. LoadMeetsAnEmptyGraph'
    BY <1>1, <1>3, <1>4 DEF Subscribe, IInv, LoadMeetsAnEmptyGraph, TypeOK, Connected
  <2>2. SubscriptionInv'
    BY <1>1, <1>4, RunFirst DEF Subscribe, IInv, SubscriptionInv, TaskInv
  <2>3. StopInv'
    BY <1>1, <1>2, <1>4 DEF Subscribe, IInv, StopInv, Closing
  <2> QED BY <1>1, <1>2, <1>4, <2>1, <2>2, <2>3
             DEF Subscribe, IInv, SaveInv, AnsweredEditsAreSaved
<1>5. CASE CloseConnections
  <2>1. /\ conn' \in [Connections -> {"none", "opening", "open", "closing", "late"}]
        /\ \A c \in Connections : conn'[c] # "open"
        /\ Connected' = Connected
    BY <1>5 DEF CloseConnections, IInv, LoadMeetsAnEmptyGraph, TypeOK, Connected
  <2>2. promise' \in {"held", "resolved"} /\ (promise' = "held" => Connected' # {})
        /\ listening' = FALSE /\ handlers' = handlers
    BY <1>5, <2>1 DEF CloseConnections
  <2>3. LoadMeetsAnEmptyGraph'
    BY <1>1, <1>3, <2>1, <2>2 DEF IInv, LoadMeetsAnEmptyGraph, TypeOK
  <2>4. main \notin {"loading", "loaded", "configured", "adapting", "running", "saving", "writing",
                     "clearing"}
    <3>1. Head(tasks) \notin {"getters", "subscribe"}
      BY <1>5 DEF CloseConnections
    <3>2. ~Holds(tasks, {"getters"}) /\ ~Holds(tasks, {"getters", "subscribe"})
      BY <1>1, <3>1, RunFirst
    <3> QED BY <1>1, <1>2, <3>2 DEF IInv, TaskInv, StopInv
  <2>5. StopInv'
    BY <1>1, <1>2, <1>5, <2>1, <2>2, <2>4 DEF CloseConnections, StopInv
  <2> QED BY <1>1, <1>2, <2>2, <2>3, <2>4, <2>5
             DEF IInv, SubscriptionInv, SaveInv, AnsweredEditsAreSaved
<1>6. CASE Resolve
  <2>1. promise' = "resolved" /\ UNCHANGED <<conn, listening, handlers>> /\ Closing
    <3>1. ~Holds(tasks, {"getters", "subscribe", "stop"})
      BY <1>1, <1>6, RunFirst DEF Resolve
    <3> QED BY <1>6, <3>1 DEF Resolve, Closing
  <2>2. LoadMeetsAnEmptyGraph'
    BY <1>1, <1>3, <2>1 DEF IInv, LoadMeetsAnEmptyGraph, TypeOK, Connected
  <2>3. StopInv'
    BY <1>1, <1>2, <1>6, <2>1 DEF Resolve, IInv, StopInv
  <2> QED BY <1>1, <1>2, <2>1, <2>2, <2>3
             DEF IInv, SubscriptionInv, SaveInv, AnsweredEditsAreSaved
<1> QED BY <1>4, <1>5, <1>6 DEF RunTask

\* An edit, or a call into the destroyed adapter that ends the process.
LEMMA CommandKeepsInv ==
    ASSUME NEW c \in Connections
    PROVE  IInv /\ (Command(c) \/ PostControl(c) \/ StrayEvent(c)) => IInv'
<1>1. ASSUME IInv, Edit, handlers, UNCHANGED <<runs, tasks, listening, handlers, adapter, promise>>,
             answered' \in {answered, graph'},
             answered' # answered => conn[c] = "open",
             conn' = conn \/ (conn[c] = "opening" /\ conn' = [conn EXCEPT ![c] = "none"])
      PROVE  IInv'
  <2>1. /\ conn' \in [Connections -> {"none", "opening", "open", "closing", "late"}]
        /\ Connected' = Connected
        /\ (\A d \in Connections : conn[d] # "open") => \A d \in Connections : conn'[d] # "open"
    BY <1>1 DEF IInv, LoadMeetsAnEmptyGraph, TypeOK, Connected
  <2>2. graph' \in 0..MaxEdits /\ graph' = graph + 1 /\ graph \in Nat /\ answered \in Nat
        /\ answered' \in 0..MaxEdits
    BY <1>1, ApplicationAssumption DEF Edit, IInv, LoadMeetsAnEmptyGraph, TypeOK
  <2>3. main # "loading"
    BY <1>1 DEF IInv, SubscriptionInv
  <2>4. LoadMeetsAnEmptyGraph'
    BY <1>1, <2>1, <2>2, <2>3 DEF Edit, IInv, LoadMeetsAnEmptyGraph, TypeOK
  <2>5. StopInv'
    BY <1>1, <2>1 DEF Edit, IInv, StopInv, Closing
  <2>6. SaveInv'
    BY <1>1, <2>2 DEF Edit, IInv, SaveInv
  <2>7. AnsweredEditsAreSaved'
    <3>1. saved => answered' = answered
      BY <1>1 DEF IInv, SaveInv, StopInv, Closing
    <3> QED BY <1>1, <3>1 DEF Edit, IInv, AnsweredEditsAreSaved
  <2>8. TaskInv' /\ SubscriptionInv'
    BY <1>1 DEF Edit, IInv, TaskInv, SubscriptionInv
  <2> QED BY <2>4, <2>5, <2>6, <2>7, <2>8 DEF IInv
<1>2. ASSUME IInv, main' = "off", watchdog' = FALSE,
             UNCHANGED <<runs, file, graph, answered, saved, tasks, listening, handlers, adapter, promise>>,
             conn' = conn \/ (conn[c] = "opening" /\ conn' = [conn EXCEPT ![c] = "none"])
      PROVE  IInv'
  <2>1. /\ conn' \in [Connections -> {"none", "opening", "open", "closing", "late"}]
        /\ Connected' = Connected
        /\ (\A d \in Connections : conn[d] # "open") => \A d \in Connections : conn'[d] # "open"
    BY <1>2 DEF IInv, LoadMeetsAnEmptyGraph, TypeOK, Connected
  <2>2. LoadMeetsAnEmptyGraph'
    BY <1>2, <2>1, MainThread DEF IInv, LoadMeetsAnEmptyGraph, TypeOK
  <2>3. StopInv'
    BY <1>2, <2>1 DEF IInv, StopInv, Closing
  <2> QED BY <1>2, <2>2, <2>3 DEF IInv, TaskInv, SubscriptionInv, SaveInv, AnsweredEditsAreSaved
<1>3. ASSUME IInv, Command(c) PROVE IInv'
  <2>1. CASE Edit /\ answered' = IF conn[c] = "open" THEN graph' ELSE answered
    BY <1>1, <1>3, <2>1 DEF Command, server
  <2>2. CASE main' = "off" /\ watchdog' = FALSE /\ UNCHANGED settings
    BY <1>2, <1>3, <2>2 DEF Command, server, settings
  <2> QED BY <1>3, <2>1, <2>2 DEF Command
<1>4. ASSUME IInv, PostControl(c) PROVE IInv'
  <2>1. CASE handlers /\ Edit /\ UNCHANGED answered
    BY <1>1, <1>4, <2>1 DEF PostControl
  <2>2. CASE main' = "off" /\ watchdog' = FALSE /\ UNCHANGED settings
    BY <1>2, <1>4, <2>2 DEF PostControl, settings
  <2>3. CASE UNCHANGED <<main, watchdog, settings>>
    <3>1. /\ conn' \in [Connections -> {"none", "opening", "open", "closing", "late"}]
          /\ Connected' = Connected
          /\ (\A d \in Connections : conn[d] # "open") => \A d \in Connections : conn'[d] # "open"
      BY <1>4 DEF PostControl, IInv, LoadMeetsAnEmptyGraph, TypeOK, Connected
    <3>2. LoadMeetsAnEmptyGraph'
      BY <1>4, <2>3, <3>1 DEF PostControl, settings, IInv, LoadMeetsAnEmptyGraph, TypeOK
    <3>3. StopInv'
      BY <1>4, <2>3, <3>1 DEF PostControl, settings, IInv, StopInv, Closing
    <3> QED BY <1>4, <2>3, <3>2, <3>3
               DEF PostControl, settings, IInv, TaskInv, SubscriptionInv, SaveInv, AnsweredEditsAreSaved
  <2> QED BY <1>4, <2>1, <2>2, <2>3 DEF PostControl
<1>5. ASSUME IInv, StrayEvent(c) PROVE IInv'
  BY <1>2, <1>5 DEF StrayEvent, Exit, settings, server
<1> QED BY <1>3, <1>4, <1>5

\* A connection comes and goes.
LEMMA ConnectionKeepsInv ==
    ASSUME NEW c \in Connections
    PROVE  IInv /\ (Connect(c) \/ OnOpen(c) \/ OnClose(c)) => IInv'
<1>1. ASSUME IInv, UNCHANGED <<main, runs, watchdog, file, graph, answered, saved, tasks, listening,
                               handlers, adapter, promise>>,
             NEW s \in {"none", "opening", "open", "closing", "late"},
             conn' = [conn EXCEPT ![c] = s],
             s = "open" => listening,
             promise = "held" => Connected' # {}
      PROVE  IInv'
  <2>1. conn' \in [Connections -> {"none", "opening", "open", "closing", "late"}]
    BY <1>1 DEF IInv, LoadMeetsAnEmptyGraph, TypeOK
  <2>2. LoadMeetsAnEmptyGraph'
    BY <1>1, <2>1 DEF IInv, LoadMeetsAnEmptyGraph, TypeOK
  <2>3. Closing => \A d \in Connections : conn'[d] # "open"
    BY <1>1 DEF IInv, StopInv, LoadMeetsAnEmptyGraph, TypeOK
  <2>4. StopInv'
    BY <1>1, <2>3 DEF IInv, StopInv, Closing
  <2> QED BY <1>1, <2>2, <2>4 DEF IInv, TaskInv, SubscriptionInv, SaveInv, AnsweredEditsAreSaved
<1>2. ASSUME IInv, Connect(c) PROVE IInv'
  <2>1. Connected \subseteq Connected'
    BY <1>2 DEF Connect, Connected, IInv, LoadMeetsAnEmptyGraph, TypeOK
  <2>2. promise = "held" => Connected' # {}
    BY <1>2, <2>1 DEF IInv, LoadMeetsAnEmptyGraph, TypeOK
  <2> QED BY <1>1, <1>2, <2>2 DEF Connect, Process, settings
<1>3. ASSUME IInv, OnOpen(c) PROVE IInv'
  <2>1. Connected \subseteq Connected'
    BY <1>3 DEF OnOpen, Connected, IInv, LoadMeetsAnEmptyGraph, TypeOK
  <2>2. promise = "held" => Connected' # {}
    BY <1>3, <2>1 DEF IInv, LoadMeetsAnEmptyGraph, TypeOK
  <2> DEFINE s == IF listening THEN "open" ELSE "late"
  <2>3. s \in {"none", "opening", "open", "closing", "late"} /\ (s = "open" => listening)
        /\ conn' = [conn EXCEPT ![c] = s]
    BY <1>3 DEF OnOpen
  <2>4. UNCHANGED <<main, runs, watchdog, file, graph, answered, saved, tasks, listening,
                    handlers, adapter, promise>>
    BY <1>3 DEF OnOpen, Process, settings
  <2> HIDE DEF s
  <2> QED BY <1>1, <1>3, <2>2, <2>3, <2>4
<1>4. ASSUME IInv, OnClose(c) PROVE IInv'
  <2>1. Connected' = Connected \ {c}
    BY <1>4 DEF OnClose, Connected, IInv, LoadMeetsAnEmptyGraph, TypeOK
  <2>2. CASE ~(Connected = {c} /\ promise = "held")
    <3>1. promise = "held" => Connected' # {}
      BY <1>4, <2>1, <2>2 DEF OnClose, IInv, LoadMeetsAnEmptyGraph, TypeOK
    <3> QED BY <1>1, <1>4, <2>2, <3>1 DEF OnClose, Process, settings
  <2>3. CASE Connected = {c} /\ promise = "held"
    <3>1. /\ promise' = "none" /\ tasks = <<>> /\ tasks' = Append(tasks, "resolve")
          /\ UNCHANGED <<main, runs, watchdog, file, graph, answered, saved, listening, handlers, adapter>>
      BY <1>4, <2>3 DEF OnClose, Process, settings, IInv, StopInv
    <3>2. conn' \in [Connections -> {"none", "opening", "open", "closing", "late"}]
          /\ \A d \in Connections : conn'[d] # "open"
      BY <1>4, <2>3 DEF OnClose, IInv, StopInv, Closing, LoadMeetsAnEmptyGraph, TypeOK
    <3>3. Queue(tasks')
      <4>1. Queue(tasks) /\ Holds(tasks, {})
        BY <1>4, <3>1 DEF IInv, TaskInv, Holds
      <4> QED BY <3>1, <4>1, PostTask
    <3>4. LoadMeetsAnEmptyGraph'
      BY <1>4, <3>1, <3>2, <3>3, QueuesAreShort DEF IInv, LoadMeetsAnEmptyGraph, TypeOK, Queue
    <3>5. Closing /\ promise # "resolved"
      BY <2>3 DEF Closing
    <3> QED BY <1>4, <3>1, <3>2, <3>3, <3>4, <3>5
               DEF IInv, TaskInv, SubscriptionInv, StopInv, SaveInv, AnsweredEditsAreSaved
  <2> QED BY <2>2, <2>3
<1> QED BY <1>2, <1>3, <1>4

LEMMA NextInv == IInv /\ [Next]_vars => IInv'
<1> SUFFICES ASSUME IInv, [Next]_vars PROVE IInv'
  OBVIOUS
<1>1. CASE Next
  BY <1>1, MainKeepsInv, PostingKeepsInv, TasksKeepInv, CommandKeepsInv, ConnectionKeepsInv
     DEF Next, Main, ConfigurationThread
<1>2. CASE UNCHANGED vars
  BY <1>2 DEF vars, IInv, LoadMeetsAnEmptyGraph, TypeOK, Connected, TaskInv, SubscriptionInv,
              StopInv, SaveInv, AnsweredEditsAreSaved, Closing
<1> QED BY <1>1, <1>2

-----------------------------------------------------------------------------
(* The theorems *)

\* The queue, the subscription, the stop and the save stay as described.
THEOREM Invariance == Spec => []IInv
BY InitInv, NextInv, PTL DEF Spec

\* load() never meets edits it did not make: no command of any client, connected
\* as early as it may be, reaches the graph before the settings are loaded.
THEOREM LoadIsUndisturbed == Spec => []LoadMeetsAnEmptyGraph
<1>1. IInv => LoadMeetsAnEmptyGraph
  BY DEF IInv
<1> QED BY <1>1, Invariance, PTL

\* What a client was answered before the server stopped is in the file of every
\* run that saved: stop() returns when nobody is left who could be answered.
THEOREM AnswersSurvive == Spec => []AnsweredEditsAreSaved
<1>1. IInv => AnsweredEditsAreSaved
  BY DEF IInv
<1> QED BY <1>1, Invariance, PTL

=============================================================================
