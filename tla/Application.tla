---------------------------- MODULE Application ----------------------------
(***************************************************************************)
(* The life of the program: miximus_main, the settings file it loads and   *)
(* saves, and the web server that runs beside it on the configuration      *)
(* thread.  The server listens before the settings are loaded, serves      *)
(* commands only once the adapter has subscribed its handlers, and is      *)
(* stopped, with every connection closed, before the settings are saved    *)
(* and the nodes are cleared.  The process may be killed at every step and *)
(* is then started again on the file it left.                              *)
(***************************************************************************)
EXTENDS Naturals, Sequences, FiniteSets

CONSTANTS Connections,  \* connections the web server may accept
          MaxEdits,     \* bound: edits applied to the graph in all
          MaxRuns       \* bound: times the program is started

ASSUME ApplicationAssumption ==
         /\ IsFiniteSet(Connections)
         /\ MaxEdits \in Nat \ {0}
         /\ MaxRuns \in Nat \ {0}

\* The settings file: there is none; it was cut short, does not parse, has another
\* schema or is refused by a handler; or it holds the first n edits.
Missing == [kind |-> "missing", edits |-> 0]
Unloadable == [kind |-> "unloadable", edits |-> 0]
Settings(n) == [kind |-> "settings", edits |-> n]

VARIABLES
  main,      \* what the main thread does next
  runs,      \* how often the program was started
  file,      \* the settings file
  graph,     \* the edits in the node manager's graph
  answered,  \* the edits answered before the server was stopped
  saved,     \* this run wrote its settings completely
  tasks,     \* functions posted to the configuration executor
  listening, \* the endpoint accepts connections
  conn,      \* per connection: none, opening, open, closing, or late
  handlers,  \* the adapter's handlers are subscribed
  adapter,   \* the adapter: none, registered, or gone
  promise,   \* stop_promise_: none, held, or resolved
  watchdog   \* the shutdown watchdog is armed

vars == <<main, runs, file, graph, answered, saved, tasks, listening, conn, handlers, adapter,
          promise, watchdog>>

settings == <<file, graph, answered, saved>>
server == <<tasks, listening, conn, handlers, adapter, promise>>

Teardown == <<"destroying", "uninstalling", "draining", "releasing", "joining", "off">>
MainSteps == {"loading", "loaded", "configured", "adapting", "running", "stopping", "saving",
              "writing", "clearing", "unwinding"} \cup {Teardown[i] : i \in DOMAIN Teardown}

\* connections_: a connection is in it from on_open to on_close.
Connected == {c \in Connections : conn[c] \in {"open", "closing", "late"}}

\* The main thread left the scope of the web server (or there is no process).
ServerDestroyed == main \in {"uninstalling", "draining", "releasing", "joining", "off"}

Init ==
  /\ main = "off" /\ runs = 0
  /\ file \in {Missing, Unloadable, Settings(1)}
  /\ graph = 0 /\ answered = 0 /\ saved = FALSE
  /\ tasks = <<>> /\ listening = FALSE /\ conn = [c \in Connections |-> "none"]
  /\ handlers = FALSE /\ adapter = "none" /\ promise = "none" /\ watchdog = FALSE

----------------------------------------------------------------------------
(* The main thread. *)

\* Fault: the adapter is created before the settings are loaded.
StartServing ==
  /\ main = "off" /\ runs < MaxRuns
  /\ runs' = runs + 1
  /\ main' = "loading" /\ listening' = TRUE
  /\ graph' = 0 /\ answered' = 0 /\ saved' = FALSE
  /\ tasks' = <<"subscribe">> /\ conn' = [c \in Connections |-> "none"]
  /\ handlers' = FALSE /\ adapter' = "none" /\ promise' = "none" /\ watchdog' = FALSE
  /\ UNCHANGED file

\* A new process: the application state, the server bound to its executor and
\* listening (or the port is taken, which ends the run), an empty node manager.
Start ==
  /\ main = "off" /\ runs < MaxRuns
  /\ runs' = runs + 1
  /\ \/ main' = "loading" /\ listening' = TRUE
     \/ main' = "uninstalling" /\ listening' = FALSE
  /\ graph' = 0 /\ answered' = 0 /\ saved' = FALSE
  /\ tasks' = <<>> /\ conn' = [c \in Connections |-> "none"]
  /\ handlers' = FALSE /\ adapter' = "none" /\ promise' = "none" /\ watchdog' = FALSE
  /\ UNCHANGED file

\* load_file: a file that does not open is reported and the empty graph kept;
\* a file that does not load throws.
LoadFile ==
  /\ main = "loading"
  /\ \/ main' = "loaded" /\ UNCHANGED graph
     \/ file.kind = "settings" /\ graph = 0 /\ main' = "loaded" /\ graph' = file.edits
     \/ (file = Unloadable \/ graph # 0) /\ file # Missing
        /\ main' = "unwinding" /\ UNCHANGED graph
  /\ UNCHANGED <<runs, file, answered, saved, server, watchdog>>

\* set_config_getters, then the adapter's constructor subscribes its handlers:
\* both only post to the configuration executor.
SetConfigGetters ==
  /\ main = "loaded"
  /\ main' = "configured" /\ tasks' = Append(tasks, "getters")
  /\ UNCHANGED <<runs, settings, listening, conn, handlers, adapter, promise, watchdog>>

CreateAdapter ==
  /\ main = "configured"
  /\ main' = "adapting" /\ tasks' = Append(tasks, "subscribe")
  /\ UNCHANGED <<runs, settings, listening, conn, handlers, adapter, promise, watchdog>>

AddAdapter ==
  /\ main = "adapting"
  /\ main' = "running" /\ adapter' = "registered"
  /\ UNCHANGED <<runs, settings, tasks, listening, conn, handlers, promise, watchdog>>

\* A frame throws, and the stack is unwound without saving anything.
FrameThrows ==
  /\ main = "running"
  /\ main' = "unwinding"
  /\ UNCHANGED <<runs, settings, server, watchdog>>

\* Fault: the shutdown watchdog is never started.
LeaveLoopUnwatched ==
  /\ main = "running"
  /\ main' = "stopping"
  /\ tasks' = Append(tasks, "stop")
  /\ UNCHANGED <<runs, settings, listening, conn, handlers, adapter, promise, watchdog>>

\* A signal or --stop-after ends the loop: the watchdog is armed and stop()
\* posts the closing of every connection.
LeaveLoop ==
  /\ main = "running"
  /\ main' = "stopping" /\ watchdog' = TRUE
  /\ tasks' = Append(tasks, "stop")
  /\ UNCHANGED <<runs, settings, listening, conn, handlers, adapter, promise>>

\* Fault: stop() does not wait for the connections to close.
ClearAdaptersUnwaited ==
  /\ main = "stopping"
  /\ main' = "saving" /\ adapter' = "gone"
  /\ UNCHANGED <<runs, settings, tasks, listening, conn, handlers, promise, watchdog>>

\* stop() returns once the promise is resolved, and the adapters are cleared.
ClearAdapters ==
  /\ main = "stopping" /\ promise = "resolved"
  /\ main' = "saving" /\ adapter' = "gone"
  /\ UNCHANGED <<runs, settings, tasks, listening, conn, handlers, promise, watchdog>>

\* save_file opens the file, which empties it, and then writes the graph; a
\* failure of either is logged and the shutdown goes on.
OpenForSaving ==
  /\ main = "saving"
  /\ \/ main' = "writing" /\ file' = Unloadable
     \/ main' = "clearing" /\ UNCHANGED file
  /\ UNCHANGED <<runs, graph, answered, saved, server, watchdog>>

WriteSettings ==
  /\ main = "writing" /\ main' = "clearing"
  /\ \/ file' = Settings(graph) /\ saved' = TRUE
     \/ UNCHANGED <<file, saved>>
  /\ UNCHANGED <<runs, graph, answered, server, watchdog>>

ClearNodes ==
  /\ main = "clearing" /\ main' = "destroying" /\ graph' = 0
  /\ UNCHANGED <<runs, file, answered, saved, server, watchdog>>

\* Unwinding destroys the configuration and the node manager, adapter and all.
Unwind ==
  /\ main = "unwinding" /\ main' = "destroying"
  /\ adapter' = "gone" /\ graph' = 0
  /\ UNCHANGED <<runs, file, answered, saved, tasks, listening, conn, handlers, promise, watchdog>>

\* The web server and then the application state are destroyed: devices are
\* uninstalled, the control executors drained, the transfer services and the
\* GL context released, and the configuration thread stopped and joined.
Destroy ==
  \E i \in 1..(Len(Teardown) - 1) :
    /\ main = Teardown[i] /\ main' = Teardown[i + 1]
    /\ listening' = FALSE
    /\ watchdog' = (watchdog /\ main' # "off")
    /\ UNCHANGED <<runs, settings, tasks, conn, handlers, adapter, promise>>

\* The watchdog's five seconds pass, or the process is killed from outside.
Exit == main' = "off" /\ watchdog' = FALSE /\ UNCHANGED <<runs, settings, server>>
WatchdogFires == watchdog /\ main # "off" /\ Exit
Killed == main # "off" /\ Exit

Main == \/ Start \/ LoadFile \/ SetConfigGetters \/ CreateAdapter \/ AddAdapter \/ FrameThrows
        \/ LeaveLoop \/ ClearAdapters \/ OpenForSaving \/ WriteSettings \/ ClearNodes \/ Unwind
        \/ Destroy

----------------------------------------------------------------------------
(* The configuration thread: posted functions and connection events. *)

Served == ~ServerDestroyed
Process == <<main, runs, watchdog>>

Subscribe ==
  /\ tasks # <<>> /\ Head(tasks) \in {"getters", "subscribe"}
  /\ handlers' = (handlers \/ Head(tasks) = "subscribe")
  /\ UNCHANGED <<conn, listening, promise>>

\* The closing loop of stop() sees the connections of connections_ only.
CloseConnections ==
  /\ tasks # <<>> /\ Head(tasks) = "stop"
  /\ listening' = FALSE
  /\ conn' = [c \in Connections |-> IF conn[c] = "open" THEN "closing" ELSE conn[c]]
  /\ promise' = IF Connected = {} THEN "resolved" ELSE "held"
  /\ UNCHANGED handlers

Resolve ==
  /\ tasks # <<>> /\ Head(tasks) = "resolve"
  /\ promise' = "resolved"
  /\ UNCHANGED <<conn, listening, handlers>>

RunTask ==
  /\ Served
  /\ Subscribe \/ CloseConnections \/ Resolve
  /\ tasks' = Tail(tasks)
  /\ UNCHANGED <<Process, settings, adapter>>

\* A client connects while the endpoint listens; the handshake or the request
\* takes a while, and on_open puts the connection into connections_ even when
\* the closing loop has run.
Connect(c) ==
  /\ Served /\ listening /\ conn[c] = "none"
  /\ conn' = [conn EXCEPT ![c] = "opening"]
  /\ UNCHANGED <<Process, settings, tasks, listening, handlers, adapter, promise>>

OnOpen(c) ==
  /\ Served /\ conn[c] = "opening"
  /\ conn' = [conn EXCEPT ![c] = IF listening THEN "open" ELSE "late"]
  /\ UNCHANGED <<Process, settings, tasks, listening, handlers, adapter, promise>>

\* Fault: the promise stays where it is when the last connection closes.
OnCloseKeepingPromise(c) ==
  /\ Served /\ c \in Connected
  /\ conn' = [conn EXCEPT ![c] = "none"]
  /\ tasks' = IF Connected = {c} /\ promise = "held" THEN Append(tasks, "resolve") ELSE tasks
  /\ UNCHANGED <<Process, settings, listening, handlers, adapter, promise>>

\* A connection closes: at its peer's wish, or at the end of the handshake that
\* close() began.  The last one lets stop() go on, in a turn of its own.
OnClose(c) ==
  /\ Served /\ c \in Connected
  /\ conn' = [conn EXCEPT ![c] = "none"]
  /\ IF Connected = {c} /\ promise = "held"
     THEN promise' = "none" /\ tasks' = Append(tasks, "resolve")
     ELSE UNCHANGED <<promise, tasks>>
  /\ UNCHANGED <<Process, settings, listening, handlers, adapter>>

\* handle_user_command: without a subscription the command is refused.  The
\* subscribed handler belongs to the adapter; once that is gone the call is
\* undefined: it may still edit the graph, or end the process.
Edit ==
  /\ graph < MaxEdits
  /\ graph' = graph + 1
  /\ UNCHANGED <<main, watchdog, file, saved>>

Command(c) ==
  /\ Served /\ conn[c] \in {"open", "late"} /\ handlers
  /\ \/ /\ Edit
        /\ answered' = IF conn[c] = "open" THEN graph' ELSE answered
     \/ /\ adapter = "gone" /\ main' = "off" /\ watchdog' = FALSE
        /\ UNCHANGED settings
  /\ UNCHANGED <<runs, server>>

\* A command posted over HTTP: its connection is never in connections_.
PostControl(c) ==
  /\ Served /\ conn[c] = "opening"
  /\ conn' = [conn EXCEPT ![c] = "none"]
  /\ \/ handlers /\ Edit /\ UNCHANGED answered
     \/ ~handlers /\ UNCHANGED <<main, watchdog, settings>>
     \/ handlers /\ adapter = "gone" /\ main' = "off" /\ watchdog' = FALSE /\ UNCHANGED settings
  /\ UNCHANGED <<runs, tasks, listening, handlers, adapter, promise>>

\* The server is destroyed, the executor's thread is not yet stopped, and a
\* connection nobody closed calls the destroyed server's handlers.
StrayEvent(c) ==
  /\ main \in {"uninstalling", "draining", "releasing", "joining"}
  /\ conn[c] # "none"
  /\ Exit

ConfigurationThread ==
  \/ RunTask
  \/ \E c \in Connections :
       \/ Connect(c) \/ OnOpen(c) \/ OnClose(c) \/ Command(c) \/ PostControl(c) \/ StrayEvent(c)

Next == Main \/ WatchdogFires \/ Killed \/ ConfigurationThread

\* The main thread and the posted functions run; the watchdog's sleep ends.
\* Nothing is assumed of the clients.
Spec == Init /\ [][Next]_vars /\ WF_vars(Main) /\ WF_vars(RunTask) /\ WF_vars(WatchdogFires)

----------------------------------------------------------------------------
\* Every variable keeps its type, a promise is held only for connections that
\* are still in connections_, and tasks never pile up.
TypeOK ==
  /\ main \in MainSteps /\ runs \in 0..MaxRuns
  /\ file \in {Missing, Unloadable} \cup {Settings(n) : n \in 0..MaxEdits}
  /\ graph \in 0..MaxEdits /\ answered \in 0..MaxEdits /\ saved \in BOOLEAN
  /\ tasks \in Seq({"getters", "subscribe", "stop", "resolve"}) /\ Len(tasks) <= 3
  /\ listening \in BOOLEAN /\ handlers \in BOOLEAN /\ watchdog \in BOOLEAN
  /\ conn \in [Connections -> {"none", "opening", "open", "closing", "late"}]
  /\ adapter \in {"none", "registered", "gone"}
  /\ promise \in {"none", "held", "resolved"}
  /\ promise = "held" => Connected # {}

\* Clients can connect and send commands before the settings are loaded, but no
\* command reaches the graph by then: load() never meets edits it did not make
\* and never fails, or lets them stand, for that reason. And the types, with what
\* stop() relies on.
LoadMeetsAnEmptyGraph == TypeOK /\ (main = "loading" => graph = 0)

\* An edit a client was answered before the server stopped is in the file of a
\* run that saved: the save comes after the last command of every connection
\* the stop closed, and stop() comes back only when all of those are closed.
AnsweredEditsAreSaved == saved => file.kind = "settings" /\ file.edits >= answered

\* A shutdown that has begun ends, although stop() waits for connections whose
\* clients need not answer and the teardown waits for device control.
ShutdownEnds == main = "stopping" ~> main = "off"

=============================================================================
