------------------------------ MODULE StatusSync ------------------------------
(***************************************************************************)
(* How node status reaches the web clients.                                *)
(*                                                                         *)
(* The render thread writes status into the registry while it prepares a   *)
(* frame and, at the end of tick_one_frame, flushes the pending changes    *)
(* and broadcasts them itself (emit_node_status, broadcast_message_sync).  *)
(* The configuration thread runs the web server: it opens and closes       *)
(* connections, keeps the set of subscribers and answers requests for a    *)
(* snapshot.  A client subscribes, then asks for a snapshot, and merges    *)
(* whatever arrives into its store (web/src/App.vue, status_store.ts).     *)
(*                                                                         *)
(* One element of Conns is one WebSocket session: a client that reconnects *)
(* has a new connection and an empty store.  The bundled client never      *)
(* unsubscribes.                                                           *)
(*                                                                         *)
(* The set of subscribers is not guarded.  Changing it while the render    *)
(* thread iterates over it is undefined behaviour: the model stops there.  *)
(***************************************************************************)
EXTENDS SequencesExt, Naturals

CONSTANTS
    Nodes,      \* graph nodes
    Fields,     \* status fields of a node
    Values,     \* what a field may hold
    Absent,     \* a field that is not there
    Conns,      \* WebSocket sessions
    NoConn,
    NoNode,
    MaxWrites   \* bound: status writes that change something

ASSUME StatusConstants ==
    /\ Absent \notin Values
    /\ NoConn \notin Conns
    /\ NoNode \notin Nodes
    /\ MaxWrites \in Nat

Status   == [Fields -> Values \cup {Absent}]
Statuses == [Nodes -> Status]

Message == [kind : {"socket_info"}]
           \cup [kind : {"delta"}, node : Nodes, status : Status]
           \cup [kind : {"snapshot"}, statuses : Statuses]

VARIABLES
    alive,          \* the nodes of the render thread's snapshot of the graph
    states,         \* states_
    pending,        \* pending_
    updates,        \* what flush() returned and is yet to be broadcast
    current,        \* the node whose update is being broadcast
    iterating,      \* the subscribers that broadcast has yet to reach
    render,         \* where the render thread is
    session,        \* connection -> what the server knows of it
    subscribers,    \* connections_by_topic_[node_status]
    requests,       \* connection -> what the client sent, in order
    serving,        \* the connection a snapshot has been taken for
    snapshot,       \* that snapshot
    inbox,          \* connection -> what the server sent, in order
    store,          \* connection -> the client's statuses
    following,      \* history: connections that were sent a snapshot
    overtaken,      \* history: those sent a delta between its taking and sending
    writes          \* counts towards MaxWrites

registry  == <<alive, states, pending, writes>>
broadcast == <<updates, current, iterating, render>>
server    == <<session, subscribers, requests, serving, snapshot>>
client    == <<inbox, store>>
history   == <<following, overtaken>>
vars      == <<registry, broadcast, server, client, history>>

Nothing == [f \in Fields |-> Absent]
Empty   == [n \in Nodes |-> Nothing]

Merge(old, new) == [f \in Fields |-> IF new[f] = Absent THEN old[f] ELSE new[f]]

-----------------------------------------------------------------------------
(* Render thread *)

\* Fault: of several writes in one frame the first is kept.
KeepFirst(old, new) == Merge(new, old)

\* (*pending)[name] = value, for the values that change.
Accumulate(old, new) == Merge(old, new)

\* node_status_registry_s::write of a batch: unchanged values are ignored.
Write(n, status) ==
    LET changed == [f \in Fields |-> IF status[f] = states[n][f] THEN Absent ELSE status[f]]
    IN /\ render = "frame" /\ n \in alive
       /\ changed # Nothing
       /\ writes < MaxWrites /\ writes' = writes + 1
       /\ states' = [states EXCEPT ![n] = Merge(@, changed)]
       /\ pending' = [pending EXCEPT ![n] = Accumulate(@, changed)]
       /\ UNCHANGED <<alive, broadcast, server, client, history>>

\* Fault: what is pending for a removed node stays.
RemoveFromStates(n) ==
    /\ render = "frame" /\ n \in alive
    /\ alive' = alive \ {n}
    /\ states' = [states EXCEPT ![n] = Nothing]
    /\ UNCHANGED <<pending, writes, broadcast, server, client, history>>

\* The snapshot of the graph loses a node: remove_node.
RemoveNode(n) ==
    /\ render = "frame" /\ n \in alive
    /\ alive' = alive \ {n}
    /\ states' = [states EXCEPT ![n] = Nothing]
    /\ pending' = [pending EXCEPT ![n] = Nothing]
    /\ UNCHANGED <<writes, broadcast, server, client, history>>

\* The frame ends: flush().
Flush ==
    /\ render = "frame" /\ render' = "broadcast"
    /\ updates' = pending
    /\ pending' = Empty
    /\ UNCHANGED <<alive, states, writes, current, iterating, server, client, history>>

\* broadcast_message_sync for one update; pending_ is not ordered.
StartBroadcast(n) ==
    /\ render = "broadcast" /\ updates[n] # Nothing
    /\ render' = "sending"
    /\ current' = n
    /\ iterating' = subscribers
    /\ UNCHANGED <<registry, updates, server, client, history>>

\* One send(); what is sent to a connection that broke is lost.
Send(c) ==
    /\ render = "sending" /\ c \in iterating
    /\ iterating' = iterating \ {c}
    /\ inbox' = IF session[c] # "open" THEN inbox
                ELSE [inbox EXCEPT ![c] =
                        Append(@, [kind |-> "delta", node |-> current, status |-> updates[current]])]
    /\ overtaken' = IF serving = c THEN overtaken \cup {c} ELSE overtaken
    /\ UNCHANGED <<registry, updates, current, render, server, store, following>>

EndBroadcast ==
    /\ render = "sending" /\ iterating = {}
    /\ render' = "broadcast"
    /\ updates' = [updates EXCEPT ![current] = Nothing]
    /\ current' = NoNode
    /\ UNCHANGED <<registry, iterating, server, client, history>>

NextFrame ==
    /\ render = "broadcast" /\ updates = Empty
    /\ render' = "frame"
    /\ UNCHANGED <<registry, updates, current, iterating, server, client, history>>

-----------------------------------------------------------------------------
(* Configuration thread: one handler at a time *)

Handling == render # "undefined" /\ serving = NoConn

\* What becomes of the render thread if the set it iterates over changes.
Disturb == render' = IF iterating # {} THEN "undefined" ELSE render

OnOpen(c) ==
    /\ Handling /\ session[c] = "new"
    /\ session' = [session EXCEPT ![c] = "open"]
    /\ inbox' = [inbox EXCEPT ![c] = Append(@, [kind |-> "socket_info"])]
    /\ UNCHANGED <<registry, broadcast, subscribers, requests, serving, snapshot, store, history>>

OnSubscribe(c) ==
    /\ Handling /\ session[c] = "open"
    /\ requests[c] # <<>> /\ Head(requests[c]) = "subscribe"
    /\ requests' = [requests EXCEPT ![c] = Tail(@)]
    /\ subscribers' = subscribers \cup {c}
    /\ Disturb
    /\ UNCHANGED <<registry, updates, current, iterating, session, serving, snapshot, client, history>>

\* handle_config takes the snapshot under the registry's mutex ...
TakeSnapshot(c) ==
    /\ Handling /\ session[c] = "open"
    /\ requests[c] # <<>> /\ Head(requests[c]) = "config"
    /\ requests' = [requests EXCEPT ![c] = Tail(@)]
    /\ serving' = c
    /\ snapshot' = states
    /\ UNCHANGED <<registry, broadcast, session, subscribers, client, history>>

\* ... and sends it when it has been serialised.
SendSnapshot ==
    /\ render # "undefined" /\ serving # NoConn
    /\ inbox' = IF session[serving] # "open" THEN inbox
                ELSE [inbox EXCEPT ![serving] =
                        Append(@, [kind |-> "snapshot", statuses |-> snapshot])]
    /\ following' = following \cup {serving}
    /\ serving' = NoConn
    /\ snapshot' = Empty
    /\ UNCHANGED <<registry, broadcast, session, subscribers, requests, store, overtaken>>

\* Fault: a closed connection stays in the set of subscribers.
CloseForgetful(c) ==
    /\ Handling /\ session[c] = "lost"
    /\ session' = [session EXCEPT ![c] = "closed"]
    /\ UNCHANGED <<registry, broadcast, subscribers, requests, serving, snapshot, client, history>>

OnClose(c) ==
    /\ Handling /\ session[c] = "lost"
    /\ session' = [session EXCEPT ![c] = "closed"]
    /\ subscribers' = subscribers \ {c}
    /\ IF c \in subscribers THEN Disturb ELSE UNCHANGED render
    /\ UNCHANGED <<registry, updates, current, iterating, requests, serving, snapshot, client, history>>

-----------------------------------------------------------------------------
(* Clients *)

\* handle_socket_info: resubscribe, then on_connected requests the configuration.
Hello == <<"subscribe", "config">>

\* Fault: a delta is taken for the node's whole status.
ReplaceStatus(statuses, n, status) == [statuses EXCEPT ![n] = status]

\* update_node_status: { ...old, ...new }.
UpdateNodeStatus(statuses, n, status) == [statuses EXCEPT ![n] = Merge(@, status)]

Handled(statuses, m) ==
    CASE m.kind = "socket_info" -> statuses
      [] m.kind = "delta"       -> UpdateNodeStatus(statuses, m.node, m.status)
      [] m.kind = "snapshot"    ->
            [n \in Nodes |-> UpdateNodeStatus(statuses, n, m.statuses[n])[n]]

HandleMessage(c) ==
    /\ render # "undefined" /\ session[c] = "open" /\ inbox[c] # <<>>
    /\ inbox' = [inbox EXCEPT ![c] = Tail(@)]
    /\ store' = [store EXCEPT ![c] = Handled(@, Head(inbox[c]))]
    /\ requests' = IF Head(inbox[c]).kind = "socket_info"
                   THEN [requests EXCEPT ![c] = Hello] ELSE requests
    /\ UNCHANGED <<registry, broadcast, session, subscribers, serving, snapshot, history>>

\* The connection breaks: on_disconnected clears the client's store.
Lose(c) ==
    /\ render # "undefined" /\ session[c] = "open"
    /\ session' = [session EXCEPT ![c] = "lost"]
    /\ requests' = [requests EXCEPT ![c] = <<>>]
    /\ inbox' = [inbox EXCEPT ![c] = <<>>]
    /\ store' = [store EXCEPT ![c] = Empty]
    /\ UNCHANGED <<registry, broadcast, subscribers, serving, snapshot, history>>

-----------------------------------------------------------------------------

Init ==
    /\ alive = Nodes /\ states = Empty /\ pending = Empty /\ writes = 0
    /\ updates = Empty /\ current = NoNode /\ iterating = {} /\ render = "frame"
    /\ session = [c \in Conns |-> "new"]
    /\ subscribers = {}
    /\ requests = [c \in Conns |-> <<>>]
    /\ serving = NoConn /\ snapshot = Empty
    /\ inbox = [c \in Conns |-> <<>>]
    /\ store = [c \in Conns |-> Empty]
    /\ following = {} /\ overtaken = {}

Render ==
    \/ Flush \/ EndBroadcast \/ NextFrame
    \/ \E n \in Nodes : StartBroadcast(n)
    \/ \E c \in Conns : Send(c)

Config ==
    \/ SendSnapshot
    \/ \E c \in Conns : OnSubscribe(c) \/ TakeSnapshot(c) \/ OnClose(c)

Undefined == render = "undefined" /\ UNCHANGED vars

Next ==
    \/ Render \/ Config \/ Undefined
    \/ \E n \in Nodes : RemoveNode(n) \/ \E status \in Status : Write(n, status)
    \/ \E c \in Conns : OnOpen(c) \/ HandleMessage(c) \/ Lose(c)

\* Both threads and the clients keep running; what is written, who connects and
\* what breaks is up to the world.
Spec ==
    /\ Init /\ [][Next]_vars
    /\ WF_vars(Render) /\ WF_vars(Config)
    /\ \A c \in Conns : WF_vars(HandleMessage(c))

-----------------------------------------------------------------------------
(* Properties *)

TypeOK ==
    /\ alive \in SUBSET Nodes
    /\ states \in Statuses /\ pending \in Statuses /\ updates \in Statuses
    /\ current \in Nodes \cup {NoNode}
    /\ iterating \in SUBSET Conns
    /\ render \in {"frame", "broadcast", "sending", "undefined"}
    /\ session \in [Conns -> {"new", "open", "lost", "closed"}]
    /\ subscribers \in SUBSET {c \in Conns : session[c] \in {"open", "lost"}}
    /\ requests \in [Conns -> Seq({"subscribe", "config"})]
    /\ serving \in Conns \cup {NoConn} /\ snapshot \in Statuses
    /\ inbox \in [Conns -> Seq(Message)]
    /\ store \in [Conns -> Statuses]
    /\ following \in SUBSET Conns /\ overtaken \in SUBSET Conns

Synced(c) == session[c] = "open" /\ c \in following /\ render # "undefined"

\* What a message says of a node.
Says(m, n) ==
    CASE m.kind = "delta"    -> IF m.node = n THEN m.status ELSE Nothing
      [] m.kind = "snapshot" -> m.statuses[n]
      [] OTHER               -> Nothing

\* What the client will hold of a node once it has handled its inbox: of each
\* field what the last message says that has it, or else what it holds now.
Expected(c, n) ==
    [f \in Fields |->
        LET saying == {i \in 1 .. Len(inbox[c]) : Says(inbox[c][i], n)[f] # Absent}
        IN  IF saying = {} THEN store[c][n][f] ELSE Says(inbox[c][Max(saying)], n)[f]]

\* The part of updates[n] that has yet to be sent to c.
Unsent(n, c) == IF n = current /\ c \notin iterating THEN Nothing ELSE updates[n]

\* From its snapshot on, whatever a client lacks of the registry is on its way:
\* in its inbox, in the broadcast under way, or pending.  The exception is a
\* client that was sent a delta while its snapshot was being serialised.
NothingIsLost ==
    \A c \in Conns \ overtaken : Synced(c) =>
        \A n \in alive :
            Merge(Merge(Expected(c, n), Unsent(n, c)), pending[n]) = states[n]

\* The registry holds nothing of nodes that are gone, so it does not grow and
\* no delta is broadcast for a node after the frame that dropped it.
StatusOfTheLiving ==
    \A n \in Nodes \ alive : states[n] = Nothing /\ pending[n] = Nothing

\* Types; and the registry has what was written last of every living node, in
\* its state and in what is still to be broadcast, and nothing of any other.
StatusIsKept == TypeOK /\ NothingIsLost /\ StatusOfTheLiving

Shows(c) == \A n \in alive : store[c][n] = states[n]

\* Once status stops changing, every client that stays connected shows it.
ClientsCatchUp ==
    <>[](\A c \in Conns \ overtaken : Synced(c) => Shows(c))

\* architecture.md: changes go into the broadcast at frame end, the store merges
\* them, and the initial config is a full snapshot.  So a client with nothing
\* left to come shows what the registry holds.
SettledClientsShowTheRegistry ==
    \A c \in Conns :
        (Synced(c) /\ inbox[c] = <<>> /\ updates = Empty /\ pending = Empty) => Shows(c)

\* server.hpp: "Sync versions of calls should only be called from the callback
\* thread", the thread that changes the set of subscribers, so never while
\* another iterates over it.
SubscribersAreNotDisturbed == render # "undefined"

=============================================================================
