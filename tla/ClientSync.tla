----------------------------- MODULE ClientSync -----------------------------
(* Editors and the server's graph. Every client edits a graph of its own, sends *)
(* what its user does as commands and applies what the server broadcasts; the   *)
(* server handles one message at a time. Messages of a connection stay in       *)
(* order; a connection may close at any time, on either side first.             *)
(*                                                                              *)
(* src/web/src/server_sync.ts, websocket.ts and App.vue, against what the       *)
(* server does in src/src/web_server/detail/server_websocket.cpp and            *)
(* src/src/core/adapters/adapter_websocket.cpp. The server's graph is that of   *)
(* NodeManager, cut down to one input that takes one connection and one option  *)
(* per node. All topics are subscribed to with one message; titles and          *)
(* positions are options like any other; node status, the settings panel, pings *)
(* and the reload for a new bundle are left out. The editor's graph is a        *)
(* library's, modelled from the events this code relies on.                     *)
EXTENDS Integers, SequencesExt

CONSTANTS
    Clients,   \* editors
    Ids,       \* bound: ids the server can generate
    Locals,    \* bound: nodes of an editor that the server does not know yet
    Values,    \* values of an option
    Default,   \* the value of a new node
    Corrected, \* what normalize_option makes of a value
    None,
    MaxConns,  \* bound: connections ever opened
    MaxEdits   \* bound: what users do

ASSUME ClientAssumption ==
    /\ None \notin Ids \cup Locals \cup Values /\ Ids \cap Locals = {}
    /\ Default \in Values /\ Corrected \in [Values -> Values]
    /\ MaxConns \in Nat /\ MaxEdits \in Nat

VARIABLES
    graph,   \* the server's nodes, with their values, and connections
    used,    \* ids it has generated
    conns,   \* connections: messages up and down, open at which ends, subscribed
    opened,  \* next_connection_id_
    clients, \* the editors
    edits    \* how much users have done

vars == <<graph, used, conns, opened, clients, edits>>

Connections == 1..MaxConns
Keys == Ids \cup Locals
Links == {c \in Keys \X Keys : c[1] # c[2]}

\* An editor: its socket and, once informed of it, info; the graph it shows,
\* pendingNodes, tokens it has used, and the messages the step sends.
NewClient ==
    [socket |-> 0, info |-> 0, configured |-> FALSE, nodes |-> <<>>, cons |-> {},
     pending |-> <<>>, next_token |-> 0, out |-> <<>>, early |-> FALSE]

NewConn == [up |-> <<>>, down |-> <<>>, here |-> FALSE, there |-> FALSE, subscribed |-> FALSE]

Without(f, keys) == [k \in DOMAIN f \ keys |-> f[k]]

-----------------------------------------------------------------------------
(* server_sync.ts, as operators from an editor to what it becomes. *)

\* ws.send: without socket info nothing is sent.
Send(s, m) == IF s.info = 0 THEN s ELSE [s EXCEPT !.out = Append(@, m)]

IsPending(s, k) == k \in DOMAIN s.pending

\* connectionHasPendingNode
HasPendingNode(s, c) == IsPending(s, c[1]) \/ IsPending(s, c[2])

\* The removeConnection event, unless the removal is the server's.
DropConnection(s, c, guarded) ==
    LET s1 == [s EXCEPT !.cons = @ \ {c}]
    IN  IF guarded \/ HasPendingNode(s, c) THEN s1
        ELSE Send(s1, [msg |-> "remove_connection", con |-> c])

DropConnections(s, cs, guarded) ==
    FoldSet(LAMBDA c, t : DropConnection(t, c, guarded), s, cs)

\* The removeNode event: a pending node that has been sent is cancelled.
NodeRemoved(s, k, guarded) ==
    CASE IsPending(s, k) /\ (guarded \/ s.pending[k].token = None) ->
             [s EXCEPT !.pending = Without(@, {k})]
      [] IsPending(s, k) /\ ~guarded /\ s.pending[k].token # None ->
             [s EXCEPT !.pending[k].cancelled = TRUE]
      [] ~IsPending(s, k) /\ guarded -> s
      [] OTHER -> Send(s, [msg |-> "remove_node", id |-> k])

\* graph.removeNode: first the connections of the node go, each with its event.
DropNode(s, k, guarded, cons_guarded) ==
    LET s1 == DropConnections(s, {c \in s.cons : k \in {c[1], c[2]}}, cons_guarded)
    IN  NodeRemoved([s1 EXCEPT !.nodes = Without(@, {k})], k, guarded)

DropNodes(s, ks) == FoldSet(LAMBDA k, t : DropNode(t, k, TRUE, FALSE), s, ks)

\* sendAddConnection: not before both nodes are known to the server.
SendAddConnection(s, c) ==
    IF HasPendingNode(s, c) THEN s ELSE Send(s, [msg |-> "add_connection", con |-> c])

\* Fault: nobody looks whether the editor shows the nodes.
AddLinkUnchecked(s, c, guarded) ==
    IF c \in s.cons THEN s
    ELSE LET s1 == DropConnections(s, {d \in s.cons : d[2] = c[2]}, FALSE)
             s2 == [s1 EXCEPT !.cons = @ \cup {c}]
         IN  IF guarded THEN s2 ELSE SendAddConnection(s2, c)

\* handle_server_add_connection and graph.addConnection: not twice, and what the input holds goes first.
AddLink(s, c, guarded) ==
    IF c \in s.cons \/ ~({c[1], c[2]} \subseteq DOMAIN s.nodes) THEN s
    ELSE LET s1 == DropConnections(s, {d \in s.cons : d[2] = c[2]}, FALSE)
             s2 == [s1 EXCEPT !.cons = @ \cup {c}]
         IN  IF guarded THEN s2 ELSE SendAddConnection(s2, c)

SetNode(f, k, value) == (k :> value) @@ f

\* handle_server_update_node
UpdateNode(s, id, value) ==
    IF id \in DOMAIN s.nodes THEN [s EXCEPT !.nodes[id] = value] ELSE s

\* A pending node whose command has this token.
Answered(s, token) == {k \in DOMAIN s.pending : s.pending[k].token = token}

Renamed(k, old, id) == IF k = old THEN id ELSE k

\* sendPendingConnections
SendPendingConnections(s, id) ==
    FoldSet(LAMBDA c, t : SendAddConnection(t, c), s, {c \in s.cons : id \in {c[1], c[2]}})

\* Fault: a node that was removed while it was pending is forgotten.
AcknowledgeForgetful(s, k, id) ==
    LET s1 == [s EXCEPT !.pending = Without(@, {k})]
    IN  IF s.pending[k].cancelled THEN s1
        ELSE SendPendingConnections(
                 [s1 EXCEPT !.nodes = SetNode(Without(@, {k}), id, @[k]),
                            !.cons = {<<Renamed(c[1], k, id), Renamed(c[2], k, id)>> : c \in @}],
                 id)

\* The server's id of a pending node has come.
Acknowledge(s, k, id) ==
    LET s1 == [s EXCEPT !.pending = Without(@, {k})]
    IN  IF s.pending[k].cancelled THEN Send(s1, [msg |-> "remove_node", id |-> id])
        ELSE SendPendingConnections(
                 [s1 EXCEPT !.nodes = SetNode(Without(@, {k}), id, @[k]),
                            !.cons = {<<Renamed(c[1], k, id), Renamed(c[2], k, id)>> : c \in @}],
                 id)

\* handle_server_add_node and handle_server_update_node.
ServerAddNode(s, id, value, token) ==
    LET known == Answered(s, token)
    IN  IF token # None /\ known # {}
        THEN UpdateNode(Acknowledge(s, CHOOSE k \in known : TRUE, id), id, value)
        ELSE [s EXCEPT !.nodes = SetNode(@, id, value)]

\* failPendingNode
FailPendingNode(s, k) ==
    IF k \in DOMAIN s.nodes THEN DropNode(s, k, TRUE, TRUE)
                            ELSE [s EXCEPT !.pending = Without(@, {k})]

\* The config result: what the editor shows is cleared and built anew.
Configure(s, g) ==
    LET s1 == DropNodes(s, DOMAIN s.nodes)
        s2 == [s1 EXCEPT !.nodes = g.nodes, !.configured = TRUE]
    IN  FoldSet(LAMBDA c, t : AddLink(t, c, TRUE), s2, g.cons)

\* Fault: a refused connection stays.
RefusedNodesOnly(s, request) ==
    LET known == Answered(s, request.token)
    IN  IF request.msg # "add_node" THEN s
        ELSE IF known = {} THEN s ELSE FailPendingNode(s, CHOOSE k \in known : TRUE)

\* handle_server_remove_connection, of own echoes too.
ServerRemovesConnection(s, m) == DropConnection(s, m.con, TRUE)

\* The callback of a request that was refused.
Refused(s, request) ==
    CASE request.msg = "add_node" ->
             LET known == Answered(s, request.token)
             IN  IF known = {} THEN s ELSE FailPendingNode(s, CHOOSE k \in known : TRUE)
      [] request.msg = "add_connection" -> DropConnection(s, request.con, TRUE)
      [] OTHER -> s

\* The subscriptions of App.vue. An own echo is ignored, but for the id of an
\* added node, a corrected value, and the removal of a connection.
Apply(s, m) ==
    LET own == m.origin = s.info
    IN  CASE m.msg = "socket_info" ->
                 Send(Send([s EXCEPT !.info = m.id], [msg |-> "subscribe"]), [msg |-> "config"])
          [] m.msg = "config" -> Configure(s, m.graph)
          [] m.msg = "error"  -> Refused(s, m.request)
          [] m.msg = "add_node" ->
                 ServerAddNode(s, m.id, m.value, IF own THEN m.token ELSE None)
          [] m.msg = "remove_node" ->
                 IF own \/ m.id \notin DOMAIN s.nodes THEN s ELSE DropNode(s, m.id, TRUE, FALSE)
          [] m.msg = "update_node" ->
                 IF own /\ ~m.corrected THEN s ELSE UpdateNode(s, m.id, m.value)
          [] m.msg = "add_connection" -> IF own THEN s ELSE AddLink(s, m.con, TRUE)
          [] m.msg = "remove_connection" -> ServerRemovesConnection(s, m)

-----------------------------------------------------------------------------
(* The server, on its one thread. *)

Broadcasts(ms) ==
    [i \in Connections |->
        IF conns[i].there /\ conns[i].here /\ conns[i].subscribed
        THEN [conns[i] EXCEPT !.down = @ \o ms] ELSE conns[i]]

Reply(cs, i, m) ==
    IF cs[i].here THEN [cs EXCEPT ![i].down = Append(@, m)] ELSE cs

\* remove_connection_locked and its broadcast.
RemovalMsg(i, c) == [msg |-> "remove_connection", origin |-> i, con |-> c]

RECURSIVE Reaches(_, _, _)
Reaches(cons, from, to) ==
    from = to \/ \E c \in cons : c[1] = from /\ Reaches(cons \ {c}, c[2], to)

\* What a command makes of the graph, what is broadcast, and whether it is refused.
Accepted(g, ms) == [graph |-> g, msgs |-> ms, ok |-> TRUE]
Refusal == [graph |-> graph, msgs |-> <<>>, ok |-> FALSE]

AddConnection(i, c) ==
    IF \/ c \in graph.cons \/ ~({c[1], c[2]} \subseteq DOMAIN graph.nodes)
       \/ Reaches(graph.cons, c[2], c[1])
    THEN Refusal
    ELSE LET gone == {d \in graph.cons : d[2] = c[2]}
         IN  Accepted([graph EXCEPT !.cons = (@ \ gone) \cup {c}],
                      Append(SetToSeq({RemovalMsg(i, d) : d \in gone}),
                             [msg |-> "add_connection", origin |-> i, con |-> c]))

RemoveNode(i, id) ==
    IF id \notin DOMAIN graph.nodes THEN Refusal
    ELSE LET gone == {d \in graph.cons : id \in {d[1], d[2]}}
         IN  Accepted([nodes |-> Without(graph.nodes, {id}), cons |-> graph.cons \ gone],
                      Append(SetToSeq({RemovalMsg(i, d) : d \in gone}),
                             [msg |-> "remove_node", origin |-> i, id |-> id]))

RemoveConnection(i, c) ==
    IF c \notin graph.cons THEN Refusal
    ELSE Accepted([graph EXCEPT !.cons = @ \ {c}], <<RemovalMsg(i, c)>>)

UpdateOptions(i, id, v) ==
    IF id \notin DOMAIN graph.nodes THEN Refusal
    ELSE Accepted([graph EXCEPT !.nodes[id] = Corrected[v]],
                  <<[msg |-> "update_node", origin |-> i, id |-> id, value |-> Corrected[v],
                     corrected |-> Corrected[v] # v]>>)

\* A node can also fail to be created.
AddNode(i, m) ==
    {Refusal} \cup
    {Accepted([graph EXCEPT !.nodes = SetNode(@, id, Default)],
              <<[msg |-> "add_node", origin |-> i, id |-> id, value |-> Default,
                 token |-> m.token]>>) : id \in Ids \ used}

Outcomes(i, m) ==
    CASE m.msg = "add_node"          -> AddNode(i, m)
      [] m.msg = "remove_node"       -> {RemoveNode(i, m.id)}
      [] m.msg = "update_node"       -> {UpdateOptions(i, m.id, m.value)}
      [] m.msg = "add_connection"    -> {AddConnection(i, m.con)}
      [] m.msg = "remove_connection" -> {RemoveConnection(i, m.con)}

(* on_message of a command: the broadcasts come before the answer. *)
HandleCommand(i) ==
    /\ conns[i].there /\ conns[i].up # <<>>
    /\ Head(conns[i].up).msg \notin {"subscribe", "config"}
    /\ LET m == Head(conns[i].up)
       IN  \E o \in Outcomes(i, m) :
              LET told == Broadcasts(o.msgs)
                  rest == [told EXCEPT ![i].up = Tail(@)]
              IN  /\ graph' = o.graph
                  /\ used' = used \cup DOMAIN o.graph.nodes
                  /\ conns' = IF o.ok THEN rest
                              ELSE Reply(rest, i, [msg |-> "error", origin |-> 0, request |-> m])
    /\ UNCHANGED <<opened, clients, edits>>

HandleSubscribe(i) ==
    /\ conns[i].there /\ conns[i].up # <<>> /\ Head(conns[i].up).msg = "subscribe"
    /\ conns' = [conns EXCEPT ![i].up = Tail(@), ![i].subscribed = TRUE]
    /\ UNCHANGED <<graph, used, opened, clients, edits>>

(* handle_config *)
HandleConfig(i) ==
    /\ conns[i].there /\ conns[i].up # <<>> /\ Head(conns[i].up).msg = "config"
    /\ conns' = Reply([conns EXCEPT ![i].up = Tail(@)], i,
                      [msg |-> "config", origin |-> 0, graph |-> graph])
    /\ UNCHANGED <<graph, used, opened, clients, edits>>

(* on_open *)
Open(c) ==
    /\ clients[c].socket = 0 /\ opened < MaxConns
    /\ opened' = opened + 1
    /\ conns' = [conns EXCEPT ![opened'] =
                    [NewConn EXCEPT !.here = TRUE, !.there = TRUE,
                        !.down = <<[msg |-> "socket_info", origin |-> 0, id |-> opened']>>]]
    /\ clients' = [clients EXCEPT ![c].socket = opened']
    /\ UNCHANGED <<graph, used, edits>>

(* on_close *)
ServerCloses(i) ==
    /\ conns[i].there /\ (~conns[i].here => conns[i].up = <<>>)
    /\ conns' = [conns EXCEPT ![i].there = FALSE, ![i].up = <<>>, ![i].subscribed = FALSE]
    /\ UNCHANGED <<graph, used, opened, clients, edits>>

-----------------------------------------------------------------------------
(* The editors. *)

\* The messages of a step go up, if the server still listens.
Becomes(c, s) ==
    /\ clients' = [clients EXCEPT ![c] = [s EXCEPT !.out = <<>>]]
    /\ LET i == clients[c].socket
       IN  conns' = [j \in Connections |->
                        IF j = i /\ conns[i].there
                        THEN [conns[i] EXCEPT !.up = @ \o s.out] ELSE conns[j]]

(* handle_message *)
Receive(c) ==
    LET i == clients[c].socket
    IN  /\ i # 0 /\ conns[i].down # <<>>
        /\ LET s == Apply(clients[c], Head(conns[i].down))
           IN  /\ clients' = [clients EXCEPT ![c] = [s EXCEPT !.out = <<>>]]
               /\ conns' = [conns EXCEPT ![i].down = Tail(@),
                               ![i].up = IF conns[i].there THEN @ \o s.out ELSE @]
        /\ UNCHANGED <<graph, used, opened, edits>>

(* handle_close and on_disconnected: what was sent may still arrive. *)
Lose(c) ==
    LET i == clients[c].socket
    IN  /\ i # 0
        /\ \/ conns[i].there /\ opened < MaxConns
           \/ ~conns[i].there /\ conns[i].down = <<>>
        /\ LET s == [clients[c] EXCEPT !.info = 0]
           IN  clients' = [clients EXCEPT ![c] =
                   [DropNodes(s, DOMAIN s.nodes) EXCEPT !.socket = 0, !.configured = FALSE,
                       !.out = <<>>]]
        /\ conns' = [conns EXCEPT ![i].here = FALSE, ![i].down = <<>>]
        /\ UNCHANGED <<graph, used, opened, edits>>

Edit(c, s) ==
    /\ edits < MaxEdits /\ edits' = edits + 1
    /\ Becomes(c, s)
    /\ UNCHANGED <<graph, used, opened>>

(* A new node; its command is sent from a timer. *)
UserAddsNode(c) ==
    \E k \in Locals \ (DOMAIN clients[c].nodes \cup DOMAIN clients[c].pending) :
        Edit(c, [clients[c] EXCEPT !.nodes = SetNode(@, k, Default),
                    !.pending = SetNode(@, k, [token |-> None, cancelled |-> FALSE])])

(* sendAddNode *)
TimerFires(c) ==
    \E k \in DOMAIN clients[c].pending :
        LET s     == clients[c]
            token == s.next_token + 1
            sent  == Send([s EXCEPT !.next_token = token, !.pending[k].token = token],
                          [msg |-> "add_node", token |-> token])
        IN  /\ s.pending[k].token = None
            /\ Becomes(c, IF s.info = 0 THEN FailPendingNode(s, k) ELSE sent)
            /\ UNCHANGED <<graph, used, opened, edits>>

UserRemovesNode(c) ==
    \E k \in DOMAIN clients[c].nodes :
        LET s == clients[c]
        IN  Edit(c, [DropNode(s, k, FALSE, FALSE) EXCEPT
                        !.early = @ \/ (k \in Ids /\ ~s.configured)])

UserConnects(c) ==
    \E l \in Links :
        /\ l \notin clients[c].cons /\ {l[1], l[2]} \subseteq DOMAIN clients[c].nodes
        /\ Edit(c, AddLink(clients[c], l, FALSE))

UserDisconnects(c) ==
    \E l \in clients[c].cons : Edit(c, DropConnection(clients[c], l, FALSE))

(* The setValue event. *)
UserSetsValue(c) ==
    \E k \in DOMAIN clients[c].nodes \cap Ids, v \in Values :
        /\ v # clients[c].nodes[k]
        /\ Edit(c, Send([clients[c] EXCEPT !.nodes[k] = v],
                        [msg |-> "update_node", id |-> k, value |-> v]))

User(c) == \/ UserAddsNode(c) \/ UserRemovesNode(c) \/ UserConnects(c)
           \/ UserDisconnects(c) \/ UserSetsValue(c)

-----------------------------------------------------------------------------
CONSTANT InitialNodes   \* bound: ids of the nodes the server starts with

InitialGraph == [nodes |-> [id \in InitialNodes |-> Default], cons |-> {}]

\* One client has its configuration, the others are not connected.
Init ==
    /\ graph = InitialGraph /\ used = InitialNodes /\ opened = 1 /\ edits = 0
    /\ conns = [i \in Connections |->
                   IF i = 1 THEN [NewConn EXCEPT !.here = TRUE, !.there = TRUE,
                                                 !.subscribed = TRUE] ELSE NewConn]
    /\ \E first \in Clients :
          clients = [c \in Clients |->
              IF c = first THEN [NewClient EXCEPT !.socket = 1, !.info = 1, !.configured = TRUE,
                                                  !.nodes = InitialGraph.nodes]
              ELSE NewClient]

Server(i) == HandleCommand(i) \/ HandleSubscribe(i) \/ HandleConfig(i) \/ ServerCloses(i)

Next ==
    \/ \E i \in Connections : Server(i)
    \/ \E c \in Clients : Open(c) \/ Receive(c) \/ Lose(c) \/ TimerFires(c) \/ User(c)

Spec == Init /\ [][Next]_vars

-----------------------------------------------------------------------------
\* Nothing is under way between the server and a client, or on its way to it.
Settled(c) ==
    LET i == clients[c].socket
    IN  /\ i # 0 /\ conns[i].there /\ conns[i].up = <<>> /\ conns[i].down = <<>>
        /\ clients[c].configured
        /\ \A k \in DOMAIN clients[c].pending : clients[c].pending[k].token # None

(* Types; and an editor's connections join nodes it shows, one to an input. *)
TypeOK ==
    /\ DOMAIN graph.nodes \subseteq used /\ used \subseteq Ids
    /\ opened \in 0..MaxConns /\ edits \in 0..MaxEdits
    /\ \A c \in Clients :
          LET s == clients[c]
          IN  /\ s.socket \in 0..opened /\ s.info \in {0, s.socket}
              /\ DOMAIN s.nodes \subseteq Keys /\ DOMAIN s.pending \subseteq Locals
              /\ s.cons \subseteq Links /\ s.out = <<>>
              /\ \A l \in s.cons : {l[1], l[2]} \subseteq DOMAIN s.nodes
              /\ \A l, m \in s.cons : l[2] = m[2] => l = m
              /\ DOMAIN s.nodes \cap Locals \subseteq DOMAIN s.pending

(* Once everything sent has arrived, an editor shows the nodes of the server   *)
(* and none that waits for an answer: across nodes removed before they were   *)
(* acknowledged or before the server had heard of them, refusals, commands of  *)
(* other editors and lost connections. (A node that is removed between its     *)
(* first broadcast and the configuration stays: own removals are not applied.) *)
SettledEditorsShowTheNodes ==
    \A c \in Clients :
        Settled(c) /\ ~clients[c].early => DOMAIN clients[c].nodes = DOMAIN graph.nodes

(* Nor does it show a connection the server does not have: one that was        *)
(* refused, displaced, or lost with its node.                                  *)
SettledEditorsShowNoOtherConnections ==
    \A c \in Clients :
        Settled(c) => clients[c].cons \subseteq graph.cons

(* Both of these, and the types. *)
SettledEditorsAgree ==
    TypeOK /\ SettledEditorsShowTheNodes /\ SettledEditorsShowNoOtherConnections

(* "Echoes of our own explicit removals are also safe" (App.vue): an editor    *)
(* that nobody else disturbs ends up with the connections of the server.       *)
SettledEditorsShowTheConnections ==
    \A c \in Clients :
        Settled(c) /\ opened = 1 => clients[c].cons = graph.cons
=============================================================================
