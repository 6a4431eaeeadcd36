----------------------------- MODULE NodeManager -----------------------------
(***************************************************************************)
(* The authoritative node graph and the render thread's snapshot of it:    *)
(* src/src/core/node_manager.cpp.                                          *)
(*                                                                         *)
(* Two threads act.  The configuration thread runs one handle_* command at *)
(* a time under nodes_mutex_, so a command is one step.  The render thread *)
(* runs tick_one_frame: it takes the mutex only to bring nodes_copy_ up to *)
(* date (Sync) and then renders from the copy while commands go on.  While *)
(* settings are loaded the same handlers are called by the main thread     *)
(* with no adapter attached and no frame running.                          *)
(*                                                                         *)
(* A connection list is modelled as a set.  Every interface of the program *)
(* holds one connection or an unlimited number of them, so the list order  *)
(* never decides which connection a full interface gives up.               *)
(***************************************************************************)
EXTENDS Sequences, FiniteSets, Naturals

CONSTANTS
    Ids,            \* node identifiers
    SettingsId,     \* the reserved id of the application settings node
    Types,          \* node types with a registered constructor
    SettingsType,   \* the type of the application settings node
    UnknownType,    \* a type no constructor is registered for
    Ifaces,         \* interface names
    Inputs,         \* those whose direction is input; the others are outputs
    Single,         \* those whose max_connection_count_ is 1
    NodeIfaces,     \* type -> the interfaces a node of that type registers
    Accepts,        \* pairs <<output, input>> whose value types fit
    Options,        \* canonical option values
    TypeOptions,    \* type -> those a node of that type takes
    DefaultOptions,
    BadOptions,     \* an option value no node takes
    Requests,       \* the connections commands name, as the requester wrote them
    NoNode          \* stands for "no record under this id"

ASSUME GraphConstants ==
    /\ SettingsId \in Ids
    /\ SettingsType \in Types
    /\ UnknownType \notin Types
    /\ Inputs \subseteq Ifaces
    /\ Single \subseteq Ifaces
    /\ NodeIfaces \in [Types -> SUBSET Ifaces]
    /\ Accepts \subseteq (Ifaces \ Inputs) \X Inputs
    /\ TypeOptions \in [Types -> SUBSET Options]
    /\ DefaultOptions \in TypeOptions[SettingsType]
    /\ BadOptions \notin Options

Connection == [from_node : Ids, from_interface : Ifaces,
               to_node : Ids, to_interface : Ifaces]

ConMap == [Ifaces -> SUBSET Connection]

\* node_record_s: the shared node object, its options and connections.  At
\* most two objects of one id are alive, one per map, so a bit tells them apart.
NodeRecord == [type : Types, object : {0, 1}, options : Options, con_map : ConMap]

ASSUME NoNodeIsNoRecord == NoNode \notin NodeRecord

ASSUME RequestsAreConnections == Requests \subseteq Connection

VARIABLES
    nodes,          \* nodes_: id -> record or NoNode
    connections,    \* connections_
    dirty,          \* dirty_nodes_
    removed,        \* removed_nodes_
    nodes_copy,     \* nodes_copy_: the render thread's snapshot
    prepared,       \* node objects prepare() has been called on and still alive
    render,         \* where the main thread is
    attached,       \* adapters_ holds the WebSocket adapter
    sent            \* what the last command broadcast, in order

vars == <<nodes, connections, dirty, removed, nodes_copy, prepared, render,
          attached, sent>>

graph == <<nodes, connections, dirty, removed>>

Present(ns) == {id \in Ids : ns[id] # NoNode}

ObjectsIn(ns) == {<<id, ns[id].object>> : id \in Present(ns)}

\* A node object lives while either map holds a shared_ptr to it.
Alive == ObjectsIn(nodes) \cup ObjectsIn(nodes_copy)

-----------------------------------------------------------------------------
(* Connections *)

\* The connection is listed by interface i of node id.
Touches(c, id, i) ==
    \/ c.from_node = id /\ c.from_interface = i
    \/ c.to_node = id /\ c.to_interface = i

Ends(c) == {c.from_node, c.to_node}

Reversed(c) == [from_node |-> c.to_node, from_interface |-> c.to_interface,
                to_node |-> c.from_node, to_interface |-> c.from_interface]

\* The nodes that node id reads from, through the lists of its inputs.
Upstream(ns, id) ==
    IF ns[id] = NoNode THEN {}
    ELSE {c.from_node : c \in UNION {ns[id].con_map[i] : i \in NodeIfaces[ns[id].type] \cap Inputs}}

ClosedUpstream(ns, S) == \A id \in S : Upstream(ns, id) \subseteq S

\* Fault: only a direct loop is refused.
LoopsOnly(ns, target, con) == con.from_node = target

\* The depth-first search reaches the target: no upstream-closed set holds
\* the node the search starts from and leaves the target out.
IsConnectionCircular(ns, target, con) ==
    ~ \E S \in SUBSET (Ids \ {target}) : con.from_node \in S /\ ClosedUpstream(ns, S)

\* interface_i::add_connection: the connections a full interface gives up.
Displaced(ns, id, i) == IF i \in Single THEN ns[id].con_map[i] ELSE {}

\* Fault: only the source forgets a removed connection.
DetachAtSource(ns, cons) ==
    [id \in Ids |->
        IF ns[id] = NoNode THEN NoNode
        ELSE [ns[id] EXCEPT !.con_map =
                [i \in Ifaces |-> @[i] \ {c \in cons : c.from_node = id}]]]

\* remove_connection_locked for each of cons: both ends drop it.
Detach(ns, cons) ==
    [id \in Ids |->
        IF ns[id] = NoNode THEN NoNode
        ELSE [ns[id] EXCEPT !.con_map =
                [i \in Ifaces |-> @[i] \ {c \in cons : Touches(c, id, i)}]]]

Attach(ns, con) ==
    [id \in Ids |->
        IF ns[id] = NoNode THEN NoNode
        ELSE [ns[id] EXCEPT !.con_map =
                [i \in Ifaces |-> @[i] \cup {c \in {con} : Touches(c, id, i)}]]]

EndsOf(cons) == UNION {Ends(c) : c \in cons}

\* The connections the lists of a map hold.
Listed(ns) == UNION {ns[id].con_map[i] : id \in Present(ns), i \in Ifaces}

-----------------------------------------------------------------------------
(* What a command broadcasts through the adapter *)

AddNodeMsg(id, type, o)  == [msg |-> "add_node", id |-> id, type |-> type, options |-> o]
RemoveNodeMsg(id)        == [msg |-> "remove_node", id |-> id]
UpdateNodeMsg(id, o)     == [msg |-> "update_node", id |-> id, options |-> o]
AddConnectionMsg(c)      == [msg |-> "add_connection", con |-> c]
RemoveConnectionMsg(c)   == [msg |-> "remove_connection", con |-> c]

\* Fault: displaced connections go without a word.
SilentRemovals(cons) == {<<>>}

\* The removal broadcasts of a set of connections, in any list order.
Removals(cons) ==
    {[k \in 1..Cardinality(cons) |-> RemoveConnectionMsg(order[k])] :
        order \in {f \in [1..Cardinality(cons) -> cons] :
                      \A j, k \in 1..Cardinality(cons) : f[j] = f[k] => j = k}}

\* No adapter is attached while settings are loaded: nothing is broadcast.
Emit(messages) == sent' = IF attached THEN messages ELSE <<>>

\* A refused command changes nothing; a refused entry of the settings file
\* ends the program.
Fail(error) ==
    /\ error # "no_error"
    /\ sent' = <<>>
    /\ render' = IF render = "loading" THEN "failed" ELSE render
    /\ UNCHANGED <<nodes, connections, dirty, removed, prepared>>

\* Who may run a command: the loader, or the web server once the adapter's
\* handlers are subscribed and until it is stopped.
Commanded == render \in {"loading", "subscribed", "idle", "synced", "frame"}

UnchangedByCommands == UNCHANGED <<nodes_copy, attached>>

-----------------------------------------------------------------------------
(* Commands *)

AddNodeError(type, id, o) ==
    IF (id = SettingsId) # (type = SettingsType) THEN "invalid_type"
    ELSE IF nodes[id] # NoNode THEN "duplicate_id"
    ELSE IF type \notin Types THEN "invalid_type"
    ELSE IF o \notin TypeOptions[type] THEN "invalid_options"
    ELSE "no_error"

NewObject(id) == IF <<id, 0>> \in Alive THEN 1 ELSE 0

\* The loader names the id; the web server draws one that nodes_ does not hold.
HandleAddNode(type, id, o) ==
    /\ Commanded
    /\ render = "loading" \/ nodes[id] = NoNode
    /\ UnchangedByCommands
    /\ LET error == AddNodeError(type, id, o)
       IN IF error # "no_error" THEN Fail(error)
          ELSE /\ nodes' = [nodes EXCEPT ![id] =
                     [type |-> type, object |-> NewObject(id), options |-> o,
                      con_map |-> [i \in Ifaces |-> {}]]]
               /\ dirty' = dirty \cup {id}
               /\ Emit(<<AddNodeMsg(id, type, o)>>)
               /\ UNCHANGED <<connections, removed, prepared, render>>

ConnectionsOf(id) == UNION {nodes[id].con_map[i] : i \in NodeIfaces[nodes[id].type]}

\* Fault: the settings node may be removed.
RemoveAny(id) ==
    /\ Commanded
    /\ UnchangedByCommands
    /\ nodes[id] # NoNode
    /\ LET cons == ConnectionsOf(id) \cap connections
       IN /\ nodes' = [Detach(nodes, cons) EXCEPT ![id] = NoNode]
          /\ connections' = connections \ cons
          /\ dirty' = dirty \cup EndsOf(cons)
          /\ removed' = removed \cup {id}
          /\ prepared' = prepared \cap Alive'
          /\ sent' = <<>>
          /\ UNCHANGED render

\* Fault: the command drops the render thread's reference as well.
RemoveFromSnapshot(id) ==
    /\ Commanded
    /\ id # SettingsId /\ nodes[id] # NoNode
    /\ LET cons == ConnectionsOf(id) \cap connections
       IN /\ nodes' = [Detach(nodes, cons) EXCEPT ![id] = NoNode]
          /\ connections' = connections \ cons
          /\ dirty' = dirty \cup EndsOf(cons)
          /\ nodes_copy' = [nodes_copy EXCEPT ![id] = NoNode]
          /\ prepared' = prepared \cap Alive'
          /\ sent' = <<>>
          /\ UNCHANGED <<removed, render, attached>>

\* Fault: the node is announced gone before its connections are.
RemoveNodeFirst(id) ==
    /\ Commanded
    /\ UnchangedByCommands
    /\ id # SettingsId /\ nodes[id] # NoNode
    /\ LET cons == ConnectionsOf(id) \cap connections
       IN /\ nodes' = [Detach(nodes, cons) EXCEPT ![id] = NoNode]
          /\ connections' = connections \ cons
          /\ dirty' = dirty \cup EndsOf(cons)
          /\ removed' = removed \cup {id}
          /\ prepared' = prepared \cap Alive'
          /\ \E order \in Removals(cons) : Emit(<<RemoveNodeMsg(id)>> \o order)
          /\ UNCHANGED render

HandleRemoveNode(id) ==
    /\ Commanded
    /\ UnchangedByCommands
    /\ IF id = SettingsId THEN Fail("invalid_type")
       ELSE IF nodes[id] = NoNode THEN Fail("not_found")
       ELSE LET cons == ConnectionsOf(id) \cap connections
            IN /\ nodes' = [Detach(nodes, cons) EXCEPT ![id] = NoNode]
               /\ connections' = connections \ cons
               /\ dirty' = dirty \cup EndsOf(cons)
               /\ removed' = removed \cup {id}
               /\ prepared' = prepared \cap Alive'
               /\ \E order \in Removals(cons) : Emit(order \o <<RemoveNodeMsg(id)>>)
               /\ UNCHANGED render

\* Fault: the options are stored without normalisation.
UpdateUnchecked(id, o) ==
    /\ Commanded
    /\ UnchangedByCommands
    /\ nodes[id] # NoNode
    /\ nodes' = [nodes EXCEPT ![id].options = o]
    /\ dirty' = dirty \cup {id}
    /\ Emit(<<UpdateNodeMsg(id, o)>>)
    /\ UNCHANGED <<connections, removed, prepared, render>>

HandleUpdateNode(id, o) ==
    /\ Commanded
    /\ UnchangedByCommands
    /\ IF nodes[id] = NoNode THEN Fail("not_found")
       ELSE IF o \notin TypeOptions[nodes[id].type] THEN Fail("invalid_options")
       ELSE /\ nodes' = [nodes EXCEPT ![id].options = o]
            /\ dirty' = dirty \cup {id}
            /\ Emit(<<UpdateNodeMsg(id, o)>>)
            /\ UNCHANGED <<connections, removed, prepared, render>>

\* A connection declared input-to-output is turned round.
Oriented(c) ==
    IF c.from_interface \in Inputs /\ c.to_interface \notin Inputs THEN Reversed(c) ELSE c

HasInterface(id, i) == i \in NodeIfaces[nodes[id].type]

AddConnectionError(c) ==
    LET con == Oriented(c)
    IN IF c \in connections THEN "duplicate_id"
       ELSE IF NoNode \in {nodes[c.from_node], nodes[c.to_node]} THEN "not_found"
       ELSE IF ~(HasInterface(c.from_node, c.from_interface)
                   /\ HasInterface(c.to_node, c.to_interface)) THEN "not_found"
       ELSE IF con \in connections THEN "duplicate_id"
       ELSE IF con.from_interface \in Inputs \/ con.to_interface \notin Inputs
            THEN "invalid_type"
       ELSE IF <<con.from_interface, con.to_interface>> \notin Accepts THEN "invalid_type"
       ELSE IF IsConnectionCircular(nodes, con.to_node, con) THEN "circular_connection"
       ELSE "no_error"

\* Fault: only the new connection's input end makes room.
RemovedAtInput(con) == Displaced(nodes, con.to_node, con.to_interface)

\* The connections that make room for con at its two ends.
RemovedFor(con) ==
    Displaced(nodes, con.from_node, con.from_interface)
        \cup Displaced(nodes, con.to_node, con.to_interface)

HandleAddConnection(c) ==
    /\ Commanded
    /\ UnchangedByCommands
    /\ LET error == AddConnectionError(c)
           con   == Oriented(c)
           cons  == RemovedFor(con) \cap connections
       IN IF error # "no_error" THEN Fail(error)
          ELSE /\ nodes' = Detach(Attach(nodes, con), cons)
               /\ connections' = (connections \cup {con}) \ cons
               /\ dirty' = dirty \cup EndsOf(cons) \cup Ends(con)
               /\ \E order \in Removals(cons) : Emit(order \o <<AddConnectionMsg(con)>>)
               /\ UNCHANGED <<removed, prepared, render>>

\* Fault: only the source node is marked dirty.
RemoveMarksSource(c) ==
    /\ Commanded
    /\ UnchangedByCommands
    /\ c \in connections
    /\ nodes' = Detach(nodes, {c})
    /\ connections' = connections \ {c}
    /\ dirty' = dirty \cup {c.from_node}
    /\ Emit(<<RemoveConnectionMsg(c)>>)
    /\ UNCHANGED <<removed, prepared, render>>

HandleRemoveConnection(c) ==
    /\ Commanded
    /\ UnchangedByCommands
    /\ IF c \notin connections THEN Fail("not_found")
       ELSE /\ nodes' = Detach(nodes, {c})
            /\ connections' = connections \ {c}
            /\ dirty' = dirty \cup Ends(c)
            /\ Emit(<<RemoveConnectionMsg(c)>>)
            /\ UNCHANGED <<removed, prepared, render>>

Command ==
    \/ \E type \in Types \cup {UnknownType}, id \in Ids, o \in Options \cup {BadOptions} :
            HandleAddNode(type, id, o)
    \/ \E id \in Ids : HandleRemoveNode(id)
    \/ \E id \in Ids, o \in Options \cup {BadOptions} : HandleUpdateNode(id, o)
    \/ \E c \in Requests : HandleAddConnection(c) \/ HandleRemoveConnection(c)

-----------------------------------------------------------------------------
(* The main thread *)

\* Settings are loaded; the adapter's constructor has the web server call its
\* handlers although add_adapter has yet to attach it.
SubscribeHandlers ==
    /\ render = "loading"
    /\ render' = "subscribed"
    /\ sent' = <<>>
    /\ UNCHANGED <<graph, nodes_copy, prepared, attached>>

\* The adapter is attached and frames start.
AddAdapter ==
    /\ render = "subscribed"
    /\ render' = "idle"
    /\ attached' = TRUE
    /\ sent' = <<>>
    /\ UNCHANGED <<graph, nodes_copy, prepared>>

\* Fault: removals are applied after the copies, so a re-added node is lost.
SyncRemovesLast ==
    /\ render = "idle"
    /\ render' = "synced"
    /\ nodes_copy' = [id \in Ids |->
            IF id \in removed THEN NoNode
            ELSE IF id \in dirty /\ nodes[id] # NoNode THEN nodes[id]
            ELSE nodes_copy[id]]
    /\ dirty' = {}
    /\ removed' = {}
    /\ sent' = <<>>
    /\ UNCHANGED <<nodes, connections, attached>>
    /\ prepared' = prepared \cap Alive'

\* The locked block of tick_one_frame.
Sync ==
    /\ render = "idle"
    /\ render' = "synced"
    /\ nodes_copy' = [id \in Ids |->
            IF id \in dirty /\ nodes[id] # NoNode THEN nodes[id]
            ELSE IF id \in removed THEN NoNode
            ELSE nodes_copy[id]]
    /\ dirty' = {}
    /\ removed' = {}
    /\ sent' = <<>>
    /\ UNCHANGED <<nodes, connections, attached>>
    /\ prepared' = prepared \cap Alive'

\* prepare_all_nodes over the snapshot; without the settings node the frame
\* throws and the program ends.
PrepareAll ==
    /\ render = "synced"
    /\ IF nodes_copy[SettingsId] = NoNode
       THEN render' = "failed" /\ UNCHANGED prepared
       ELSE render' = "frame" /\ prepared' = prepared \cup ObjectsIn(nodes_copy)
    /\ sent' = <<>>
    /\ UNCHANGED <<graph, nodes_copy, attached>>

\* The rest of the frame: submit, execute, complete, flush.
FinishFrame ==
    /\ render = "frame"
    /\ render' = "idle"
    /\ sent' = <<>>
    /\ UNCHANGED <<graph, nodes_copy, prepared, attached>>

\* web_server->stop() and clear_adapters(): no command comes any more.
Stop ==
    /\ render = "idle"
    /\ render' = "stopping"
    /\ attached' = FALSE
    /\ sent' = <<>>
    /\ UNCHANGED <<graph, nodes_copy, prepared>>

\* clear_nodes(), on the main thread and without the mutex.
ClearNodes ==
    /\ render = "stopping"
    /\ render' = "stopped"
    /\ nodes' = [id \in Ids |-> NoNode]
    /\ nodes_copy' = [id \in Ids |-> NoNode]
    /\ connections' = {}
    /\ dirty' = {}
    /\ removed' = {}
    /\ prepared' = {}
    /\ sent' = <<>>
    /\ UNCHANGED attached

Ended == render \in {"stopped", "failed"} /\ UNCHANGED vars

-----------------------------------------------------------------------------

\* The constructor adds the settings node.
Init ==
    /\ nodes = [id \in Ids |->
            IF id # SettingsId THEN NoNode
            ELSE [type |-> SettingsType, object |-> 0, options |-> DefaultOptions,
                  con_map |-> [i \in Ifaces |-> {}]]]
    /\ connections = {}
    /\ dirty = {SettingsId}
    /\ removed = {}
    /\ nodes_copy = [id \in Ids |-> NoNode]
    /\ prepared = {}
    /\ render = "loading"
    /\ attached = FALSE
    /\ sent = <<>>

Render == Sync \/ PrepareAll \/ FinishFrame

Next == Command \/ SubscribeHandlers \/ AddAdapter \/ Render \/ Stop \/ ClearNodes \/ Ended

\* Safety only: a frame may wait for ever, as the commands may.
Spec == Init /\ [][Next]_vars

-----------------------------------------------------------------------------
(* Properties *)

TypeOK ==
    /\ nodes \in [Ids -> NodeRecord \cup {NoNode}]
    /\ connections \in SUBSET Connection
    /\ dirty \in SUBSET Ids
    /\ removed \in SUBSET Ids
    /\ nodes_copy \in [Ids -> NodeRecord \cup {NoNode}]
    /\ prepared \in SUBSET (Ids \X {0, 1})
    /\ render \in {"loading", "subscribed", "idle", "synced", "frame", "stopping", "stopped", "failed"}
    /\ attached \in BOOLEAN

\* An interface lists exactly the connections that name it, so a connection
\* can be found from connections_ and from both of its ends, and every
\* connection runs from an output to an input of nodes that exist.
ListsAgree(ns, cons) ==
    /\ \A id \in Present(ns), i \in Ifaces : ns[id].con_map[i] = {c \in cons : Touches(c, id, i)}
    /\ \A c \in cons :
          /\ Ends(c) \subseteq Present(ns)
          /\ c.from_interface \in NodeIfaces[ns[c.from_node].type] \ Inputs
          /\ c.to_interface \in NodeIfaces[ns[c.to_node].type] \cap Inputs
          /\ <<c.from_interface, c.to_interface>> \in Accepts

\* No list is longer than its interface allows: resolve_value may assert it.
WithinCapacity(ns) ==
    \A id \in Present(ns), i \in Single :
        \A c, d \in ns[id].con_map[i] : c = d

\* Every set of nodes has one that reads from none of the set: the execution
\* of a node's dependencies comes to an end.
Acyclic(ns) ==
    \A S \in SUBSET Ids : S # {} => \E id \in S : Upstream(ns, id) \cap S = {}

\* The configuration thread's graph is well formed after every command:
\* connections_ and the nodes' own lists never get out of sync, and what a new
\* connection displaces is given up at both of its ends.
GraphConsistent == ListsAgree(nodes, connections) /\ WithinCapacity(nodes)

\* However connections come, go and displace each other, no cycle closes.
GraphAcyclic == Acyclic(nodes)

\* A rendered snapshot holds the settings node: tick_one_frame's logic_error
\* is never thrown.
SettingsInSnapshot == render \in {"synced", "frame"} => nodes_copy[SettingsId] # NoNode

\* What a frame renders is one such graph too, whatever commands ran since: a
\* connection of the snapshot is known at both of its ends and leads into no
\* cycle.
SnapshotIsAGraph ==
    /\ ListsAgree(nodes_copy, Listed(nodes_copy))
    /\ WithinCapacity(nodes_copy)
    /\ Acyclic(nodes_copy)

\* Both of these, of what a frame sees.
FramesSeeAGraph == SnapshotIsAGraph /\ SettingsInSnapshot

\* dirty_nodes_ and removed_nodes_ name every difference between the graph and
\* the snapshot, so one Sync brings the snapshot up to date.
DifferencesAreMarked ==
    \A id \in Ids : id \notin dirty \cup removed => nodes_copy[id] = nodes[id]

\* "Any node that has been prepared at least once is guaranteed to be
\* destroyed in this thread" (tick_one_frame): a step that is not the main
\* thread's own frees no prepared node object.
PreparedDiesOnRenderThread ==
    [][render' = render => prepared \subseteq Alive']_vars

\* The one locked block of a frame brings the snapshot up to date with every
\* command since the last frame, a node removed and added again included.
SnapshotCatchesUp ==
    [][render = "idle" /\ render' = "synced" => nodes_copy' = nodes]_vars

=============================================================================
