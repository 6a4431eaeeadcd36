--------------------------- MODULE GraphBroadcast ----------------------------
(***************************************************************************)
(* What the broadcasts of a command tell a subscribed client.  A client    *)
(* applies the emit_* messages one at a time, in the order they were sent  *)
(* (handle_server_* of src/web/src/server_sync.ts), so every prefix of a   *)
(* command's messages must leave it with a graph.                          *)
(***************************************************************************)
EXTENDS NodeManager, SequencesExt

\* The part of the graph a client holds.
ClientView(ns, cons) ==
    [nodes |-> [id \in Present(ns) |-> [type |-> ns[id].type, options |-> ns[id].options]],
     cons  |-> cons]

Without(f, id) == [x \in DOMAIN f \ {id} |-> f[x]]

ApplyMsg(view, m) ==
    CASE m.msg = "add_node" ->
            [view EXCEPT !.nodes = (m.id :> [type |-> m.type, options |-> m.options]) @@ @]
      [] m.msg = "remove_node" ->
            [view EXCEPT !.nodes = Without(@, m.id)]
      [] m.msg = "update_node" ->
            IF m.id \in DOMAIN view.nodes
            THEN [view EXCEPT !.nodes[m.id].options = m.options] ELSE view
      [] m.msg = "add_connection" ->
            [view EXCEPT !.cons = @ \cup {m.con}]
      [] m.msg = "remove_connection" ->
            [view EXCEPT !.cons = @ \ {m.con}]

AfterMsgs(view, messages) == FoldLeft(ApplyMsg, view, messages)

\* Connections join nodes the client has, and a single interface has one.
IsClientGraph(view) ==
    /\ \A c \in view.cons : Ends(c) \subseteq DOMAIN view.nodes
    /\ \A c, d \in view.cons, id \in Ids, i \in Single :
          Touches(c, id, i) /\ Touches(d, id, i) => c = d

\* A client that had the graph before a command has the graph after it: the
\* emit_* calls of the command leave nothing out and invent nothing. Nor is it ever
\* left half-way without a graph: a node goes after its connections, a connection
\* comes after those it displaces.
BroadcastsTellTheCommand ==
    [][attached /\ attached' =>
        LET before == ClientView(nodes, connections)
        IN  /\ AfterMsgs(before, sent') = ClientView(nodes', connections')
            /\ \A k \in 1..(Len(sent') - 1) : IsClientGraph(AfterMsgs(before, SubSeq(sent', 1, k)))]_vars

=============================================================================
