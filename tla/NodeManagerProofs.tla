-------------------------- MODULE NodeManagerProofs --------------------------
(***************************************************************************)
(* Machine-checked proofs about the node graph, for every set of node ids, *)
(* types and interfaces.                                                   *)
(*                                                                         *)
(* The inductive invariant adds to the checked ones two facts they rest    *)
(* on: an id without a record that no removal is pending for is not in the *)
(* snapshot either, and the settings node stays until the shutdown.        *)
(***************************************************************************)
EXTENDS NodeManager, TLAPS

NodeMap == [Ids -> NodeRecord \cup {NoNode}]

\* Facts about one node map, kept apart from the variables so that they can
\* be used for the graph and for the snapshot.
LEMMA RecordFacts ==
    ASSUME NEW ns \in NodeMap, NEW id \in Present(ns)
    PROVE  /\ id \in Ids
           /\ ns[id] \in NodeRecord
           /\ ns[id].con_map \in [Ifaces -> SUBSET Connection]
           /\ NodeIfaces[ns[id].type] \subseteq Ifaces
BY GraphConstants DEF NodeMap, Present, NodeRecord, ConMap

LEMMA RecordsAreTheirFields ==
    ASSUME NEW r \in NodeRecord, NEW s \in NodeRecord,
           r.type = s.type, r.object = s.object, r.options = s.options, r.con_map = s.con_map
    PROVE  r = s
BY DEF NodeRecord

\* Detach keeps the map's type, the ids in it and everything but the lists.
LEMMA DetachFacts ==
    ASSUME NEW ns \in NodeMap, NEW gone \in SUBSET Connection
    PROVE  /\ Detach(ns, gone) \in NodeMap
           /\ Present(Detach(ns, gone)) = Present(ns)
           /\ \A id \in Present(ns) :
                 /\ Detach(ns, gone)[id].type = ns[id].type
                 /\ Detach(ns, gone)[id].object = ns[id].object
                 /\ \A i \in Ifaces : Detach(ns, gone)[id].con_map[i]
                        = ns[id].con_map[i] \ {c \in gone : Touches(c, id, i)}
           /\ \A id \in Ids : id \notin EndsOf(gone) => Detach(ns, gone)[id] = ns[id]
<1> DEFINE d == Detach(ns, gone)
<1>1. ASSUME NEW id \in Ids, ns[id] = NoNode
      PROVE  d[id] = NoNode
  BY <1>1 DEF Detach
<1>2. ASSUME NEW id \in Ids, ns[id] # NoNode
      PROVE  /\ d[id] \in NodeRecord
             /\ d[id].type = ns[id].type
             /\ d[id].object = ns[id].object
             /\ d[id].options = ns[id].options
             /\ d[id].con_map = [i \in Ifaces |->
                    ns[id].con_map[i] \ {c \in gone : Touches(c, id, i)}]
  <2>1. ns[id] \in NodeRecord
    BY <1>2 DEF NodeMap
  <2>2. d[id] = [ns[id] EXCEPT !.con_map =
                    [i \in Ifaces |-> ns[id].con_map[i] \ {c \in gone : Touches(c, id, i)}]]
    BY <1>2 DEF Detach
  <2> QED
    BY <2>1, <2>2 DEF NodeRecord, ConMap
<1>3. d \in NodeMap
  <2>1. \A id \in Ids : d[id] \in NodeRecord \cup {NoNode}
    BY <1>1, <1>2
  <2> QED
    BY <2>1 DEF Detach, NodeMap
<1>4. Present(d) = Present(ns)
  BY <1>1, <1>2, NoNodeIsNoRecord DEF Present
<1>5. ASSUME NEW id \in Ids, id \notin EndsOf(gone)
      PROVE  d[id] = ns[id]
  <2>1. CASE ns[id] = NoNode
    BY <1>1, <2>1
  <2>2. CASE ns[id] # NoNode
    <3>1. \A i \in Ifaces : {c \in gone : Touches(c, id, i)} = {}
      BY <1>5 DEF EndsOf, Ends, Touches
    <3>2. ns[id] \in NodeRecord /\ ns[id].con_map \in [Ifaces -> SUBSET Connection]
      BY <2>2 DEF NodeMap, NodeRecord, ConMap
    <3>3. d[id].con_map = ns[id].con_map
      BY <1>2, <2>2, <3>1, <3>2
    <3> QED
      BY <1>2, <2>2, <3>2, <3>3, RecordsAreTheirFields
  <2> QED
    BY <2>1, <2>2
<1> QED
  BY <1>2, <1>3, <1>4, <1>5 DEF Present

\* Attach likewise, with con added at its two ends.
LEMMA AttachFacts ==
    ASSUME NEW ns \in NodeMap, NEW con \in Connection
    PROVE  /\ Attach(ns, con) \in NodeMap
           /\ Present(Attach(ns, con)) = Present(ns)
           /\ \A id \in Present(ns) :
                 /\ Attach(ns, con)[id].type = ns[id].type
                 /\ Attach(ns, con)[id].object = ns[id].object
                 /\ \A i \in Ifaces : Attach(ns, con)[id].con_map[i]
                        = ns[id].con_map[i] \cup {c \in {con} : Touches(c, id, i)}
           /\ \A id \in Ids : id \notin Ends(con) => Attach(ns, con)[id] = ns[id]
<1> DEFINE d == Attach(ns, con)
<1>1. ASSUME NEW id \in Ids, ns[id] = NoNode
      PROVE  d[id] = NoNode
  BY <1>1 DEF Attach
<1>2. ASSUME NEW id \in Ids, ns[id] # NoNode
      PROVE  /\ d[id] \in NodeRecord
             /\ d[id].type = ns[id].type
             /\ d[id].object = ns[id].object
             /\ d[id].options = ns[id].options
             /\ d[id].con_map = [i \in Ifaces |->
                    ns[id].con_map[i] \cup {c \in {con} : Touches(c, id, i)}]
  <2>1. ns[id] \in NodeRecord
    BY <1>2 DEF NodeMap
  <2>2. d[id] = [ns[id] EXCEPT !.con_map =
                    [i \in Ifaces |-> ns[id].con_map[i] \cup {c \in {con} : Touches(c, id, i)}]]
    BY <1>2 DEF Attach
  <2> QED
    BY <2>1, <2>2 DEF NodeRecord, ConMap
<1>3. d \in NodeMap
  <2>1. \A id \in Ids : d[id] \in NodeRecord \cup {NoNode}
    BY <1>1, <1>2
  <2> QED
    BY <2>1 DEF Attach, NodeMap
<1>4. Present(d) = Present(ns)
  BY <1>1, <1>2, NoNodeIsNoRecord DEF Present
<1>5. ASSUME NEW id \in Ids, id \notin Ends(con)
      PROVE  d[id] = ns[id]
  <2>1. CASE ns[id] = NoNode
    BY <1>1, <2>1
  <2>2. CASE ns[id] # NoNode
    <3>1. \A i \in Ifaces : {c \in {con} : Touches(c, id, i)} = {}
      BY <1>5 DEF Ends, Touches
    <3>2. ns[id] \in NodeRecord /\ ns[id].con_map \in [Ifaces -> SUBSET Connection]
      BY <2>2 DEF NodeMap, NodeRecord, ConMap
    <3>3. d[id].con_map = ns[id].con_map
      BY <1>2, <2>2, <3>1, <3>2
    <3> QED
      BY <1>2, <2>2, <3>2, <3>3, RecordsAreTheirFields
  <2> QED
    BY <2>1, <2>2
<1> QED
  BY <1>2, <1>3, <1>4, <1>5 DEF Present

-----------------------------------------------------------------------------
(* connections_ and the per-interface lists *)

LEMMA DetachKeepsAgreement ==
    ASSUME NEW ns \in NodeMap, NEW cons \in SUBSET Connection, NEW gone \in SUBSET Connection,
           ListsAgree(ns, cons)
    PROVE  ListsAgree(Detach(ns, gone), cons \ gone)
<1> DEFINE d == Detach(ns, gone)
<1>1. /\ Present(d) = Present(ns)
      /\ \A id \in Present(ns) :
            /\ d[id].type = ns[id].type
            /\ \A i \in Ifaces :
                  d[id].con_map[i] = ns[id].con_map[i] \ {c \in gone : Touches(c, id, i)}
  BY DetachFacts
<1>2. ASSUME NEW id \in Present(d), NEW i \in Ifaces
      PROVE  d[id].con_map[i] = {c \in cons \ gone : Touches(c, id, i)}
  <2>1. ns[id].con_map[i] = {c \in cons : Touches(c, id, i)}
    BY <1>1 DEF ListsAgree
  <2> QED
    BY <1>1, <2>1
<1>3. ASSUME NEW c \in cons \ gone
      PROVE  /\ Ends(c) \subseteq Present(d)
             /\ c.from_interface \in NodeIfaces[d[c.from_node].type] \ Inputs
             /\ c.to_interface \in NodeIfaces[d[c.to_node].type] \cap Inputs
             /\ <<c.from_interface, c.to_interface>> \in Accepts
  BY <1>1 DEF ListsAgree, Ends
<1> HIDE DEF d
<1> QED
  BY <1>2, <1>3 DEF ListsAgree, d

LEMMA AttachKeepsAgreement ==
    ASSUME NEW ns \in NodeMap, NEW cons \in SUBSET Connection, NEW con \in Connection,
           ListsAgree(ns, cons),
           Ends(con) \subseteq Present(ns),
           con.from_interface \in NodeIfaces[ns[con.from_node].type] \ Inputs,
           con.to_interface \in NodeIfaces[ns[con.to_node].type] \cap Inputs,
           <<con.from_interface, con.to_interface>> \in Accepts
    PROVE  ListsAgree(Attach(ns, con), cons \cup {con})
<1> DEFINE d == Attach(ns, con)
<1>1. /\ Present(d) = Present(ns)
      /\ \A id \in Present(ns) :
            /\ d[id].type = ns[id].type
            /\ \A i \in Ifaces :
                  d[id].con_map[i] = ns[id].con_map[i] \cup {c \in {con} : Touches(c, id, i)}
  BY AttachFacts
<1>2. ASSUME NEW id \in Present(d), NEW i \in Ifaces
      PROVE  d[id].con_map[i] = {c \in cons \cup {con} : Touches(c, id, i)}
  <2>1. ns[id].con_map[i] = {c \in cons : Touches(c, id, i)}
    BY <1>1 DEF ListsAgree
  <2> QED
    BY <1>1, <2>1
<1>3. ASSUME NEW c \in cons \cup {con}
      PROVE  /\ Ends(c) \subseteq Present(d)
             /\ c.from_interface \in NodeIfaces[d[c.from_node].type] \ Inputs
             /\ c.to_interface \in NodeIfaces[d[c.to_node].type] \cap Inputs
             /\ <<c.from_interface, c.to_interface>> \in Accepts
  BY <1>1 DEF ListsAgree, Ends
<1> HIDE DEF d
<1> QED
  BY <1>2, <1>3 DEF ListsAgree, d

\* A node no connection names may go.
LEMMA DropKeepsAgreement ==
    ASSUME NEW ns \in NodeMap, NEW cons \in SUBSET Connection, NEW id \in Ids,
           ListsAgree(ns, cons), id \notin EndsOf(cons)
    PROVE  ListsAgree([ns EXCEPT ![id] = NoNode], cons)
<1> DEFINE d == [ns EXCEPT ![id] = NoNode]
<1>1. /\ Present(d) = Present(ns) \ {id}
      /\ \A x \in Present(ns) \ {id} : d[x] = ns[x]
  BY DEF Present, NodeMap
<1>2. \A c \in cons : Ends(c) \subseteq Present(d)
  BY <1>1, ZenonT(60) DEF ListsAgree, EndsOf
<1> HIDE DEF d
<1>3. ASSUME NEW c \in cons
      PROVE  /\ c.from_interface \in NodeIfaces[d[c.from_node].type] \ Inputs
             /\ c.to_interface \in NodeIfaces[d[c.to_node].type] \cap Inputs
             /\ <<c.from_interface, c.to_interface>> \in Accepts
  <2>1. d[c.from_node] = ns[c.from_node] /\ d[c.to_node] = ns[c.to_node]
    BY <1>1, <1>2 DEF Ends
  <2> QED
    BY <2>1 DEF ListsAgree
<1>4. ASSUME NEW x \in Present(d), NEW i \in Ifaces
      PROVE  d[x].con_map[i] = {c \in cons : Touches(c, x, i)}
  BY <1>1 DEF ListsAgree
<1> QED
  BY <1>2, <1>3, <1>4 DEF ListsAgree, d

\* A record that changes neither type nor lists changes no agreement.
LEMMA SameListsKeepAgreement ==
    ASSUME NEW ns \in NodeMap, NEW ms \in NodeMap, NEW cons \in SUBSET Connection,
           ListsAgree(ns, cons), Present(ms) = Present(ns),
           \A id \in Present(ns) : ms[id].type = ns[id].type /\ ms[id].con_map = ns[id].con_map
    PROVE  ListsAgree(ms, cons)
<1>1. ASSUME NEW c \in cons
      PROVE  /\ Ends(c) \subseteq Present(ms)
             /\ c.from_interface \in NodeIfaces[ms[c.from_node].type] \ Inputs
             /\ c.to_interface \in NodeIfaces[ms[c.to_node].type] \cap Inputs
             /\ <<c.from_interface, c.to_interface>> \in Accepts
  <2>1. ms[c.from_node].type = ns[c.from_node].type /\ ms[c.to_node].type = ns[c.to_node].type
    BY DEF ListsAgree, Ends
  <2> QED
    BY <2>1 DEF ListsAgree
<1>2. ASSUME NEW id \in Present(ms), NEW i \in Ifaces
      PROVE  ms[id].con_map[i] = {c \in cons : Touches(c, id, i)}
  BY DEF ListsAgree
<1> QED
  BY <1>1, <1>2 DEF ListsAgree

\* A new node, with empty lists, has no connection yet.
LEMMA NewNodeKeepsAgreement ==
    ASSUME NEW ns \in NodeMap, NEW cons \in SUBSET Connection, ListsAgree(ns, cons),
           NEW id \in Ids, ns[id] = NoNode,
           NEW r \in NodeRecord, r.con_map = [i \in Ifaces |-> {}]
    PROVE  ListsAgree([ns EXCEPT ![id] = r], cons)
<1> DEFINE d == [ns EXCEPT ![id] = r]
<1>1. /\ Present(d) = Present(ns) \cup {id}
      /\ \A x \in Present(ns) : d[x] = ns[x]
      /\ d[id] = r
      /\ id \notin Present(ns)
  BY NoNodeIsNoRecord DEF Present, NodeMap
<1> HIDE DEF d
<1>2. ASSUME NEW c \in cons
      PROVE  /\ Ends(c) \subseteq Present(d)
             /\ c.from_interface \in NodeIfaces[d[c.from_node].type] \ Inputs
             /\ c.to_interface \in NodeIfaces[d[c.to_node].type] \cap Inputs
             /\ <<c.from_interface, c.to_interface>> \in Accepts
  <2>1. d[c.from_node] = ns[c.from_node] /\ d[c.to_node] = ns[c.to_node]
    BY <1>1 DEF ListsAgree, Ends
  <2> QED
    BY <1>1, <2>1 DEF ListsAgree
<1>3. ASSUME NEW x \in Present(d), NEW i \in Ifaces
      PROVE  d[x].con_map[i] = {c \in cons : Touches(c, x, i)}
  <2>1. CASE x = id
    <3>1. \A c \in cons : id \notin Ends(c)
      BY <1>1 DEF ListsAgree
    <3>2. {c \in cons : Touches(c, id, i)} = {}
      BY <3>1 DEF Touches, Ends
    <3> QED
      BY <1>1, <2>1, <3>2
  <2>2. CASE x # id
    BY <1>1, <2>2 DEF ListsAgree
  <2> QED
    BY <2>1, <2>2
<1> QED
  BY <1>2, <1>3 DEF ListsAgree, d

\* The lists of a map that agrees with cons hold cons and nothing else.
LEMMA ListedIsConnections ==
    ASSUME NEW ns \in NodeMap, NEW cons \in SUBSET Connection, ListsAgree(ns, cons)
    PROVE  Listed(ns) = cons
<1>1. ASSUME NEW c \in cons
      PROVE  c \in Listed(ns)
  <2>1. c.from_node \in Present(ns) /\ c.from_interface \in Ifaces
    BY DEF ListsAgree, Ends, Connection
  <2>2. c \in ns[c.from_node].con_map[c.from_interface]
    BY <2>1 DEF ListsAgree, Touches
  <2> QED
    BY <2>1, <2>2 DEF Listed
<1>2. ASSUME NEW c \in Listed(ns)
      PROVE  c \in cons
  <2>1. PICK id \in Present(ns), i \in Ifaces : c \in ns[id].con_map[i]
    BY DEF Listed
  <2> QED
    BY <2>1 DEF ListsAgree
<1> QED
  BY <1>1, <1>2

-----------------------------------------------------------------------------
(* Cycles *)

\* Where an upstream node comes from.
LEMMA UpstreamIsListed ==
    ASSUME NEW ns, NEW id, NEW up
    PROVE  up \in Upstream(ns, id) <=>
              /\ ns[id] # NoNode
              /\ \E i \in NodeIfaces[ns[id].type] \cap Inputs :
                    \E c \in ns[id].con_map[i] : up = c.from_node
BY DEF Upstream

\* A graph with fewer dependencies is acyclic too.
LEMMA FewerEdgesStayAcyclic ==
    ASSUME NEW ns, NEW ms, Acyclic(ns),
           \A id \in Ids : Upstream(ms, id) \subseteq Upstream(ns, id)
    PROVE  Acyclic(ms)
BY DEF Acyclic

\* One edge that the search did not find circular closes no cycle.  Take a
\* set S and the search's closed set R, which leaves the target out: if S
\* meets R, a minimal node of the meeting reads nothing in S; otherwise the
\* new edge starts outside S.
LEMMA NonCircularEdgeStaysAcyclic ==
    ASSUME NEW ns, NEW ms, NEW con \in Connection, Acyclic(ns),
           ~IsConnectionCircular(ns, con.to_node, con),
           \A id \in Ids : Upstream(ms, id) \subseteq
                Upstream(ns, id) \cup (IF id = con.to_node THEN {con.from_node} ELSE {})
    PROVE  Acyclic(ms)
<1>1. PICK R \in SUBSET (Ids \ {con.to_node}) : con.from_node \in R /\ ClosedUpstream(ns, R)
  BY DEF IsConnectionCircular
<1>2. SUFFICES ASSUME NEW S \in SUBSET Ids, S # {}
               PROVE  \E id \in S : Upstream(ms, id) \cap S = {}
  BY DEF Acyclic
<1>3. CASE S \cap R # {}
  <2>1. PICK id \in S \cap R : Upstream(ns, id) \cap (S \cap R) = {}
    BY <1>3 DEF Acyclic
  <2>2. Upstream(ns, id) \subseteq R
    BY <1>1, <2>1 DEF ClosedUpstream
  <2>3. Upstream(ms, id) \subseteq Upstream(ns, id)
    BY <1>1, <2>1
  <2> QED
    BY <2>1, <2>2, <2>3
<1>4. CASE S \cap R = {}
  <2>1. PICK id \in S : Upstream(ns, id) \cap S = {}
    BY <1>2 DEF Acyclic
  <2>2. con.from_node \notin S
    BY <1>1, <1>4
  <2> QED
    BY <2>1, <2>2
<1> QED
  BY <1>3, <1>4

-----------------------------------------------------------------------------
(* The inductive invariant *)

\* An id that has no record, and whose removal is not pending, is not in the
\* snapshot; an id that was removed and is back has a record to copy.
MarksAreComplete ==
    /\ \A id \in Ids : nodes[id] = NoNode /\ id \notin removed => nodes_copy[id] = NoNode
    /\ \A id \in removed : nodes[id] # NoNode => id \in dirty

\* The settings node can be neither removed nor added twice.
SettingsKept == render # "stopped" => nodes[SettingsId] # NoNode

\* Only nodes of the snapshot have been prepared.
PreparedIsCopied == prepared \subseteq ObjectsIn(nodes_copy)

GraphInv == GraphConsistent /\ GraphAcyclic

IInv ==
    /\ TypeOK
    /\ GraphInv
    /\ DifferencesAreMarked
    /\ MarksAreComplete
    /\ SettingsKept
    /\ SnapshotIsAGraph
    /\ SettingsInSnapshot
    /\ PreparedIsCopied

\* A map without connections is a graph.
LEMMA NoListsIsGraph ==
    ASSUME NEW ns \in NodeMap,
           \A id \in Present(ns) : ns[id].con_map = [i \in Ifaces |-> {}]
    PROVE  ListsAgree(ns, {}) /\ Listed(ns) = {} /\ WithinCapacity(ns) /\ Acyclic(ns)
<1>1. ListsAgree(ns, {})
  BY DEF ListsAgree
<1>2. WithinCapacity(ns)
  BY GraphConstants DEF WithinCapacity
<1>3. \A id \in Ids : Upstream(ns, id) = {}
  BY RecordFacts DEF Upstream, Present
<1>4. Acyclic(ns)
  BY <1>3 DEF Acyclic
<1>5. Listed(ns) = {}
  BY <1>1, ListedIsConnections
<1> QED
  BY <1>1, <1>2, <1>4, <1>5

LEMMA InitIInv == Init => IInv
<1> SUFFICES ASSUME Init PROVE IInv
  OBVIOUS
<1> USE DEF Init
<1>1. nodes \in NodeMap /\ nodes_copy \in NodeMap
  <2>1. [type |-> SettingsType, object |-> 0, options |-> DefaultOptions,
         con_map |-> [i \in Ifaces |-> {}]] \in NodeRecord
    BY GraphConstants DEF NodeRecord, ConMap
  <2> QED
    BY <2>1 DEF NodeMap
<1>2. TypeOK
  BY <1>1, GraphConstants DEF TypeOK, NodeMap
<1>3. GraphInv
  BY <1>1, NoListsIsGraph
     DEF GraphInv, GraphConsistent, GraphAcyclic, Present
<1>4. SnapshotIsAGraph
  <2>1. Present(nodes_copy) = {}
    BY DEF Present
  <2>2. /\ ListsAgree(nodes_copy, {}) /\ Listed(nodes_copy) = {}
        /\ WithinCapacity(nodes_copy) /\ Acyclic(nodes_copy)
    BY <1>1, <2>1, NoListsIsGraph
  <2> QED
    BY <2>2 DEF SnapshotIsAGraph
<1>5. DifferencesAreMarked /\ MarksAreComplete /\ SettingsInSnapshot /\ PreparedIsCopied
  BY DEF DifferencesAreMarked, MarksAreComplete, SettingsInSnapshot, PreparedIsCopied
<1>6. SettingsKept
  <2>1. [type |-> SettingsType, object |-> 0, options |-> DefaultOptions,
         con_map |-> [i \in Ifaces |-> {}]] \in NodeRecord
    BY GraphConstants DEF NodeRecord, ConMap
  <2> QED
    BY <2>1, NoNodeIsNoRecord, GraphConstants DEF SettingsKept
<1> QED
  BY <1>2, <1>3, <1>4, <1>5, <1>6 DEF IInv

-----------------------------------------------------------------------------
(* Commands keep the invariant *)

\* What a command must show: the snapshot's half of the invariant follows.
LEMMA CommandKeepsSnapshot ==
    ASSUME IInv, UnchangedByCommands, render' = render,
           prepared' \subseteq prepared,
           nodes' \in NodeMap, connections' \in SUBSET Connection,
           dirty' \in SUBSET Ids, removed' \in SUBSET Ids,
           GraphInv', DifferencesAreMarked', MarksAreComplete',
           SettingsKept'
    PROVE  IInv'
<1>1. TypeOK'
  BY DEF IInv, TypeOK, UnchangedByCommands, NodeMap
<1>2. SnapshotIsAGraph'
  BY DEF IInv, UnchangedByCommands, SnapshotIsAGraph
<1>3. SettingsInSnapshot' /\ PreparedIsCopied'
  BY DEF IInv, UnchangedByCommands, SettingsInSnapshot, PreparedIsCopied
<1> QED
  BY <1>1, <1>2, <1>3 DEF IInv

LEMMA FailKeepsIInv ==
    ASSUME IInv, NEW error, Fail(error), UnchangedByCommands
    PROVE  IInv'
<1> USE DEF Fail, UnchangedByCommands
<1>1. render' = render \/ (render = "loading" /\ render' = "failed")
  OBVIOUS
<1>2. TypeOK'
  BY <1>1 DEF IInv, TypeOK
<1>3. GraphInv' /\ SnapshotIsAGraph'
  BY DEF IInv, GraphInv, GraphConsistent, GraphAcyclic,
         SnapshotIsAGraph
<1>4. DifferencesAreMarked' /\ MarksAreComplete' /\ PreparedIsCopied'
  BY DEF IInv, DifferencesAreMarked, MarksAreComplete, PreparedIsCopied
<1>5. SettingsKept' /\ SettingsInSnapshot'
  BY <1>1 DEF IInv, SettingsKept, SettingsInSnapshot
<1> QED
  BY <1>2, <1>3, <1>4, <1>5 DEF IInv

\* The lists of a detached map are no longer, and its inputs read from no more.
LEMMA DetachShrinks ==
    ASSUME NEW ns \in NodeMap, NEW gone \in SUBSET Connection
    PROVE  /\ WithinCapacity(ns) => WithinCapacity(Detach(ns, gone))
           /\ \A id \in Ids : Upstream(Detach(ns, gone), id) \subseteq Upstream(ns, id)
<1> DEFINE d == Detach(ns, gone)
<1>1. /\ Present(d) = Present(ns)
      /\ \A id \in Present(ns) :
            /\ d[id].type = ns[id].type
            /\ \A i \in Ifaces :
                  d[id].con_map[i] = ns[id].con_map[i] \ {c \in gone : Touches(c, id, i)}
  BY DetachFacts
<1> HIDE DEF d
<1>2. WithinCapacity(ns) => WithinCapacity(d)
  BY <1>1, GraphConstants DEF WithinCapacity
<1>3. ASSUME NEW id \in Ids, NEW up \in Upstream(d, id)
      PROVE  up \in Upstream(ns, id)
  <2>1. id \in Present(d)
    BY <1>3, UpstreamIsListed DEF Present
  <2>2. PICK i \in NodeIfaces[d[id].type] \cap Inputs : \E c \in d[id].con_map[i] : up = c.from_node
    BY <1>3, UpstreamIsListed
  <2>3. i \in NodeIfaces[ns[id].type] \cap Inputs /\ i \in Ifaces
    BY <1>1, <2>1, <2>2, GraphConstants
  <2>4. \E c \in ns[id].con_map[i] : up = c.from_node
    BY <1>1, <2>1, <2>2, <2>3
  <2> QED
    BY <1>1, <2>1, <2>3, <2>4, UpstreamIsListed DEF Present
<1> QED
  BY <1>2, <1>3 DEF d

LEMMA DetachKeepsGraph ==
    ASSUME NEW ns \in NodeMap, NEW cons \in SUBSET Connection, NEW gone \in SUBSET Connection,
           ListsAgree(ns, cons), WithinCapacity(ns), Acyclic(ns)
    PROVE  /\ ListsAgree(Detach(ns, gone), cons \ gone)
           /\ WithinCapacity(Detach(ns, gone))
           /\ Acyclic(Detach(ns, gone))
BY DetachKeepsAgreement, DetachShrinks, FewerEdgesStayAcyclic

\* Endpoints are nodes, so removing connections marks ids only.
LEMMA EndsAreIds ==
    ASSUME NEW cons \in SUBSET Connection
    PROVE  EndsOf(cons) \subseteq Ids
BY DEF EndsOf, Ends, Connection

LEMMA AddNodeKeepsIInv ==
    ASSUME IInv, NEW type, NEW id \in Ids, NEW o \in Options \cup {BadOptions},
           HandleAddNode(type, id, o)
    PROVE  IInv'
<1>1. CASE AddNodeError(type, id, o) # "no_error"
  BY <1>1, FailKeepsIInv DEF HandleAddNode
<1>2. CASE AddNodeError(type, id, o) = "no_error"
  <2> DEFINE r == [type |-> type, object |-> NewObject(id), options |-> o,
                   con_map |-> [i \in Ifaces |-> {}]]
  <2>1. /\ nodes' = [nodes EXCEPT ![id] = r]
        /\ dirty' = dirty \cup {id}
        /\ UNCHANGED <<connections, removed, prepared, render>>
        /\ UnchangedByCommands
    BY <1>2 DEF HandleAddNode
  <2>2. nodes[id] = NoNode /\ type \in Types /\ o \in Options
    <3>1. nodes[id] = NoNode /\ type \in Types /\ o \in TypeOptions[type]
      BY <1>2 DEF AddNodeError
    <3> QED
      BY <3>1, GraphConstants
  <2>3. r \in NodeRecord
    BY <2>2 DEF NodeRecord, ConMap, NewObject
  <2>4. nodes \in NodeMap /\ connections \in SUBSET Connection
    BY DEF IInv, TypeOK, NodeMap
  <2> HIDE DEF r
  <2>5. nodes' \in NodeMap
    BY <2>1, <2>3, <2>4 DEF NodeMap
  <2>6. r.con_map = [i \in Ifaces |-> {}]
    BY DEF r
  <2>7. ListsAgree(nodes', connections)
    BY <2>1, <2>2, <2>3, <2>4, <2>6, NewNodeKeepsAgreement DEF IInv, GraphInv, GraphConsistent
  <2>8. Present(nodes') = Present(nodes) \cup {id} /\ \A x \in Ids : x # id => nodes'[x] = nodes[x]
    BY <2>1, <2>3, <2>4, NoNodeIsNoRecord DEF Present, NodeMap
  <2>9. nodes'[id] = r
    BY <2>1, <2>4 DEF NodeMap
  <2>10. WithinCapacity(nodes')
    BY <2>6, <2>8, <2>9, GraphConstants DEF IInv, GraphInv, GraphConsistent, WithinCapacity, Present
  <2>11. \A x \in Ids : Upstream(nodes', x) \subseteq Upstream(nodes, x)
    <3>1. Upstream(nodes', id) = {}
      BY <2>3, <2>6, <2>9, GraphConstants, NoNodeIsNoRecord DEF Upstream, NodeRecord
    <3>2. ASSUME NEW x \in Ids, x # id
          PROVE  Upstream(nodes', x) = Upstream(nodes, x)
      BY <2>8, <3>2 DEF Upstream
    <3> QED
      BY <3>1, <3>2
  <2>12. Acyclic(nodes')
    BY <2>11, FewerEdgesStayAcyclic DEF IInv, GraphInv, GraphAcyclic
  <2>13. GraphInv'
    BY <2>1, <2>7, <2>10, <2>12 DEF GraphInv, GraphConsistent, GraphAcyclic
  <2>14. DifferencesAreMarked' /\ MarksAreComplete'
    BY <2>1, <2>3, <2>8, <2>9, NoNodeIsNoRecord
       DEF IInv, TypeOK, DifferencesAreMarked, MarksAreComplete, UnchangedByCommands
  <2>15. SettingsKept'
    BY <2>1, <2>3, <2>8, <2>9, NoNodeIsNoRecord, GraphConstants DEF IInv, SettingsKept
  <2>16. dirty' \in SUBSET Ids /\ removed' \in SUBSET Ids /\ connections' \in SUBSET Connection
    BY <2>1 DEF IInv, TypeOK
  <2> QED
    BY <2>1, <2>5, <2>13, <2>14, <2>15, <2>16, CommandKeepsSnapshot
<1> QED
  BY <1>1, <1>2

LEMMA UpdateNodeKeepsIInv ==
    ASSUME IInv, NEW id \in Ids, NEW o \in Options \cup {BadOptions}, HandleUpdateNode(id, o)
    PROVE  IInv'
<1>1. CASE nodes[id] = NoNode \/ o \notin TypeOptions[nodes[id].type]
  BY <1>1, FailKeepsIInv DEF HandleUpdateNode
<1>2. CASE ~(nodes[id] = NoNode \/ o \notin TypeOptions[nodes[id].type])
  <2>1. /\ nodes' = [nodes EXCEPT ![id].options = o]
        /\ dirty' = dirty \cup {id}
        /\ UNCHANGED <<connections, removed, prepared, render>>
        /\ UnchangedByCommands
    BY <1>2 DEF HandleUpdateNode
  <2>2. nodes \in NodeMap /\ connections \in SUBSET Connection
    BY DEF IInv, TypeOK, NodeMap
  <2>3. nodes[id] \in NodeRecord
    BY <1>2, <2>2 DEF NodeMap
  <2>4. /\ nodes'[id] \in NodeRecord
        /\ nodes'[id].type = nodes[id].type
        /\ nodes'[id].con_map = nodes[id].con_map
        /\ \A x \in Ids : x # id => nodes'[x] = nodes[x]
    <3>1. nodes[id].type \in Types
      BY <2>3 DEF NodeRecord
    <3>2. o \in Options
      BY <1>2, <3>1, GraphConstants
    <3> QED
      BY <1>2, <2>1, <2>2, <2>3, <3>2 DEF NodeMap, NodeRecord
  <2>5. nodes' \in NodeMap
    BY <2>1, <2>2, <2>4 DEF NodeMap
  <2>6. Present(nodes') = Present(nodes)
    BY <1>2, <2>4, NoNodeIsNoRecord DEF Present
  <2>7. ListsAgree(nodes', connections)
    BY <2>2, <2>4, <2>5, <2>6, SameListsKeepAgreement DEF IInv, GraphInv, GraphConsistent, Present
  <2>8. WithinCapacity(nodes')
    BY <2>4, <2>6 DEF IInv, GraphInv, GraphConsistent, WithinCapacity, Present
  <2>9. \A x \in Ids : Upstream(nodes', x) \subseteq Upstream(nodes, x)
    BY <1>2, <2>4 DEF Upstream
  <2>10. Acyclic(nodes')
    BY <2>9, FewerEdgesStayAcyclic DEF IInv, GraphInv, GraphAcyclic
  <2>11. GraphInv'
    BY <2>1, <2>7, <2>8, <2>10 DEF GraphInv, GraphConsistent, GraphAcyclic
  <2>12. DifferencesAreMarked' /\ MarksAreComplete'
    BY <1>2, <2>1, <2>4, NoNodeIsNoRecord
       DEF IInv, TypeOK, DifferencesAreMarked, MarksAreComplete, UnchangedByCommands
  <2>13. SettingsKept'
    BY <1>2, <2>1, <2>4, NoNodeIsNoRecord, GraphConstants DEF IInv, SettingsKept
  <2>14. dirty' \in SUBSET Ids /\ removed' \in SUBSET Ids /\ connections' \in SUBSET Connection
    BY <2>1 DEF IInv, TypeOK
  <2> QED
    BY <2>1, <2>5, <2>11, <2>12, <2>13, <2>14, CommandKeepsSnapshot
<1> QED
  BY <1>1, <1>2

LEMMA RemoveConnectionKeepsIInv ==
    ASSUME IInv, NEW c \in Connection, HandleRemoveConnection(c)
    PROVE  IInv'
<1>1. CASE c \notin connections
  BY <1>1, FailKeepsIInv DEF HandleRemoveConnection
<1>2. CASE c \in connections
  <2>1. /\ nodes' = Detach(nodes, {c})
        /\ connections' = connections \ {c}
        /\ dirty' = dirty \cup Ends(c)
        /\ UNCHANGED <<removed, prepared, render>>
        /\ UnchangedByCommands
    BY <1>2 DEF HandleRemoveConnection
  <2>2. nodes \in NodeMap /\ connections \in SUBSET Connection /\ {c} \in SUBSET Connection
    BY DEF IInv, TypeOK, NodeMap
  <2>3. /\ nodes' \in NodeMap
        /\ Present(nodes') = Present(nodes)
        /\ \A id \in Ids : id \notin EndsOf({c}) => nodes'[id] = nodes[id]
    BY <2>1, <2>2, DetachFacts
  <2>4. EndsOf({c}) = Ends(c) /\ Ends(c) \subseteq Ids
    BY DEF EndsOf, Ends, Connection
  <2>5. GraphInv'
    BY <2>1, <2>2, DetachKeepsGraph
       DEF IInv, GraphInv, GraphConsistent, GraphAcyclic
  <2>6. DifferencesAreMarked' /\ MarksAreComplete' /\ SettingsKept'
    BY <2>1, <2>3, <2>4, GraphConstants
       DEF IInv, TypeOK, DifferencesAreMarked, MarksAreComplete, SettingsKept,
           UnchangedByCommands, Present
  <2>7. dirty' \in SUBSET Ids /\ removed' \in SUBSET Ids /\ connections' \in SUBSET Connection
    BY <2>1, <2>2, <2>4 DEF IInv, TypeOK
  <2> QED
    BY <2>1, <2>3, <2>5, <2>6, <2>7, CommandKeepsSnapshot
<1> QED
  BY <1>1, <1>2

LEMMA RemoveNodeKeepsIInv ==
    ASSUME IInv, NEW id \in Ids, HandleRemoveNode(id)
    PROVE  IInv'
<1>1. CASE id = SettingsId \/ nodes[id] = NoNode
  BY <1>1, FailKeepsIInv DEF HandleRemoveNode
<1>2. CASE ~(id = SettingsId \/ nodes[id] = NoNode)
  <2> DEFINE cons == ConnectionsOf(id) \cap connections
             d    == Detach(nodes, cons)
  <2>1. /\ nodes' = [d EXCEPT ![id] = NoNode]
        /\ connections' = connections \ cons
        /\ dirty' = dirty \cup EndsOf(cons)
        /\ removed' = removed \cup {id}
        /\ prepared' \subseteq prepared
        /\ render' = render
        /\ UnchangedByCommands
    BY <1>2 DEF HandleRemoveNode
  <2>2. nodes \in NodeMap /\ connections \in SUBSET Connection /\ cons \in SUBSET Connection
    BY DEF IInv, TypeOK, NodeMap
  <2>3. /\ d \in NodeMap
        /\ Present(d) = Present(nodes)
        /\ \A x \in Ids : x \notin EndsOf(cons) => d[x] = nodes[x]
    BY <2>2, DetachFacts
  <2>4. /\ ListsAgree(d, connections \ cons)
        /\ WithinCapacity(d)
        /\ Acyclic(d)
    BY <2>2, DetachKeepsGraph DEF IInv, GraphInv, GraphConsistent, GraphAcyclic
  \* The node's lists hold every connection that names it.
  <2>5. id \notin EndsOf(connections \ cons)
    <3>1. ASSUME NEW c \in connections, id \in Ends(c)
          PROVE  c \in ConnectionsOf(id)
      <4>1. PICK i \in NodeIfaces[nodes[id].type] : Touches(c, id, i)
        BY <3>1 DEF IInv, GraphInv, GraphConsistent, ListsAgree, Ends, Touches
      <4>2. id \in Present(nodes) /\ i \in Ifaces
        BY <1>2, <2>2, <4>1, RecordFacts DEF Present
      <4>3. c \in nodes[id].con_map[i]
        BY <4>1, <4>2 DEF IInv, GraphInv, GraphConsistent, ListsAgree
      <4> QED
        BY <4>1, <4>3 DEF ConnectionsOf
    <3> QED
      BY <3>1 DEF EndsOf
  <2> HIDE DEF d, cons
  <2>6. nodes' \in NodeMap
    BY <2>1, <2>3 DEF NodeMap
  <2>7. ListsAgree(nodes', connections')
    BY <2>1, <2>2, <2>3, <2>4, <2>5, DropKeepsAgreement
  <2>8. nodes'[id] = NoNode /\ \A x \in Ids : x # id => nodes'[x] = d[x]
    BY <2>1, <2>3 DEF NodeMap
  <2>9. WithinCapacity(nodes')
    BY <2>4, <2>8 DEF WithinCapacity, Present
  <2>10. \A x \in Ids : Upstream(nodes', x) \subseteq Upstream(d, x)
    BY <2>8 DEF Upstream
  <2>11. Acyclic(nodes')
    BY <2>4, <2>10, FewerEdgesStayAcyclic
  <2>12. GraphInv'
    BY <2>7, <2>9, <2>11 DEF GraphInv, GraphConsistent, GraphAcyclic
  <2>13. DifferencesAreMarked' /\ MarksAreComplete'
    BY <2>1, <2>3, <2>8
       DEF IInv, TypeOK, DifferencesAreMarked, MarksAreComplete, UnchangedByCommands, Present
  <2>14. SettingsKept'
    BY <1>2, <2>1, <2>3, <2>8, GraphConstants DEF IInv, SettingsKept, Present
  <2>15. dirty' \in SUBSET Ids /\ removed' \in SUBSET Ids /\ connections' \in SUBSET Connection
    BY <2>1, <2>2, EndsAreIds DEF IInv, TypeOK
  <2> QED
    BY <2>1, <2>6, <2>12, <2>13, <2>14, <2>15, CommandKeepsSnapshot
<1> QED
  BY <1>1, <1>2

\* What a connection the handler accepts looks like once it is turned round.
LEMMA AcceptedConnection ==
    ASSUME IInv, NEW c \in Connection, AddConnectionError(c) = "no_error"
    PROVE  LET con == Oriented(c) IN
           /\ con \in Connection
           /\ Ends(con) \subseteq Present(nodes)
           /\ con.from_interface \in NodeIfaces[nodes[con.from_node].type] \ Inputs
           /\ con.to_interface \in NodeIfaces[nodes[con.to_node].type] \cap Inputs
           /\ <<con.from_interface, con.to_interface>> \in Accepts
           /\ ~IsConnectionCircular(nodes, con.to_node, con)
<1> DEFINE con == Oriented(c)
<1>1. con = c \/ con = Reversed(c)
  BY DEF Oriented
<1>2. con \in Connection
  BY <1>1 DEF Connection, Reversed
<1>3. nodes[c.from_node] # NoNode /\ nodes[c.to_node] # NoNode
  BY DEF AddConnectionError
<1>4. /\ c.from_interface \in NodeIfaces[nodes[c.from_node].type]
      /\ c.to_interface \in NodeIfaces[nodes[c.to_node].type]
  BY DEF AddConnectionError, HasInterface
<1>5. /\ con.from_interface \notin Inputs /\ con.to_interface \in Inputs
      /\ <<con.from_interface, con.to_interface>> \in Accepts
      /\ ~IsConnectionCircular(nodes, con.to_node, con)
  BY DEF AddConnectionError
<1>6. /\ Ends(con) \subseteq Present(nodes)
      /\ con.from_interface \in NodeIfaces[nodes[con.from_node].type]
      /\ con.to_interface \in NodeIfaces[nodes[con.to_node].type]
  BY <1>1, <1>3, <1>4 DEF Ends, Present, Connection, Reversed
<1> QED
  BY <1>2, <1>5, <1>6

\* A new connection gives an input one more upstream node and an output none.
LEMMA AttachAddsOneEdge ==
    ASSUME NEW ns \in NodeMap, NEW con \in Connection, con.from_interface \notin Inputs
    PROVE  \A id \in Ids : Upstream(Attach(ns, con), id) \subseteq
               Upstream(ns, id) \cup (IF id = con.to_node THEN {con.from_node} ELSE {})
<1> DEFINE d == Attach(ns, con)
<1>1. /\ Present(d) = Present(ns)
      /\ \A id \in Present(ns) :
            /\ d[id].type = ns[id].type
            /\ \A i \in Ifaces :
                  d[id].con_map[i] = ns[id].con_map[i] \cup {c \in {con} : Touches(c, id, i)}
  BY AttachFacts
<1> HIDE DEF d
<1>2. ASSUME NEW id \in Ids, NEW up \in Upstream(d, id), up \notin Upstream(ns, id)
      PROVE  id = con.to_node /\ up = con.from_node
  <2>1. id \in Present(d)
    BY <1>2, UpstreamIsListed DEF Present
  <2>2. PICK i \in NodeIfaces[d[id].type] \cap Inputs : \E c \in d[id].con_map[i] : up = c.from_node
    BY <1>2, UpstreamIsListed
  <2>3. i \in NodeIfaces[ns[id].type] \cap Inputs /\ i \in Ifaces
    BY <1>1, <2>1, <2>2, GraphConstants
  <2>4. PICK c \in d[id].con_map[i] : up = c.from_node
    BY <2>2
  <2>5. c \notin ns[id].con_map[i]
    BY <1>1, <1>2, <2>1, <2>3, <2>4, UpstreamIsListed DEF Present
  <2>6. c = con /\ Touches(con, id, i)
    BY <1>1, <2>1, <2>3, <2>4, <2>5
  <2> QED
    BY <2>3, <2>4, <2>6 DEF Touches
<1> QED
  BY <1>2 DEF d

LEMMA AddConnectionKeepsIInv ==
    ASSUME IInv, NEW c \in Connection, HandleAddConnection(c)
    PROVE  IInv'
<1>1. CASE AddConnectionError(c) # "no_error"
  BY <1>1, FailKeepsIInv DEF HandleAddConnection
<1>2. CASE AddConnectionError(c) = "no_error"
  <2> DEFINE con  == Oriented(c)
             cons == RemovedFor(con) \cap connections
             mid  == Attach(nodes, con)
  <2>1. /\ nodes' = Detach(mid, cons)
        /\ connections' = (connections \cup {con}) \ cons
        /\ dirty' = dirty \cup EndsOf(cons) \cup Ends(con)
        /\ UNCHANGED <<removed, prepared, render>>
        /\ UnchangedByCommands
    BY <1>2 DEF HandleAddConnection
  <2>2. nodes \in NodeMap /\ connections \in SUBSET Connection /\ cons \in SUBSET Connection
    BY DEF IInv, TypeOK, NodeMap
  <2>3. /\ con \in Connection
        /\ Ends(con) \subseteq Present(nodes)
        /\ con.from_interface \in NodeIfaces[nodes[con.from_node].type] \ Inputs
        /\ con.to_interface \in NodeIfaces[nodes[con.to_node].type] \cap Inputs
        /\ <<con.from_interface, con.to_interface>> \in Accepts
        /\ ~IsConnectionCircular(nodes, con.to_node, con)
    BY <1>2, AcceptedConnection
  \* A full interface gives up what it holds.
  <2>4. \A id \in Present(nodes), i \in Single :
            Touches(con, id, i) => nodes[id].con_map[i] \subseteq cons
    BY <2>2, GraphConstants
       DEF IInv, GraphInv, GraphConsistent, ListsAgree, RemovedFor, Displaced, Touches
  <2> HIDE DEF con, cons, mid
  <2>5. /\ mid \in NodeMap
        /\ Present(mid) = Present(nodes)
        /\ \A id \in Present(nodes) : \A i \in Ifaces :
              mid[id].con_map[i] = nodes[id].con_map[i] \cup {k \in {con} : Touches(k, id, i)}
        /\ \A id \in Ids : id \notin Ends(con) => mid[id] = nodes[id]
    BY <2>2, <2>3, AttachFacts DEF mid
  <2>6. ListsAgree(mid, connections \cup {con})
    BY <2>2, <2>3, AttachKeepsAgreement DEF mid, IInv, GraphInv, GraphConsistent
  <2>7. Acyclic(mid)
    BY <2>2, <2>3, AttachAddsOneEdge, NonCircularEdgeStaysAcyclic
       DEF mid, IInv, GraphInv, GraphAcyclic
  <2>8. /\ nodes' \in NodeMap
        /\ Present(nodes') = Present(nodes)
        /\ \A id \in Present(nodes) : \A i \in Ifaces :
              nodes'[id].con_map[i] = mid[id].con_map[i] \ {k \in cons : Touches(k, id, i)}
        /\ \A id \in Ids : id \notin EndsOf(cons) => nodes'[id] = mid[id]
    BY <2>1, <2>2, <2>5, DetachFacts
  <2>9. ListsAgree(nodes', connections')
    BY <2>1, <2>2, <2>3, <2>5, <2>6, DetachKeepsAgreement
  <2>10. Acyclic(nodes')
    BY <2>1, <2>2, <2>5, <2>7, DetachShrinks, FewerEdgesStayAcyclic
  <2>11. WithinCapacity(nodes')
    <3>1. SUFFICES ASSUME NEW id \in Present(nodes), NEW i \in Single,
                          NEW k \in nodes'[id].con_map[i], NEW l \in nodes'[id].con_map[i]
                   PROVE  k = l
      BY <2>8 DEF WithinCapacity
    <3>2. i \in Ifaces
      BY GraphConstants
    <3>3. nodes[id].con_map[i] = {m \in connections : Touches(m, id, i)}
      BY <3>2 DEF IInv, GraphInv, GraphConsistent, ListsAgree
    <3>4. CASE Touches(con, id, i)
      <4>1. nodes[id].con_map[i] \subseteq {m \in cons : Touches(m, id, i)}
        BY <2>4, <3>3, <3>4
      <4> QED
        BY <2>5, <2>8, <3>2, <4>1
    <3>5. CASE ~Touches(con, id, i)
      <4>1. k \in nodes[id].con_map[i] /\ l \in nodes[id].con_map[i]
        BY <2>5, <2>8, <3>2, <3>5
      <4> QED
        BY <4>1 DEF IInv, GraphInv, GraphConsistent, WithinCapacity
    <3> QED
      BY <3>4, <3>5
  <2>12. GraphInv'
    BY <2>9, <2>10, <2>11 DEF GraphInv, GraphConsistent, GraphAcyclic
  <2>13. DifferencesAreMarked' /\ MarksAreComplete' /\ SettingsKept'
    BY <2>1, <2>5, <2>8, GraphConstants
       DEF IInv, TypeOK, DifferencesAreMarked, MarksAreComplete, SettingsKept,
           UnchangedByCommands, Present
  <2>14. dirty' \in SUBSET Ids /\ removed' \in SUBSET Ids /\ connections' \in SUBSET Connection
    BY <2>1, <2>2, <2>3, EndsAreIds DEF IInv, TypeOK, Present
  <2> QED
    BY <2>1, <2>8, <2>12, <2>13, <2>14, CommandKeepsSnapshot
<1> QED
  BY <1>1, <1>2

LEMMA CommandKeepsIInv == IInv /\ Command => IInv'
BY AddNodeKeepsIInv, RemoveNodeKeepsIInv, UpdateNodeKeepsIInv, AddConnectionKeepsIInv,
   RemoveConnectionKeepsIInv, RequestsAreConnections DEF Command

-----------------------------------------------------------------------------
(* The main thread keeps the invariant *)

\* The locked block makes the snapshot equal to the graph.
LEMMA SyncCopiesTheGraph ==
    ASSUME IInv, Sync
    PROVE  nodes_copy' = nodes /\ nodes' = nodes
<1>1. ASSUME NEW id \in Ids
      PROVE  nodes_copy'[id] = nodes[id]
  <2>1. nodes_copy'[id] = IF id \in dirty /\ nodes[id] # NoNode THEN nodes[id]
                          ELSE IF id \in removed THEN NoNode ELSE nodes_copy[id]
    BY DEF Sync
  <2>2. CASE nodes[id] # NoNode
    <3>1. CASE id \in dirty
      BY <2>1, <2>2, <3>1
    <3>2. CASE id \notin dirty
      BY <2>1, <2>2, <3>2 DEF IInv, DifferencesAreMarked, MarksAreComplete
    <3> QED
      BY <3>1, <3>2
  <2>3. CASE nodes[id] = NoNode
    BY <2>1, <2>3 DEF IInv, MarksAreComplete
  <2> QED
    BY <2>2, <2>3
<1> QED
  BY <1>1 DEF Sync, IInv, TypeOK

LEMMA SyncKeepsIInv == IInv /\ Sync => IInv'
<1> SUFFICES ASSUME IInv, Sync PROVE IInv'
  OBVIOUS
<1>1. nodes_copy' = nodes /\ nodes' = nodes
  BY SyncCopiesTheGraph
<1>2. /\ dirty' = {} /\ removed' = {} /\ connections' = connections /\ attached' = attached
      /\ render = "idle" /\ render' = "synced"
      /\ prepared' = prepared \cap Alive'
  BY DEF Sync
<1>3. TypeOK'
  BY <1>1, <1>2 DEF IInv, TypeOK
<1>4. GraphInv'
  BY <1>1, <1>2 DEF IInv, GraphInv, GraphConsistent, GraphAcyclic
<1>5. SnapshotIsAGraph'
  <2>1. Listed(nodes) = connections
    BY ListedIsConnections DEF IInv, TypeOK, NodeMap, GraphInv, GraphConsistent
  <2> QED
    BY <1>1, <2>1
       DEF IInv, GraphInv, GraphConsistent, GraphAcyclic,
           SnapshotIsAGraph
<1>6. DifferencesAreMarked' /\ MarksAreComplete'
  BY <1>1, <1>2 DEF DifferencesAreMarked, MarksAreComplete
<1>7. SettingsKept' /\ SettingsInSnapshot'
  BY <1>1, <1>2 DEF IInv, SettingsKept, SettingsInSnapshot
<1>8. PreparedIsCopied'
  BY <1>1, <1>2 DEF PreparedIsCopied, Alive
<1> QED
  BY <1>3, <1>4, <1>5, <1>6, <1>7, <1>8 DEF IInv

\* A step of the main thread that leaves graph and snapshot alone.
LEMMA PhaseKeepsIInv ==
    ASSUME IInv, UNCHANGED <<graph, nodes_copy>>,
           render # "stopped",
           render' \in {"subscribed", "idle", "frame", "stopping", "failed"},
           render' = "frame" => nodes_copy[SettingsId] # NoNode,
           attached' \in BOOLEAN,
           prepared' \subseteq prepared \cup ObjectsIn(nodes_copy)
    PROVE  IInv'
<1>1. /\ nodes' = nodes /\ connections' = connections /\ dirty' = dirty
      /\ removed' = removed /\ nodes_copy' = nodes_copy
  BY DEF graph
<1>2. PreparedIsCopied'
  BY <1>1 DEF IInv, PreparedIsCopied
<1>3. prepared' \in SUBSET (Ids \X {0, 1})
  <2>1. ObjectsIn(nodes_copy) \subseteq Ids \X {0, 1}
    BY DEF IInv, TypeOK, ObjectsIn, Present, NodeRecord
  <2> QED
    BY <2>1 DEF IInv, TypeOK
<1>4. TypeOK'
  BY <1>1, <1>3 DEF IInv, TypeOK
<1>5. GraphInv' /\ SnapshotIsAGraph'
  BY <1>1 DEF IInv, GraphInv, GraphConsistent, GraphAcyclic,
              SnapshotIsAGraph
<1>6. DifferencesAreMarked' /\ MarksAreComplete'
  BY <1>1 DEF IInv, DifferencesAreMarked, MarksAreComplete
<1>7. SettingsKept' /\ SettingsInSnapshot'
  BY <1>1 DEF IInv, SettingsKept, SettingsInSnapshot
<1> QED
  BY <1>2, <1>4, <1>5, <1>6, <1>7 DEF IInv

LEMMA ClearNodesKeepsIInv == IInv /\ ClearNodes => IInv'
<1> SUFFICES ASSUME IInv, ClearNodes PROVE IInv'
  OBVIOUS
<1>1. /\ nodes' = [id \in Ids |-> NoNode] /\ nodes_copy' = [id \in Ids |-> NoNode]
      /\ connections' = {} /\ dirty' = {} /\ removed' = {} /\ prepared' = {}
      /\ render' = "stopped" /\ attached' = attached
  BY DEF ClearNodes
<1>2. Present(nodes') = {} /\ Present(nodes_copy') = {}
  BY <1>1 DEF Present
<1>3. nodes' \in NodeMap /\ nodes_copy' \in NodeMap
  BY <1>1 DEF NodeMap
<1>4. TypeOK'
  BY <1>1, <1>3 DEF IInv, TypeOK, NodeMap
<1>5. /\ ListsAgree(nodes', {}) /\ WithinCapacity(nodes') /\ Acyclic(nodes')
      /\ ListsAgree(nodes_copy', {}) /\ Listed(nodes_copy') = {}
      /\ WithinCapacity(nodes_copy') /\ Acyclic(nodes_copy')
  BY <1>2, <1>3, NoListsIsGraph
<1>6. GraphInv' /\ SnapshotIsAGraph'
  BY <1>1, <1>5 DEF GraphInv, GraphConsistent, GraphAcyclic,
              SnapshotIsAGraph
<1>7. /\ DifferencesAreMarked' /\ MarksAreComplete' /\ SettingsKept' /\ SettingsInSnapshot'
      /\ PreparedIsCopied'
  BY <1>1 DEF DifferencesAreMarked, MarksAreComplete, SettingsKept, SettingsInSnapshot,
              PreparedIsCopied
<1> QED
  BY <1>4, <1>6, <1>7 DEF IInv

LEMMA NextKeepsIInv == IInv /\ [Next]_vars => IInv'
<1> SUFFICES ASSUME IInv, [Next]_vars PROVE IInv'
  OBVIOUS
<1>1. CASE Command
  BY <1>1, CommandKeepsIInv
<1>2. CASE AddAdapter
  BY <1>2, PhaseKeepsIInv DEF AddAdapter, IInv, TypeOK
<1>3. CASE Sync
  BY <1>3, SyncKeepsIInv
<1>4. CASE PrepareAll
  <2>1. render = "synced" /\ nodes_copy[SettingsId] # NoNode
    BY <1>4 DEF PrepareAll, IInv, SettingsInSnapshot
  <2> QED
    BY <1>4, <2>1, PhaseKeepsIInv DEF PrepareAll, IInv, TypeOK
<1>5. CASE FinishFrame
  BY <1>5, PhaseKeepsIInv DEF FinishFrame, IInv, TypeOK
<1>6. CASE Stop
  BY <1>6, PhaseKeepsIInv DEF Stop
<1>7. CASE ClearNodes
  BY <1>7, ClearNodesKeepsIInv
<1>8. CASE SubscribeHandlers
  BY <1>8, PhaseKeepsIInv DEF SubscribeHandlers, IInv, TypeOK
<1>9. CASE UNCHANGED vars
  BY <1>9 DEF vars, IInv, TypeOK, GraphInv, GraphConsistent, GraphAcyclic,
              SnapshotIsAGraph,
              DifferencesAreMarked, MarksAreComplete, SettingsKept, SettingsInSnapshot,
              PreparedIsCopied
<1> QED
  BY <1>1, <1>2, <1>3, <1>4, <1>5, <1>6, <1>7, <1>8, <1>9 DEF Next, Render, Ended

-----------------------------------------------------------------------------
(* Theorems *)

\* The inductive invariant holds in every reachable state of the graph, its
\* snapshot and its marks.
THEOREM Invariance == Spec => []IInv
BY InitIInv, NextKeepsIInv, PTL DEF Spec

\* Every variable of the node manager keeps its type.
THEOREM TypeCorrect == Spec => []TypeOK
<1>1. IInv => TypeOK
  BY DEF IInv
<1> QED
  BY <1>1, Invariance, PTL

\* Whatever commands arrive, in whatever order: connections_ and the nodes' own
\* lists agree, no interface is over its maximum, and there is no cycle
\* (node_manager.cpp: handle_add_connection, handle_remove_node,
\* remove_connection_locked, is_connection_circular).
THEOREM GraphIsSound == Spec => [](GraphConsistent /\ GraphAcyclic)
<1>1. IInv => GraphConsistent /\ GraphAcyclic
  BY DEF IInv, GraphInv
<1> QED
  BY <1>1, Invariance, PTL

\* No sequence of commands closes a cycle, so that the walks of a frame end
\* (is_connection_circular looks at the lists of all interfaces).
THEOREM GraphStaysAcyclic == Spec => []GraphAcyclic
<1>1. IInv => GraphAcyclic
  BY DEF IInv, GraphInv
<1> QED
  BY <1>1, Invariance, PTL

\* The marks name every difference between graph and snapshot, so what a frame
\* renders is one state of the graph, never a mixture of two (tick_one_frame).
THEOREM SnapshotIsSound ==
    Spec => [](DifferencesAreMarked /\ FramesSeeAGraph)
<1>1. IInv => DifferencesAreMarked /\ FramesSeeAGraph
  BY DEF IInv, FramesSeeAGraph
<1> QED
  BY <1>1, Invariance, PTL

\* However many commands ran since the last frame, the locked block of
\* tick_one_frame leaves the snapshot equal to the graph.
THEOREM SnapshotTakesTheGraph == Spec => SnapshotCatchesUp
<1>1. IInv /\ [Next]_vars => [render = "idle" /\ render' = "synced" => nodes_copy' = nodes]_vars
  <2> SUFFICES ASSUME IInv, Next, render = "idle", render' = "synced"
               PROVE  nodes_copy' = nodes
    BY DEF vars
  <2>1. ~Command
    BY DEF Command, HandleAddNode, HandleRemoveNode, HandleUpdateNode, HandleAddConnection,
           HandleRemoveConnection, Fail
  <2>2. Sync
    BY <2>1 DEF Next, SubscribeHandlers, AddAdapter, Render, PrepareAll, FinishFrame, Stop,
                ClearNodes, Ended
  <2> QED
    BY <2>2, SyncCopiesTheGraph
<1> QED
  BY <1>1, Invariance, PTL DEF Spec, SnapshotCatchesUp

\* tick_one_frame finds the settings node in every snapshot it renders.
THEOREM SettingsAreInEverySnapshot == Spec => []SettingsInSnapshot
<1>1. IInv => SettingsInSnapshot
  BY DEF IInv
<1> QED
  BY <1>1, Invariance, PTL

\* No step but the main thread's own frees a prepared node object.
THEOREM PreparedNodesDieOnRenderThread == Spec => PreparedDiesOnRenderThread
<1>1. IInv /\ [Next]_vars => [render' = render => prepared \subseteq Alive']_vars
  <2> SUFFICES ASSUME IInv, Next, render' = render
               PROVE  prepared \subseteq Alive'
    BY DEF vars, IInv, PreparedIsCopied, Alive
  <2>1. nodes_copy' = nodes_copy
    BY DEF Next, Command, HandleAddNode, HandleRemoveNode, HandleUpdateNode, HandleAddConnection,
           HandleRemoveConnection, UnchangedByCommands, SubscribeHandlers, AddAdapter, Render, Sync, PrepareAll,
           FinishFrame, Stop, ClearNodes, Ended, vars
  <2> QED
    BY <2>1 DEF IInv, PreparedIsCopied, Alive, ObjectsIn, Present
<1> QED
  BY <1>1, Invariance, PTL DEF Spec, PreparedDiesOnRenderThread

=============================================================================
