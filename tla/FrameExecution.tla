---------------------------- MODULE FrameExecution ----------------------------
(***************************************************************************)
(* One thread renders frame after frame from its snapshot of the graph:    *)
(* src/src/nodes/frame_execution.cpp, driven by tick_one_frame.  Every     *)
(* node prepares; the outputs that demand execution have their upstream    *)
(* submitted, depth first and each node once; then the same outputs are    *)
(* executed, a node executing what it reads when it reads it; every node   *)
(* completes.                                                              *)
(*                                                                         *)
(* Submission and execution walk the graph separately.  What a switch or a *)
(* mix reads depends on a control value, which is only known during        *)
(* execution when the control input is connected.                          *)
(***************************************************************************)
EXTENDS Sequences, Naturals

CONSTANTS
    Nodes,          \* the nodes of the snapshot
    Outputs,        \* those whose prepare() may demand execution
    MayReturnEarly, \* those whose execute() may return before reading all inputs
    Branches,       \* the inputs a control value chooses from
    RoutesOf,       \* node -> the sets of branches a control value can choose
    Graphs          \* the graphs a snapshot may hold

\* always: the nodes behind the inputs read whatever the control value is;
\* control: the one behind the control input, if connected; branch: the nodes
\* behind each chosen input.
GraphType == [always  : [Nodes -> SUBSET Nodes],
              control : [Nodes -> SUBSET Nodes],
              branch  : [Nodes -> [Branches -> SUBSET Nodes]]]

AllDeps(g, n) ==
    g.always[n] \cup g.control[n] \cup UNION {g.branch[n][b] : b \in Branches}

\* As the node manager keeps it: among any nodes one reads from none of them.
AcyclicGraph(g) ==
    \A S \in SUBSET Nodes : S # {} => \E n \in S : AllDeps(g, n) \cap S = {}

ASSUME FrameConstants ==
    /\ Outputs \subseteq Nodes
    /\ MayReturnEarly \subseteq Nodes
    /\ RoutesOf \in [Nodes -> SUBSET SUBSET Branches]
    /\ \A n \in Nodes : RoutesOf[n] # {}
    /\ Graphs \subseteq GraphType
    /\ \A g \in Graphs : AcyclicGraph(g)

VARIABLES
    phase,      \* what tick_one_frame is doing
    graph,      \* nodes_copy_'s connections
    route,      \* the branches each node's control option chooses
    demanding,  \* demanding_nodes
    roots,      \* those of them the current pass has yet to visit
    stack,      \* the nodes being visited, the innermost first
    left,       \* node -> what it has yet to visit of its inputs
    unrouted,   \* nodes whose control value execute() has yet to resolve
    submitted,  \* frame_info.submitted_nodes
    executed,   \* frame_info.executed_nodes
    done        \* nodes whose execute() has returned in this frame

vars == <<phase, graph, route, demanding, roots, stack, left, unrouted,
          submitted, executed, done>>

Chosen(n, branches) == UNION {graph.branch[n][b] : b \in branches}

\* Fault: submit() trusts the control option although the input is connected.
SubmitByOption(n) == graph.always[n] \cup graph.control[n] \cup Chosen(n, route[n])

\* submit(): every input, save that an unconnected control decides by its option.
SubmitDeps(n) ==
    graph.always[n] \cup graph.control[n]
        \cup Chosen(n, IF graph.control[n] = {} THEN route[n] ELSE Branches)

Top == stack[1]

-----------------------------------------------------------------------------

PrepareAll ==
    /\ phase = "idle"
    /\ phase' = "submit"
    /\ graph' \in Graphs
    /\ route' \in {r \in [Nodes -> SUBSET Branches] : \A n \in Nodes : r[n] \in RoutesOf[n]}
    /\ demanding' \in SUBSET Outputs
    /\ roots' = demanding'
    /\ submitted' = {}
    /\ UNCHANGED <<stack, left, unrouted, executed, done>>

\* submit_node_once
Submit(d) ==
    IF d \in submitted THEN UNCHANGED <<stack, submitted>>
    ELSE /\ submitted' = submitted \cup {d}
         /\ stack' = <<d>> \o stack

SubmitRoot(d) ==
    /\ phase = "submit" /\ stack = <<>> /\ d \in roots
    /\ roots' = roots \ {d}
    /\ Submit(d)
    /\ left' = IF d \in submitted THEN left ELSE [left EXCEPT ![d] = SubmitDeps(d)]
    /\ UNCHANGED <<phase, graph, route, demanding, unrouted, executed, done>>

\* submit_dependencies, in any order of the inputs and their connections.
SubmitDependency(d) ==
    /\ phase = "submit" /\ stack # <<>> /\ d \in left[Top]
    /\ Submit(d)
    /\ left' = IF d \in submitted THEN [left EXCEPT ![Top] = @ \ {d}]
               ELSE [left EXCEPT ![Top] = @ \ {d}, ![d] = SubmitDeps(d)]
    /\ UNCHANGED <<phase, graph, route, demanding, roots, unrouted, executed, done>>

SubmitReturn ==
    /\ phase = "submit" /\ stack # <<>> /\ left[Top] = {}
    /\ stack' = Tail(stack)
    /\ UNCHANGED <<phase, graph, route, demanding, roots, left, unrouted,
                   submitted, executed, done>>

\* Fault: executed_nodes still holds the last frame's nodes.
KeepExecuted ==
    /\ phase = "submit" /\ stack = <<>> /\ roots = {}
    /\ phase' = "execute"
    /\ roots' = demanding
    /\ done' = {}
    /\ UNCHANGED <<graph, route, demanding, stack, left, unrouted, submitted, executed>>

StartExecution ==
    /\ phase = "submit" /\ stack = <<>> /\ roots = {}
    /\ phase' = "execute"
    /\ roots' = demanding
    /\ executed' = {}
    /\ done' = {}
    /\ UNCHANGED <<graph, route, demanding, stack, left, unrouted, submitted>>

\* Fault: a node that another reader executed already is executed again.
EnterAlways(d, rest) ==
    /\ executed' = executed \cup {d}
    /\ stack' = <<d>> \o stack
    /\ left' = [rest EXCEPT ![d] = graph.always[d] \cup graph.control[d]]
    /\ unrouted' = unrouted \cup {d}

\* Fault: a node that is entered is not remembered.
EnterForgotten(d, rest) ==
    /\ stack' = <<d>> \o stack
    /\ left' = [rest EXCEPT ![d] = graph.always[d] \cup graph.control[d]]
    /\ unrouted' = unrouted \cup {d}
    /\ UNCHANGED executed

\* execute_node_once; rest is what the reader has left to read.
Enter(d, rest) ==
    IF d \in executed THEN left' = rest /\ UNCHANGED <<stack, unrouted, executed>>
    ELSE /\ executed' = executed \cup {d}
         /\ stack' = <<d>> \o stack
         /\ left' = [rest EXCEPT ![d] = graph.always[d] \cup graph.control[d]]
         /\ unrouted' = unrouted \cup {d}

ExecuteRoot(d) ==
    /\ phase = "execute" /\ stack = <<>> /\ d \in roots
    /\ roots' = roots \ {d}
    /\ Enter(d, left)
    /\ UNCHANGED <<phase, graph, route, demanding, submitted, done>>

\* Fault: the reader marks what it reads before execute_node_once looks.
MarkUnexecuted(d) ==
    /\ phase = "execute" /\ stack # <<>> /\ d \in left[Top]
    /\ left' = [left EXCEPT ![Top] = @ \ {d}]
    /\ executed' = executed \cup {d}
    /\ UNCHANGED <<phase, graph, route, demanding, roots, stack, unrouted, submitted, done>>

\* resolve_value or resolve_values of one input.
Resolve(d) ==
    /\ phase = "execute" /\ stack # <<>> /\ d \in left[Top]
    /\ Enter(d, [left EXCEPT ![Top] = @ \ {d}])
    /\ UNCHANGED <<phase, graph, route, demanding, roots, submitted, done>>

\* The control value is read: an unconnected one is the option, and a
\* connected one may be any.
ResolveRoute ==
    /\ phase = "execute" /\ stack # <<>> /\ left[Top] = {} /\ Top \in unrouted
    /\ unrouted' = unrouted \ {Top}
    /\ \E branches \in IF graph.control[Top] = {} THEN {route[Top]} ELSE RoutesOf[Top] :
          left' = [left EXCEPT ![Top] = Chosen(Top, branches)]
    /\ UNCHANGED <<phase, graph, route, demanding, roots, stack, submitted, executed, done>>

\* execute() returns: its inputs are read, or it has no framebuffer to draw in.
ExecuteReturn ==
    /\ phase = "execute" /\ stack # <<>>
    /\ \/ left[Top] = {} /\ Top \notin unrouted
       \/ Top \in MayReturnEarly /\ left[Top] # graph.always[Top] \cup graph.control[Top]
    /\ stack' = Tail(stack)
    /\ left' = [left EXCEPT ![Top] = {}]
    /\ unrouted' = unrouted \ {Top}
    /\ done' = done \cup {Top}
    /\ UNCHANGED <<phase, graph, route, demanding, roots, submitted, executed>>

CompleteAll ==
    /\ phase = "execute" /\ stack = <<>> /\ roots = {}
    /\ phase' = "idle"
    /\ UNCHANGED <<graph, route, demanding, roots, stack, left, unrouted,
                   submitted, executed, done>>

-----------------------------------------------------------------------------

Init ==
    /\ phase = "idle"
    /\ graph \in Graphs
    /\ route \in {r \in [Nodes -> SUBSET Branches] : \A n \in Nodes : r[n] \in RoutesOf[n]}
    /\ demanding = {} /\ roots = {} /\ stack = <<>>
    /\ left = [n \in Nodes |-> {}]
    /\ unrouted = {} /\ submitted = {} /\ executed = {} /\ done = {}

Next ==
    \/ PrepareAll \/ SubmitReturn \/ StartExecution
    \/ ResolveRoute \/ ExecuteReturn \/ CompleteAll
    \/ \E d \in Nodes : SubmitRoot(d) \/ SubmitDependency(d) \/ ExecuteRoot(d) \/ Resolve(d)

\* The main thread keeps running.
Spec == Init /\ [][Next]_vars /\ WF_vars(Next)

-----------------------------------------------------------------------------
(* Properties *)

TypeOK ==
    /\ phase \in {"idle", "submit", "execute"}
    /\ graph \in Graphs
    /\ route \in [Nodes -> SUBSET Branches]
    /\ \A n \in Nodes : route[n] \in RoutesOf[n]
    /\ demanding \in SUBSET Outputs
    /\ roots \in SUBSET demanding
    /\ stack \in Seq(Nodes)
    /\ left \in [Nodes -> SUBSET Nodes]
    /\ unrouted \in SUBSET Nodes
    /\ submitted \in SUBSET Nodes
    /\ executed \in SUBSET Nodes
    /\ done \in SUBSET executed

\* submit() is called "for every node in the demanded upstream closure ... before
\* any demanded node executes" (node.hpp): whichever branch a control value
\* picks during execution, the node behind it has had its submit() call, so an
\* input node never executes without the frame its submit() parks.
ExecutedWereSubmitted == phase = "execute" => executed \subseteq submitted

\* A node that reads from one visited before reads this frame's value: it is
\* never one that is still executing further down the call stack, nor one that
\* was only marked.
ReadsAreComplete ==
    phase = "execute" /\ stack # <<>> =>
        \A d \in AllDeps(graph, Top) : d \in executed => d \in done

\* execute() is called at most once per tick (node.hpp).
ExecutedOnce == phase = "execute" => \A k \in 1..Len(stack) : stack[k] \notin done

\* Types; and no node is executed twice in a frame, however many read it.
NodesRunOnce == TypeOK /\ ExecutedOnce

\* Every output that demanded a frame gets it, whatever else shares its inputs.
FrameCompletes ==
    \A n \in Outputs :
        (phase = "submit" /\ n \in demanding) ~> (phase = "idle" /\ n \in demanding \cap done)

=============================================================================
