------------------------- MODULE FrameExecutionProofs -------------------------
(***************************************************************************)
(* Machine-checked proofs about the two walks of a frame, for every graph. *)
(*                                                                         *)
(* The invariant follows the depth-first search: the call stack is a path  *)
(* of reads, what a submitted node has not submitted yet is in its own     *)
(* `left`, and an executed node has returned or is on the stack.           *)
(***************************************************************************)
EXTENDS FrameExecution, TLAPS

Elems(s) == {s[k] : k \in 1..Len(s)}

\* A call stack, innermost call first: nobody twice, each call read by the next.
ReadPath(s, g) ==
    /\ \A j, k \in 1..Len(s) : s[j] = s[k] => j = k
    /\ \A j \in 1..Len(s), k \in 1..Len(s) : k = j + 1 => s[j] \in AllDeps(g, s[k])

\* A call by the innermost one extends the path.
LEMMA PushReadPath ==
    ASSUME NEW s \in Seq(Nodes), NEW g, NEW d \in Nodes, ReadPath(s, g),
           d \notin Elems(s), s # <<>> => d \in AllDeps(g, s[1])
    PROVE  LET t == <<d>> \o s
           IN t \in Seq(Nodes) /\ t # <<>> /\ t[1] = d /\ ReadPath(t, g) /\ Elems(t) = Elems(s) \cup {d}
<1> DEFINE t == <<d>> \o s
<1>1. t \in Seq(Nodes) /\ t # <<>> /\ t[1] = d /\ Len(t) = Len(s) + 1
  OBVIOUS
<1>2. \A k \in 1..Len(t) : k # 1 => k - 1 \in 1..Len(s) /\ t[k] = s[k - 1]
  OBVIOUS
<1>3. \A k \in 1..Len(s) : k + 1 \in 1..Len(t) /\ t[k + 1] = s[k]
  BY <1>1, <1>2
<1> HIDE DEF t
<1>4. Elems(t) = Elems(s) \cup {d}
  <2>1. Elems(t) \subseteq Elems(s) \cup {d}
    BY <1>1, <1>2 DEF Elems
  <2>2. Elems(s) \cup {d} \subseteq Elems(t)
    BY <1>1, <1>3 DEF Elems
  <2> QED BY <2>1, <2>2
<1>5. ASSUME NEW j \in 1..Len(t), NEW k \in 1..Len(t), t[j] = t[k]
      PROVE  j = k
  <2>1. CASE j = 1 /\ k # 1
    BY <2>1, <1>1, <1>2, <1>5 DEF Elems
  <2>2. CASE j # 1 /\ k = 1
    BY <2>2, <1>1, <1>2, <1>5 DEF Elems
  <2>3. CASE j # 1 /\ k # 1
    <3>1. j - 1 = k - 1
      BY <2>3, <1>2, <1>5 DEF ReadPath
    <3> QED BY <3>1
  <2> QED BY <2>1, <2>2, <2>3
<1>6. ASSUME NEW j \in 1..Len(t), NEW k \in 1..Len(t), k = j + 1
      PROVE  t[j] \in AllDeps(g, t[k])
  <2>1. t[k] = s[j] /\ j \in 1..Len(s)
    BY <1>2, <1>6
  <2>2. CASE j = 1
    <3>1. s # <<>>
      BY <2>1
    <3> QED BY <2>1, <2>2, <3>1, <1>1
  <2>3. CASE j # 1
    <3>1. t[j] = s[j - 1] /\ j - 1 \in 1..Len(s) /\ j = (j - 1) + 1
      BY <1>2, <2>3
    <3> QED BY <2>1, <3>1 DEF ReadPath
  <2> QED BY <2>2, <2>3
<1>7. ReadPath(t, g)
  BY <1>5, <1>6 DEF ReadPath
<1> QED
  BY <1>1, <1>4, <1>7 DEF t

\* Its return takes exactly it off the path.
LEMMA PopReadPath ==
    ASSUME NEW s \in Seq(Nodes), NEW g, ReadPath(s, g), s # <<>>
    PROVE  /\ Tail(s) \in Seq(Nodes)
           /\ ReadPath(Tail(s), g)
           /\ Elems(Tail(s)) = Elems(s) \ {s[1]}
           /\ s[1] \in Elems(s)
<1> DEFINE t == Tail(s)
<1>1. t \in Seq(Nodes) /\ Len(t) = Len(s) - 1 /\ Len(s) \in Nat /\ Len(s) > 0
  OBVIOUS
<1>2. \A k \in 1..Len(t) : k + 1 \in 1..Len(s) /\ t[k] = s[k + 1]
  BY <1>1
<1> HIDE DEF t
<1>3. ASSUME NEW j \in 1..Len(t), NEW k \in 1..Len(t), t[j] = t[k]
      PROVE  j = k
  <2>1. j + 1 = k + 1
    BY <1>2, <1>3 DEF ReadPath
  <2> QED BY <2>1
<1>4. ASSUME NEW j \in 1..Len(t), NEW k \in 1..Len(t), k = j + 1
      PROVE  t[j] \in AllDeps(g, t[k])
  BY <1>2, <1>4 DEF ReadPath
<1>5. 1 \in 1..Len(s) /\ s[1] \in Elems(s)
  BY <1>1 DEF Elems
<1>6. Elems(t) \subseteq Elems(s) \ {s[1]}
  <2> SUFFICES ASSUME NEW k \in 1..Len(t) PROVE t[k] \in Elems(s) \ {s[1]}
    BY DEF Elems
  <2>1. k + 1 # 1
    OBVIOUS
  <2> QED BY <2>1, <1>2, <1>5 DEF ReadPath, Elems
<1>7. Elems(s) \ {s[1]} \subseteq Elems(t)
  <2> SUFFICES ASSUME NEW k \in 1..Len(s), s[k] # s[1] PROVE s[k] \in Elems(t)
    BY DEF Elems
  <2>1. k - 1 \in 1..Len(t) /\ (k - 1) + 1 = k
    BY <1>1
  <2>2. t[k - 1] = s[k]
    BY <2>1, <1>2
  <2> QED BY <2>1, <2>2 DEF Elems
<1> QED
  BY <1>1, <1>3, <1>4, <1>5, <1>6, <1>7 DEF ReadPath, t

\* Who reads a node on the path closes a cycle.
LEMMA PathEndsReadNoneOfIt ==
    ASSUME NEW g \in GraphType, AcyclicGraph(g), NEW s \in Seq(Nodes), ReadPath(s, g), s # <<>>,
           NEW d \in AllDeps(g, s[1])
    PROVE  d \notin Elems(s)
<1> SUFFICES ASSUME NEW j \in 1..Len(s), s[j] = d PROVE FALSE
  BY DEF Elems
<1> DEFINE S == {s[k] : k \in 1..j}
<1>0. 1 \in 1..j /\ j \in 1..j /\ 1..j \subseteq 1..Len(s)
  OBVIOUS
<1>1. S \in SUBSET Nodes /\ S # {}
  BY <1>0
<1>2. PICK n \in S : AllDeps(g, n) \cap S = {}
  BY <1>1 DEF AcyclicGraph
<1>3. PICK k \in 1..j : n = s[k]
  BY <1>2
<1>4. CASE k = 1
  <2>1. d \in S
    BY <1>0
  <2> QED BY <2>1, <1>2, <1>3, <1>4
<1>5. CASE k # 1
  <2>1. k - 1 \in 1..j /\ k = (k - 1) + 1 /\ k - 1 \in 1..Len(s) /\ k \in 1..Len(s)
    BY <1>5, <1>0
  <2>2. s[k - 1] \in AllDeps(g, s[k]) /\ s[k - 1] \in S
    BY <2>1 DEF ReadPath
  <2> QED BY <2>2, <1>2, <1>3
<1> QED BY <1>4, <1>5

-----------------------------------------------------------------------------
(* The invariant *)

StackInv ==
    /\ ReadPath(stack, graph)
    /\ \A n \in Nodes : left[n] # {} \/ n \in unrouted => n \in Elems(stack)
    /\ \A n \in Nodes : left[n] \subseteq SubmitDeps(n)
    /\ phase = "idle" => stack = <<>>

SubmitInv ==
    phase = "submit" =>
        /\ Elems(stack) \subseteq submitted
        /\ \A n \in submitted : SubmitDeps(n) \subseteq submitted \cup left[n]
        /\ demanding \subseteq submitted \cup roots

ExecuteInv ==
    phase = "execute" =>
        /\ demanding \subseteq submitted
        /\ \A n \in submitted : SubmitDeps(n) \subseteq submitted
        /\ executed \subseteq submitted
        /\ executed = done \cup Elems(stack)
        /\ done \cap Elems(stack) = {}

\* Control values are resolved in execution only.
RoutedIsExecuting == phase # "execute" => unrouted = {}

IInv == TypeOK /\ StackInv /\ RoutedIsExecuting /\ SubmitInv /\ ExecuteInv

LEMMA GraphFacts ==
    ASSUME TypeOK, NEW n \in Nodes
    PROVE  /\ graph \in GraphType /\ AcyclicGraph(graph)
           /\ graph.always[n] \cup graph.control[n] \subseteq SubmitDeps(n)
           /\ SubmitDeps(n) \subseteq AllDeps(graph, n)
           /\ AllDeps(graph, n) \subseteq Nodes
<1>1. graph \in GraphType /\ AcyclicGraph(graph)
  BY FrameConstants DEF TypeOK
<1>2. graph.always[n] \subseteq Nodes /\ graph.control[n] \subseteq Nodes
      /\ graph.branch[n] \in [Branches -> SUBSET Nodes]
  BY <1>1 DEF GraphType
<1>3. route[n] \subseteq Branches
  BY DEF TypeOK
<1> QED
  BY <1>1, <1>2, <1>3 DEF SubmitDeps, AllDeps, Chosen

\* A control value known only during execution picks among submitted branches.
LEMMA RoutedDepsAreSubmitDeps ==
    ASSUME TypeOK, NEW n \in Nodes,
           NEW branches \in IF graph.control[n] = {} THEN {route[n]} ELSE RoutesOf[n]
    PROVE  Chosen(n, branches) \subseteq SubmitDeps(n)
<1>1. branches \subseteq Branches
  BY FrameConstants DEF TypeOK
<1> QED
  BY <1>1 DEF Chosen, SubmitDeps

LEMMA InitIInv == Init => IInv
<1> SUFFICES ASSUME Init PROVE IInv
  OBVIOUS
<1>1. TypeOK
  BY DEF Init, TypeOK
<1>2. Len(stack) = 0 /\ 1..0 = {}
  BY DEF Init
<1>3. StackInv
  BY <1>2 DEF Init, StackInv, ReadPath, Elems
<1> QED
  BY <1>1, <1>3 DEF IInv, Init, RoutedIsExecuting, SubmitInv, ExecuteInv

LEMMA PrepareAllKeepsIInv == IInv /\ PrepareAll => IInv'
<1> SUFFICES ASSUME IInv, PrepareAll PROVE IInv'
  OBVIOUS
<1> USE DEF PrepareAll
<1>1. stack = <<>> /\ Elems(stack) = {}
  <2>1. stack = <<>>
    BY DEF IInv, StackInv
  <2>2. Len(stack) = 0 /\ 1..0 = {}
    BY <2>1
  <2> QED BY <2>1, <2>2 DEF Elems
<1>2. \A n \in Nodes : left[n] = {} /\ n \notin unrouted
  BY <1>1 DEF IInv, StackInv
<1>3. TypeOK'
  BY DEF IInv, TypeOK
<1>4. StackInv'
  <2>1. Len(stack) = 0 /\ 1..0 = {}
    BY <1>1
  <2> QED BY <1>2, <2>1, <1>1 DEF StackInv, ReadPath, Elems
<1> QED
  BY <1>3, <1>4, <1>1 DEF IInv, RoutedIsExecuting, SubmitInv, ExecuteInv, Elems

LEMMA SubmitDepsUnchanged ==
    ASSUME graph' = graph, route' = route
    PROVE  \A n : SubmitDeps(n)' = SubmitDeps(n)
BY DEF SubmitDeps, Chosen

LEMMA SubmitRootKeepsIInv == ASSUME NEW d \in Nodes PROVE IInv /\ SubmitRoot(d) => IInv'
<1> SUFFICES ASSUME IInv, SubmitRoot(d) PROVE IInv'
  OBVIOUS
<1>0. /\ phase = "submit" /\ phase' = "submit" /\ stack = <<>> /\ graph' = graph /\ route' = route
      /\ demanding' = demanding /\ roots' = roots \ {d} /\ unrouted' = unrouted
      /\ executed' = executed /\ done' = done
  BY DEF SubmitRoot
<1>1. \A n : SubmitDeps(n)' = SubmitDeps(n)
  BY <1>0, SubmitDepsUnchanged
<1>2. SubmitDeps(d) \subseteq Nodes
  BY GraphFacts DEF IInv
<1>3. CASE d \in submitted
  <2>1. stack' = stack /\ submitted' = submitted /\ left' = left
    BY <1>3 DEF SubmitRoot, Submit
  <2> QED
    BY <2>1, <1>0, <1>1, <1>3 DEF IInv, TypeOK, StackInv, RoutedIsExecuting, SubmitInv, ExecuteInv
<1>4. CASE d \notin submitted
  <2>1. stack' = <<d>> \o stack /\ submitted' = submitted \cup {d}
        /\ left' = [left EXCEPT ![d] = SubmitDeps(d)]
    BY <1>4 DEF SubmitRoot, Submit
  <2>2. stack' \in Seq(Nodes) /\ stack' # <<>> /\ ReadPath(stack', graph)
        /\ Elems(stack') = Elems(stack) \cup {d}
    BY <2>1, <1>0, <1>4, PushReadPath DEF IInv, TypeOK, StackInv, SubmitInv
  <2>3. left' \in [Nodes -> SUBSET Nodes] /\ left'[d] = SubmitDeps(d)
        /\ \A n \in Nodes \ {d} : left'[n] = left[n]
    BY <2>1, <1>2 DEF IInv, TypeOK
  <2>4. TypeOK'
    BY <2>1, <2>2, <2>3, <1>0 DEF IInv, TypeOK
  <2>5. StackInv'
    BY <2>2, <2>3, <1>0, <1>1 DEF IInv, TypeOK, StackInv, Elems
  <2>6. SubmitInv'
    BY <2>1, <2>2, <2>3, <1>0, <1>1 DEF IInv, TypeOK, SubmitInv, Elems
  <2> QED
    BY <2>4, <2>5, <2>6, <1>0 DEF IInv, RoutedIsExecuting, ExecuteInv
<1> QED BY <1>3, <1>4

LEMMA SubmitDependencyKeepsIInv ==
    ASSUME NEW d \in Nodes PROVE IInv /\ SubmitDependency(d) => IInv'
<1> SUFFICES ASSUME IInv, SubmitDependency(d) PROVE IInv'
  OBVIOUS
<1>0. /\ phase = "submit" /\ phase' = "submit" /\ stack # <<>> /\ graph' = graph /\ route' = route
      /\ demanding' = demanding /\ roots' = roots /\ unrouted' = unrouted
      /\ executed' = executed /\ done' = done /\ d \in left[Top]
  BY DEF SubmitDependency
<1>1. \A n : SubmitDeps(n)' = SubmitDeps(n)
  BY <1>0, SubmitDepsUnchanged
<1>2. Top \in Nodes /\ Top \in Elems(stack)
  BY <1>0, PopReadPath DEF IInv, TypeOK, StackInv, Top
<1>3. SubmitDeps(d) \subseteq Nodes /\ d \in AllDeps(graph, Top)
  BY <1>0, <1>2, GraphFacts DEF IInv, StackInv
<1>4. CASE d \in submitted
  <2>1. stack' = stack /\ submitted' = submitted /\ left' = [left EXCEPT ![Top] = @ \ {d}]
    BY <1>4 DEF SubmitDependency, Submit
  <2>2. left' \in [Nodes -> SUBSET Nodes] /\ left'[Top] = left[Top] \ {d}
        /\ \A n \in Nodes \ {Top} : left'[n] = left[n]
    BY <2>1, <1>2 DEF IInv, TypeOK
  <2>3. TypeOK' /\ StackInv'
    BY <2>1, <2>2, <1>0, <1>1, <1>2 DEF IInv, TypeOK, StackInv, Elems
  <2>4. SubmitInv'
    BY <2>1, <2>2, <1>0, <1>1, <1>2, <1>4 DEF IInv, TypeOK, SubmitInv, Elems
  <2> QED
    BY <2>3, <2>4, <1>0 DEF IInv, RoutedIsExecuting, ExecuteInv
<1>5. CASE d \notin submitted
  <2>0. d # Top
    BY <1>5, <1>2, <1>0 DEF IInv, SubmitInv
  <2>1. stack' = <<d>> \o stack /\ submitted' = submitted \cup {d}
        /\ left' = [left EXCEPT ![Top] = @ \ {d}, ![d] = SubmitDeps(d)]
    BY <1>5 DEF SubmitDependency, Submit
  <2>2. stack' \in Seq(Nodes) /\ stack' # <<>> /\ ReadPath(stack', graph)
        /\ Elems(stack') = Elems(stack) \cup {d}
    BY <2>1, <1>0, <1>3, <1>5, PushReadPath DEF IInv, TypeOK, StackInv, SubmitInv, Top
  <2>3. left' \in [Nodes -> SUBSET Nodes] /\ left'[d] = SubmitDeps(d)
        /\ left'[Top] = left[Top] \ {d}
        /\ \A n \in Nodes \ {d, Top} : left'[n] = left[n]
    BY <2>0, <2>1, <1>2, <1>3 DEF IInv, TypeOK
  <2>4. TypeOK'
    BY <2>1, <2>2, <2>3, <1>0 DEF IInv, TypeOK
  <2>5. StackInv'
    BY <2>2, <2>3, <1>0, <1>1, <1>2 DEF IInv, TypeOK, StackInv, Elems
  <2>6. SubmitInv'
    BY <2>1, <2>2, <2>3, <1>0, <1>1, <1>2, ZenonT(60) DEF IInv, TypeOK, SubmitInv, Elems
  <2> QED
    BY <2>4, <2>5, <2>6, <1>0 DEF IInv, RoutedIsExecuting, ExecuteInv
<1> QED BY <1>4, <1>5

LEMMA SubmitReturnKeepsIInv == IInv /\ SubmitReturn => IInv'
<1> SUFFICES ASSUME IInv, SubmitReturn PROVE IInv'
  OBVIOUS
<1>0. /\ phase = "submit" /\ stack # <<>> /\ left[Top] = {} /\ stack' = Tail(stack)
      /\ UNCHANGED <<phase, graph, route, demanding, roots, left, unrouted, submitted, executed, done>>
  BY DEF SubmitReturn
<1>1. \A n : SubmitDeps(n)' = SubmitDeps(n)
  BY <1>0, SubmitDepsUnchanged
<1>2. stack' \in Seq(Nodes) /\ ReadPath(stack', graph) /\ Elems(stack') = Elems(stack) \ {Top}
  BY <1>0, PopReadPath DEF IInv, TypeOK, StackInv, Top
<1>3. Top \notin unrouted
  BY <1>0 DEF IInv, RoutedIsExecuting
<1> QED
  BY <1>0, <1>1, <1>2, <1>3 DEF IInv, TypeOK, StackInv, RoutedIsExecuting, SubmitInv, ExecuteInv, RoutedIsExecuting, Elems

LEMMA StartExecutionKeepsIInv == IInv /\ StartExecution => IInv'
<1> SUFFICES ASSUME IInv, StartExecution PROVE IInv'
  OBVIOUS
<1>0. /\ phase = "submit" /\ stack = <<>> /\ roots = {} /\ phase' = "execute"
      /\ roots' = demanding /\ executed' = {} /\ done' = {}
      /\ UNCHANGED <<graph, route, demanding, stack, left, unrouted, submitted>>
  BY DEF StartExecution
<1>1. \A n : SubmitDeps(n)' = SubmitDeps(n)
  BY <1>0, SubmitDepsUnchanged
<1>2. Elems(stack) = {} /\ Elems(stack') = {}
  <2>1. Len(stack) = 0 /\ 1..0 = {}
    BY <1>0
  <2> QED BY <2>1, <1>0 DEF Elems
<1>3. \A n \in Nodes : left[n] = {}
  BY <1>2 DEF IInv, StackInv
<1>4. TypeOK' /\ RoutedIsExecuting' /\ SubmitInv'
  BY <1>0 DEF IInv, TypeOK, RoutedIsExecuting, SubmitInv
<1>5. StackInv'
  BY <1>0, <1>1 DEF IInv, StackInv, Elems
<1>6. ExecuteInv'
  BY <1>0, <1>1, <1>2, <1>3 DEF IInv, TypeOK, SubmitInv, ExecuteInv, Elems
<1> QED
  BY <1>4, <1>5, <1>6 DEF IInv

\* execute_node_once, called for a root or by the innermost node that reads d;
\* rest is what remains to be read.
LEMMA EnterKeepsIInv ==
    ASSUME IInv, NEW d \in Nodes, NEW rest \in [Nodes -> SUBSET Nodes], Enter(d, rest),
           \A n \in Nodes : rest[n] \subseteq left[n],
           d \in submitted, stack # <<>> => d \in AllDeps(graph, Top),
           phase = "execute", roots' \subseteq roots,
           UNCHANGED <<phase, graph, route, demanding, submitted, done>>
    PROVE  IInv'
<1>1. \A n : SubmitDeps(n)' = SubmitDeps(n)
  BY SubmitDepsUnchanged
<1>2. CASE d \in executed
  <2>1. left' = rest /\ stack' = stack /\ unrouted' = unrouted /\ executed' = executed
    BY <1>2 DEF Enter
  <2> QED
    BY <2>1, <1>1 DEF IInv, TypeOK, StackInv, RoutedIsExecuting, SubmitInv, ExecuteInv, Elems
<1>3. CASE d \notin executed
  <2>0. graph.always[d] \cup graph.control[d] \subseteq SubmitDeps(d)
        /\ SubmitDeps(d) \subseteq Nodes
    BY GraphFacts DEF IInv
  <2>1. executed' = executed \cup {d} /\ stack' = <<d>> \o stack /\ unrouted' = unrouted \cup {d}
        /\ left' = [rest EXCEPT ![d] = graph.always[d] \cup graph.control[d]]
    BY <1>3 DEF Enter
  <2>2. d \notin Elems(stack)
    BY <1>3 DEF IInv, ExecuteInv
  <2>3. stack' \in Seq(Nodes) /\ stack' # <<>> /\ ReadPath(stack', graph)
        /\ Elems(stack') = Elems(stack) \cup {d}
    BY <2>1, <2>2, PushReadPath DEF IInv, TypeOK, StackInv, Top
  <2>4. left' \in [Nodes -> SUBSET Nodes] /\ left'[d] \subseteq SubmitDeps(d)
        /\ \A n \in Nodes \ {d} : left'[n] \subseteq left[n]
    BY <2>0, <2>1
  <2>5. TypeOK' /\ RoutedIsExecuting' /\ SubmitInv'
    BY <2>1, <2>3, <2>4 DEF IInv, TypeOK, RoutedIsExecuting, SubmitInv
  <2>6. StackInv'
    BY <2>1, <2>3, <2>4, <1>1 DEF IInv, TypeOK, StackInv, Elems
  <2>7. ExecuteInv'
    <3>1. d \notin done
      BY <1>3 DEF IInv, TypeOK
    <3> QED BY <2>1, <2>3, <3>1, <1>1 DEF IInv, ExecuteInv, Elems
  <2> QED
    BY <2>5, <2>6, <2>7 DEF IInv
<1> QED BY <1>2, <1>3

LEMMA ExecuteRootKeepsIInv == ASSUME NEW d \in Nodes PROVE IInv /\ ExecuteRoot(d) => IInv'
<1> SUFFICES ASSUME IInv, ExecuteRoot(d) PROVE IInv'
  OBVIOUS
<1>1. d \in submitted
  BY DEF ExecuteRoot, IInv, TypeOK, ExecuteInv
<1>2. left \in [Nodes -> SUBSET Nodes]
  BY DEF IInv, TypeOK
<1> QED
  BY <1>1, <1>2, EnterKeepsIInv DEF ExecuteRoot

LEMMA ResolveKeepsIInv == ASSUME NEW d \in Nodes PROVE IInv /\ Resolve(d) => IInv'
<1> SUFFICES ASSUME IInv, Resolve(d) PROVE IInv'
  OBVIOUS
<1> DEFINE rest == [left EXCEPT ![Top] = @ \ {d}]
<1>0. /\ phase = "execute" /\ stack # <<>> /\ d \in left[Top] /\ Enter(d, rest)
      /\ UNCHANGED <<phase, graph, route, demanding, roots, submitted, done>>
  BY DEF Resolve
<1>1. Top \in Nodes /\ Top \in Elems(stack)
  BY <1>0, PopReadPath DEF IInv, TypeOK, StackInv, Top
<1>2. Top \in submitted
  BY <1>0, <1>1 DEF IInv, ExecuteInv
<1>3. d \in SubmitDeps(Top)
  BY <1>0, <1>1 DEF IInv, StackInv
<1>4. d \in submitted /\ d \in AllDeps(graph, Top)
  BY <1>0, <1>1, <1>2, <1>3, GraphFacts DEF IInv, ExecuteInv
<1>5. rest \in [Nodes -> SUBSET Nodes] /\ \A n \in Nodes : rest[n] \subseteq left[n]
  BY <1>1 DEF IInv, TypeOK
<1> QED
  BY <1>0, <1>4, <1>5, EnterKeepsIInv

LEMMA ResolveRouteKeepsIInv == IInv /\ ResolveRoute => IInv'
<1> SUFFICES ASSUME IInv, ResolveRoute PROVE IInv'
  OBVIOUS
<1>0. /\ phase = "execute" /\ stack # <<>> /\ unrouted' = unrouted \ {Top}
      /\ UNCHANGED <<phase, graph, route, demanding, roots, stack, submitted, executed, done>>
  BY DEF ResolveRoute
<1>1. PICK branches \in IF graph.control[Top] = {} THEN {route[Top]} ELSE RoutesOf[Top] :
         left' = [left EXCEPT ![Top] = Chosen(Top, branches)]
  BY DEF ResolveRoute
<1>2. Top \in Nodes /\ Top \in Elems(stack)
  BY <1>0, PopReadPath DEF IInv, TypeOK, StackInv, Top
<1>3. Chosen(Top, branches) \subseteq SubmitDeps(Top) /\ SubmitDeps(Top) \subseteq Nodes
  BY <1>2, RoutedDepsAreSubmitDeps, GraphFacts DEF IInv
<1>4. left' \in [Nodes -> SUBSET Nodes] /\ left'[Top] \subseteq SubmitDeps(Top)
      /\ \A n \in Nodes \ {Top} : left'[n] = left[n]
  BY <1>1, <1>2, <1>3 DEF IInv, TypeOK
<1>5. \A n : SubmitDeps(n)' = SubmitDeps(n)
  BY <1>0, SubmitDepsUnchanged
<1>6. StackInv'
  BY <1>0, <1>2, <1>4, <1>5 DEF IInv, StackInv, Elems
<1> QED
  BY <1>0, <1>4, <1>5, <1>6 DEF IInv, TypeOK, RoutedIsExecuting, SubmitInv, ExecuteInv, Elems

LEMMA ExecuteReturnKeepsIInv == IInv /\ ExecuteReturn => IInv'
<1> SUFFICES ASSUME IInv, ExecuteReturn PROVE IInv'
  OBVIOUS
<1>0. /\ phase = "execute" /\ stack # <<>> /\ stack' = Tail(stack)
      /\ left' = [left EXCEPT ![Top] = {}] /\ unrouted' = unrouted \ {Top}
      /\ done' = done \cup {Top}
      /\ UNCHANGED <<phase, graph, route, demanding, roots, submitted, executed>>
  BY DEF ExecuteReturn
<1>1. \A n : SubmitDeps(n)' = SubmitDeps(n)
  BY <1>0, SubmitDepsUnchanged
<1>2. /\ stack' \in Seq(Nodes) /\ ReadPath(stack', graph) /\ Elems(stack') = Elems(stack) \ {Top}
      /\ Top \in Elems(stack) /\ Top \in Nodes
  BY <1>0, PopReadPath DEF IInv, TypeOK, StackInv, Top
<1>3. left' \in [Nodes -> SUBSET Nodes] /\ left'[Top] = {}
      /\ \A n \in Nodes \ {Top} : left'[n] = left[n]
  BY <1>0, <1>2 DEF IInv, TypeOK
<1>4. ExecuteInv'
  BY <1>0, <1>1, <1>2 DEF IInv, ExecuteInv, Elems
<1>5. StackInv'
  BY <1>0, <1>1, <1>2, <1>3 DEF IInv, StackInv, Elems
<1>6. TypeOK'
  BY <1>0, <1>2, <1>3 DEF IInv, TypeOK, ExecuteInv
<1> QED
  BY <1>0, <1>4, <1>5, <1>6 DEF IInv, RoutedIsExecuting, SubmitInv

LEMMA CompleteAllKeepsIInv == IInv /\ CompleteAll => IInv'
<1> SUFFICES ASSUME IInv, CompleteAll PROVE IInv'
  OBVIOUS
<1>0. /\ phase = "execute" /\ stack = <<>> /\ phase' = "idle"
      /\ UNCHANGED <<graph, route, demanding, roots, stack, left, unrouted, submitted, executed, done>>
  BY DEF CompleteAll
<1>1. Elems(stack) = {}
  <2>1. Len(stack) = 0 /\ 1..0 = {}
    BY <1>0
  <2> QED BY <2>1 DEF Elems
<1>2. unrouted = {}
  BY <1>1 DEF IInv, TypeOK, StackInv
<1>3. \A n : SubmitDeps(n)' = SubmitDeps(n)
  BY <1>0, SubmitDepsUnchanged
<1> QED
  BY <1>0, <1>2, <1>3 DEF IInv, TypeOK, StackInv, RoutedIsExecuting, SubmitInv, ExecuteInv, Elems

LEMMA NextKeepsIInv == IInv /\ [Next]_vars => IInv'
<1> SUFFICES ASSUME IInv, [Next]_vars PROVE IInv'
  OBVIOUS
<1>1. CASE UNCHANGED vars
  <2>1. \A n : SubmitDeps(n)' = SubmitDeps(n)
    BY <1>1, SubmitDepsUnchanged DEF vars
  <2> QED
    BY <1>1, <2>1 DEF vars, IInv, TypeOK, StackInv, RoutedIsExecuting, SubmitInv, ExecuteInv, Elems
<1> QED
  BY <1>1, PrepareAllKeepsIInv, SubmitRootKeepsIInv, SubmitDependencyKeepsIInv, SubmitReturnKeepsIInv,
     StartExecutionKeepsIInv, ExecuteRootKeepsIInv, ResolveKeepsIInv, ResolveRouteKeepsIInv,
     ExecuteReturnKeepsIInv, CompleteAllKeepsIInv DEF Next

-----------------------------------------------------------------------------
(* Theorems *)

\* The inductive invariant holds in every reachable state of the two walks.
THEOREM Invariance == Spec => []IInv
BY InitIInv, NextKeepsIInv, PTL DEF Spec

\* The frame's bookkeeping keeps its types.
THEOREM TypeCorrect == Spec => []TypeOK
<1>1. IInv => TypeOK
  BY DEF IInv
<1> QED
  BY <1>1, Invariance, PTL

\* Whatever the wiring and whatever a control value turns out to be, a node is
\* only executed in a frame in which it was submitted (frame_execution.cpp,
\* switch.cpp, mix_tex_2.cpp).
THEOREM SubmissionCoversExecution == Spec => []ExecutedWereSubmitted
<1>1. IInv => ExecutedWereSubmitted
  BY DEF IInv, ExecuteInv, ExecutedWereSubmitted
<1> QED
  BY <1>1, Invariance, PTL

\* No node reads from one that is still executing (execute_node_once marks a
\* node before it executes it), and none is executed twice in a frame.
THEOREM ReadsSeeThisFrame == Spec => [](ReadsAreComplete /\ ExecutedOnce)
<1>1. IInv => ReadsAreComplete
  <2> SUFFICES ASSUME IInv, phase = "execute", stack # <<>>,
                      NEW d \in AllDeps(graph, Top), d \in executed
               PROVE  d \in done
    BY DEF ReadsAreComplete
  <2>1. graph \in GraphType /\ AcyclicGraph(graph)
    BY FrameConstants DEF IInv, TypeOK
  <2>2. d \notin Elems(stack)
    BY <2>1, PathEndsReadNoneOfIt DEF IInv, TypeOK, StackInv, Top
  <2> QED
    BY <2>2 DEF IInv, ExecuteInv
<1>2. IInv => ExecutedOnce
  BY DEF IInv, ExecuteInv, ExecutedOnce, Elems
<1> QED
  BY <1>1, <1>2, Invariance, PTL

\* However many nodes read it and whatever route control values pick, a node is
\* executed once in a frame (execute_node_once).
THEOREM NodesExecuteOnce == Spec => []NodesRunOnce
<1>1. IInv => NodesRunOnce
  BY DEF IInv, ExecuteInv, ExecutedOnce, Elems, NodesRunOnce
<1> QED
  BY <1>1, Invariance, PTL

=============================================================================
