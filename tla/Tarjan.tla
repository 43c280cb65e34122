------------------------------- MODULE Tarjan -------------------------------
(***************************************************************************)
(* Tarjan of internal/repoindex/graph.go, the strongly connected           *)
(* components behind repo_cycles and repo_topology, one call, visit of a   *)
(* neighbour or return of `strong` per step.  The recursion is a stack of  *)
(* frames; names are numbers, since the order of names is all that counts. *)
(*                                                                         *)
(* The graph is any graph: it is chosen at the start and never changes.    *)
(***************************************************************************)
EXTENDS Naturals, Sequences, SequencesExt

CONSTANTS Nodes, Graphs   \* Graphs: adjacencies, each in [Nodes -> SUBSET Nodes]

ASSUME TarjanAssumption ==
  /\ Nodes \subseteq Nat
  /\ Graphs \subseteq [Nodes -> SUBSET Nodes]

VARIABLES
  adj,
  index, low,   \* index[v] = 0: v was not visited (the code's counter starts at 0)
  counter,
  stack,        \* the stack of nodes without a component; onStack is membership
  frames,       \* the calls of strong: the node, and the neighbours to visit
  sccs          \* the components found, in the order they were found

vars == <<adj, index, low, counter, stack, frames, sccs>>

Least(S) == CHOOSE x \in S : \A y \in S : x <= y
Smaller(m, n) == IF m < n THEN m ELSE n

OnStack(v) == v \in ToSet(stack)
Unvisited == {v \in Nodes : index[v] = 0}

Init(graphs) ==
  /\ adj \in graphs
  /\ index = [v \in Nodes |-> 0] /\ low = [v \in Nodes |-> 0]
  /\ counter = 0
  /\ stack = <<>> /\ frames = <<>> /\ sccs = <<>>

\* The head of strong(v).
Enter(v) ==
  /\ counter' = counter + 1
  /\ index' = [index EXCEPT ![v] = counter + 1]
  /\ low' = [low EXCEPT ![v] = counter + 1]
  /\ stack' = <<v>> \o stack
  /\ frames' = <<[node |-> v, todo |-> adj[v]]>> \o frames
  /\ UNCHANGED <<adj, sccs>>

\* The loop over the sorted names.
NextRoot ==
  /\ frames = <<>> /\ Unvisited # {}
  /\ Enter(Least(Unvisited))

Top == Head(frames)
NextNeighbour == Least(Top.todo)

VisitNew ==
  /\ frames # <<>> /\ Top.todo # {}
  /\ index[NextNeighbour] = 0
  /\ Enter(NextNeighbour)

\* Mutant: low takes every visited neighbour's index, on the stack or not.
Visited(w) == index[w] # 0
Counts(w) == OnStack(w)

VisitOld ==
  LET v == Top.node
      w == NextNeighbour
  IN  /\ frames # <<>> /\ Top.todo # {}
      /\ index[w] # 0
      /\ low' = IF Counts(w) THEN [low EXCEPT ![v] = Smaller(@, index[w])] ELSE low
      /\ frames' = [frames EXCEPT ![1].todo = @ \ {w}]
      /\ UNCHANGED <<adj, index, counter, stack, sccs>>

Below(at) == SubSeq(stack, at + 1, Len(stack))

LowWith(v, w) == Smaller(low[v], low[w])

\* The end of strong(v): the component is popped when v is its first node,
\* and the caller goes on with v's low.
Return ==
  LET v == Top.node
      rest == Tail(frames)
      at == SelectInSeq(stack, LAMBDA w : w = v)
  IN  /\ frames # <<>> /\ Top.todo = {}
      /\ IF low[v] = index[v]
           THEN /\ sccs' = Append(sccs, ToSet(SubSeq(stack, 1, at)))
                /\ stack' = Below(at)
           ELSE UNCHANGED <<sccs, stack>>
      /\ IF rest = <<>>
           THEN frames' = <<>> /\ UNCHANGED low
           ELSE /\ frames' = [rest EXCEPT ![1].todo = @ \ {v}]
                /\ low' = [low EXCEPT ![rest[1].node] = LowWith(rest[1].node, v)]
      /\ UNCHANGED <<adj, index, counter>>

Next == NextRoot \/ VisitNew \/ VisitOld \/ Return

Done == frames = <<>> /\ Unvisited = {}

-----------------------------------------------------------------------------
(* What must hold.                                                         *)

\* The nodes reachable from v: those in every closed set that has v.
Closed(S) == \A v \in S : adj[v] \subseteq S
ClosedSets == {S \in SUBSET Nodes : Closed(S)}
Reachable == [v \in Nodes |-> {w \in Nodes : \A S \in ClosedSets : v \in S => w \in S}]

\* The component of v.
Component(v) == LET reach == Reachable IN {w \in reach[v] : v \in reach[w]}

\* Every component that is popped is a class of mutual reachability, from the
\* first on (graph.go:379-392): it is never cut short and never holds a node
\* too many, whichever neighbours were visited before.  At the end every node
\* is in one, and one only, as sccIndex in Topology takes it to be.
PoppedAreComponents ==
  /\ \A i \in 1..Len(sccs) : \A v \in sccs[i] : sccs[i] = Component(v)
  /\ Done => \A v \in Nodes : \E i \in 1..Len(sccs) :
               v \in sccs[i] /\ \A j \in 1..Len(sccs) : v \in sccs[j] => j = i
=============================================================================
