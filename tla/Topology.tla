------------------------------ MODULE Topology ------------------------------
(***************************************************************************)
(* Cycles and Topology of internal/repoindex/graph.go, on the components   *)
(* that Tarjan finds: which components are cycles, and the layers Kahn's   *)
(* algorithm puts the condensed graph in, one layer per step.  Components  *)
(* are their positions in sccs, as in the code.                            *)
(***************************************************************************)
EXTENDS Tarjan, FiniteSets

VARIABLES
  phase,      \* "tarjan", "layers", "end"
  incount,    \* incount[j]: edges from components that have no layer yet
  queue,      \* the next layer
  layers

kahn == <<phase, incount, queue, layers>>
topologyVars == <<vars, kahn>>

Components == 1..Len(sccs)

TopologyInit(graphs) ==
  /\ Init(graphs)
  /\ phase = "tarjan" /\ incount = <<>> /\ queue = {} /\ layers = <<>>

Leads(i, j) == \E v \in sccs[i] : adj[v] \cap sccs[j] # {}
OutEdges(i) == {j \in Components \ {i} : Leads(i, j)}

\* Mutant: several edges between two components count several times.
EdgesInto(j) ==
  Cardinality({e \in Nodes \X sccs[j] : e[1] \notin sccs[j] /\ e[2] \in adj[e[1]]})
ComponentsInto(j) == Cardinality({i \in Components : j \in OutEdges(i)})

StartLayers ==
  /\ Done /\ phase = "tarjan"
  /\ incount' = [j \in Components |-> ComponentsInto(j)]
  /\ queue' = {j \in Components : ComponentsInto(j) = 0}
  /\ phase' = "layers"
  /\ UNCHANGED <<vars, layers>>

FreeAfter(layer, left) == {j \in Components : left[j] = 0 /\ \E i \in layer : j \in OutEdges(i)}

NextLayer ==
  LET left == [j \in Components |-> incount[j] - Cardinality({i \in queue : j \in OutEdges(i)})]
  IN  /\ phase = "layers" /\ queue # {}
      /\ layers' = Append(layers, queue)
      /\ incount' = left
      /\ queue' = FreeAfter(queue, left)
      /\ UNCHANGED <<vars, phase>>

\* Without a layer, a graph that has nodes is one layer of all of them.
Fallback == layers = <<>> /\ Nodes # {}

EndLayers ==
  /\ phase = "layers" /\ queue = {}
  /\ phase' = "end"
  /\ UNCHANGED <<vars, incount, queue, layers>>

TopologyNext ==
  \/ Next /\ UNCHANGED kahn
  \/ StartLayers \/ NextLayer \/ EndLayers

\* Mutant: a node that calls itself is not a cycle.
LargeComponents == {i \in Components : Cardinality(sccs[i]) > 1}
Cyclic == {i \in Components :
             Cardinality(sccs[i]) > 1 \/ \E v \in sccs[i] : v \in adj[v]}
Cycles == {sccs[i] : i \in Cyclic}

-----------------------------------------------------------------------------
(* What must hold.                                                         *)

\* repo_cycles names exactly the nodes that reach themselves through an edge,
\* together with those that reach them and are reached by them.
CyclesAreTheNodesOnCycles ==
  Done => Cycles = {Component(v) : v \in {u \in Nodes : \E w \in adj[u] : u \in Reachable[w]}}

\* "layers of supernodes in topological order" (graph.go:283-284): a component
\* is after all its predecessors, and no later than that, so in every layer but
\* the first it has one in the layer before.  In the end no component is lost
\* and none repeated: the condensed graph has no cycle, Kahn's queue runs dry
\* only when all are placed, and the fallback (graph.go:334) is never taken.
LayersAreEarliest ==
  /\ phase = "end" =>
       /\ ~Fallback
       /\ \A i \in Components : \E k \in 1..Len(layers) :
            i \in layers[k] /\ \A m \in 1..Len(layers) : i \in layers[m] => m = k
  /\ \A k \in 1..Len(layers) : \A j \in layers[k] :
       /\ \A m \in k..Len(layers), i \in Components : j \in OutEdges(i) => i \notin layers[m]
       /\ k > 1 => \E i \in layers[k - 1] : j \in OutEdges(i)
=============================================================================
