------------------------------- MODULE Impact -------------------------------
(***************************************************************************)
(* The three questions tools.go asks of one adjacency of graph.go:         *)
(* repo_cycles and repo_topology, which start with Tarjan (Topology.tla),  *)
(* and repo_impact, whose search is Impact: breadth first from the target, *)
(* one node of the current level per step, then the sort and the cut of    *)
(* one page.                                                               *)
(***************************************************************************)
EXTENDS Topology

CONSTANTS
  Targets, Depths, Limits, Offsets,
  NotSeen

ASSUME ImpactAssumption ==
  /\ IsFiniteSet(Nodes) /\ Targets \subseteq Nodes /\ Targets # {}
  /\ Depths \subseteq Nat /\ 0 \in Depths /\ Limits \subseteq Nat /\ Offsets \subseteq Nat
  /\ NotSeen \notin Nat

VARIABLES
  tool,                  \* the question: "components" or "impact"
  target, depth,         \* the arguments of the search
  distance,              \* the local d
  level, next,           \* the level it expands, and the one it collects
  seen,
  all,                   \* the nodes found
  answer                 \* the page that is returned

search == <<distance, level, next, seen, all>>
impact == <<target, depth, search, answer>>
graphVars == <<topologyVars, tool, impact>>

NoAnswer == [nodes |-> <<>>, limit |-> 0, offset |-> 0, truncated |-> FALSE, given |-> FALSE]

ImpactInit ==
  /\ target \in Targets /\ depth \in Depths
  /\ distance = 1
  /\ level = <<target>> /\ next = <<>>
  /\ seen = [v \in Nodes |-> IF v = target THEN 0 ELSE NotSeen]
  /\ all = <<>>
  /\ answer = NoAnswer

DepthReached == depth > 0 /\ distance > depth

Searching == (level # <<>> \/ next # <<>>) /\ ~DepthReached

Found(v) == {w \in adj[v] : seen[w] = NotSeen}

\* The names of S in their order.
Ascending(S) ==
  [i \in 1..Cardinality(S) |-> CHOOSE v \in S : Cardinality({w \in S : w < v}) = i - 1]

Expand ==
  LET v == Head(level)
      found == Ascending(Found(v))
  IN  /\ Searching /\ level # <<>>
      /\ level' = Tail(level)
      /\ next' = next \o found
      /\ seen' = [w \in Nodes |-> IF w \in Found(v) THEN distance ELSE seen[w]]
      /\ all' = all \o [i \in DOMAIN found |-> [name |-> found[i], distance |-> distance]]
      /\ UNCHANGED <<target, depth, distance, answer>>

NextLevel ==
  /\ Searching /\ level = <<>>
  /\ level' = next /\ next' = <<>>
  /\ distance' = distance + 1
  /\ UNCHANGED <<target, depth, seen, all, answer>>

\* Mutant: sorted by name alone.
ByName(m, n) == m.name < n.name
Nearer(m, n) == m.distance < n.distance \/ (m.distance = n.distance /\ m.name < n.name)

\* all in that order: at i is a node that fewer than i others are before, and
\* that at least i, itself one of them, are not behind.
Sorted ==
  [i \in DOMAIN all |-> CHOOSE n \in ToSet(all) :
     /\ Cardinality({j \in DOMAIN all : Nearer(all[j], n)}) < i
     /\ Cardinality({j \in DOMAIN all : ~Nearer(n, all[j])}) >= i]

\* A limit of 0 is 512, more than the bounds of any run.
Page(limit, offset) ==
  LET size == IF limit = 0 THEN 512 ELSE limit
      from == Smaller(offset, Len(all))
      to == Smaller(from + size, Len(all))
  IN  [nodes |-> SubSeq(Sorted, from + 1, to), limit |-> size, offset |-> offset,
       truncated |-> from + size < Len(all), given |-> TRUE]

Reply(limit, offset) ==
  /\ ~Searching /\ ~answer.given
  /\ answer' = Page(limit, offset)
  /\ UNCHANGED <<target, depth, search>>

ImpactNext == Expand \/ NextLevel \/ (\E limit \in Limits, offset \in Offsets : Reply(limit, offset))

-----------------------------------------------------------------------------
(* A question about a graph.  The handlers share nothing but the graph.    *)

GraphInit(graphs) ==
  /\ TopologyInit(graphs) /\ ImpactInit
  /\ tool \in {"components", "impact"}
  /\ tool = "components" => target = Least(Targets) /\ depth = 0

GraphNext ==
  \/ tool = "components" /\ TopologyNext /\ UNCHANGED <<tool, impact>>
  \/ tool = "impact" /\ ImpactNext /\ UNCHANGED <<tool, topologyVars>>

GraphSpec == GraphInit(Graphs) /\ [][GraphNext]_graphVars

-----------------------------------------------------------------------------
(* What must hold.                                                         *)

\* Ball[k]: the nodes that k edges or fewer lead to.
Ball == LET ball[k \in 0..Cardinality(Nodes)] ==
              IF k = 0 THEN {target}
              ELSE ball[k - 1] \cup UNION {adj[v] : v \in ball[k - 1]}
        IN  ball

DistanceTo(v) == CHOOSE k \in DOMAIN Ball : v \in Ball[k] /\ (k > 0 => v \notin Ball[k - 1])

\* The order of the answer.
Nearest(m, n) == m.distance < n.distance \/ (m.distance = n.distance /\ m.name < n.name)

\* Who depends on the target, at which distance, within which depth.
Dependants ==
  LET ball == Ball
  IN  {[name |-> v, distance |-> DistanceTo(v)] : v \in
         ball[IF depth = 0 \/ depth > Cardinality(Nodes) THEN Cardinality(Nodes) ELSE depth] \ {target}}

\* The search finds every dependant within the depth, each once and at its
\* shortest distance, on any graph, cycles through the target included, and
\* "offset pages into the deterministic BFS order" (graph.go:205): a page has
\* the dependants whose number of nearer ones is one of its positions, and is
\* truncated exactly when dependants are left.  Depth 0 does not bound the
\* search: so says the tool (tools.go:101: "depth 0 = transitive"), not the
\* comment of Impact (graph.go:204-205: "depth 0 = direct only").
ImpactIsExact ==
  answer.given =>
    LET Rank(n) == Cardinality({m \in Dependants : Nearest(m, n)})
        end == answer.offset + answer.limit
    IN  /\ ToSet(answer.nodes) = {n \in Dependants : Rank(n) \in answer.offset..end - 1}
        /\ Len(answer.nodes) = Cardinality(ToSet(answer.nodes))
        /\ answer.truncated <=> end < Cardinality(Dependants)
=============================================================================
