------------------------------ MODULE Outline ------------------------------
(***************************************************************************)
(* OutlineFromSymbols of internal/engine/rank_outline.go: the tree of      *)
(* outline_file, built from the symbols of a file by the containment of    *)
(* their ranges, one symbol per step.                                      *)
(*                                                                         *)
(* A position is a number: the code compares rows, then columns.  The      *)
(* ranges are those of syntax nodes, disjoint or nested.  A node can be    *)
(* captured by the queries of several kinds, by one query once per name    *)
(* (Go: a, b := f()), or twice with one name (_, _ := f()).  Symbols with  *)
(* neither name nor text are skipped before the sort and are not in        *)
(* `symbols`.                                                              *)
(***************************************************************************)
EXTENDS Naturals, Sequences

CONSTANTS
  Positions,
  Labels,         \* the kind and the name of a symbol, numbers in the order of
                  \* the strings, and of symbols that are alike in everything
                  \* the place the sort, which is free there, leaves it in
  MaxSymbols,     \* bound
  Root            \* the parent of a node at the top

ASSUME OutlineAssumption ==
  /\ Positions \subseteq Nat /\ Labels \subseteq [kind: Nat, name: Nat, copy: Nat]
  /\ MaxSymbols \in Nat
  /\ Root \notin Nat

VARIABLES
  symbols,     \* the argument
  flat,        \* what the loop over the sorted symbols has not met
  open,        \* the local stack: the nodes that are open, the last one first
  parent       \* parent[s]: the node s was put under

outlineVars == <<symbols, flat, open, parent>>

Symbols == {s \in [from: Positions, to: Positions, label: Labels] : s.from < s.to}
Holds(o, s) == o.from <= s.from /\ s.to <= o.to
Disjoint(s, t) == s.to <= t.from \/ t.to <= s.from
NestedOrDisjoint(S) == \A s, t \in S : Disjoint(s, t) \/ Holds(s, t) \/ Holds(t, s)
SymbolSets ==
  {S \in {{}} \cup {{f[i] : i \in 1..MaxSymbols} : f \in [1..MaxSymbols -> Symbols]} :
     NestedOrDisjoint(S)}

\* The order of symbols with one range.
Sorts(k, l) ==
  \/ k.kind < l.kind
  \/ k.kind = l.kind /\ k.name < l.name
  \/ k.kind = l.kind /\ k.name = l.name /\ k.copy < l.copy

\* Mutant: of two symbols that start together the short one comes first.
ShortFirst(s, t) ==
  s.from < t.from \/ (s.from = t.from /\ (s.to < t.to \/ (s.to = t.to /\ Sorts(s.label, t.label))))
Precedes(s, t) ==
  \/ s.from < t.from
  \/ s.from = t.from /\ s.to > t.to
  \/ s.from = t.from /\ s.to = t.to /\ Sorts(s.label, t.label)

OutlineInit(symbolSets) ==
  /\ symbols \in symbolSets
  /\ flat = symbols
  /\ open = <<>>
  /\ parent = [s \in symbols |-> Root]

\* The first open node that holds s; everything before it is closed.
FirstAround(s) ==
  CHOOSE i \in DOMAIN open : Holds(open[i], s) /\ \A j \in 1..i - 1 : ~Holds(open[j], s)
StillOpen(s) ==
  IF \E i \in DOMAIN open : Holds(open[i], s) THEN SubSeq(open, FirstAround(s), Len(open)) ELSE <<>>

\* The next symbol of the loop.
Place(s) ==
  /\ \A t \in flat \ {s} : Precedes(s, t)
  /\ parent' = [parent EXCEPT ![s] = IF StillOpen(s) = <<>> THEN Root ELSE Head(StillOpen(s))]
  /\ open' = <<s>> \o StillOpen(s)
  /\ flat' = flat \ {s}
  /\ UNCHANGED symbols

OutlineNext == (\E s \in flat : Place(s)) \/ (flat = {} /\ UNCHANGED outlineVars)

OutlineSpec == OutlineInit(SymbolSets) /\ [][OutlineNext]_outlineVars

-----------------------------------------------------------------------------
(* What must hold.                                                         *)

\* The symbols around s; of two with one range, the one that sorts first is
\* around the other.
Around(s) == {o \in symbols \ {s} : Holds(o, s) /\ (Holds(s, o) => Sorts(o.label, s.label))}

\* Every symbol is put under the innermost symbol around it, and at the top
\* only when there is none, whatever was opened and closed before it: one
\* stack of open nodes is enough.
ParentIsInnermost ==
  \A s \in symbols \ flat :
    IF Around(s) = {} THEN parent[s] = Root
    ELSE parent[s] \in Around(s) /\ \A o \in Around(s) \ {parent[s]} : o \in Around(parent[s])
=============================================================================
