------------------------------ MODULE FindFunc ------------------------------
(***************************************************************************)
(* findFunc of internal/engine/calls.go: which function a position belongs *)
(* to.  The direct callers, the call graph and the caller of every indexed *)
(* call-site rest on it.                                                   *)
(*                                                                         *)
(* Ranges are those of syntax nodes: two of them are disjoint or nested.   *)
(* The functions of a file are grouped by kind (functions, methods,        *)
(* constructors), so their list has no order the loop could rely on.       *)
(***************************************************************************)
EXTENDS Naturals, Sequences

Point == [row: Nat, col: Nat]
Function == [name: Nat, kind: STRING, range: [start: Point, end: Point]]

Before(a, b) == a.row < b.row \/ (a.row = b.row /\ a.col < b.col)
NotAfter(a, b) == a = b \/ Before(a, b)

InRange(r, at) == NotAfter(r.start, at) /\ Before(at, r.end)
Within(inner, outer) == NotAfter(outer.start, inner.start) /\ NotAfter(inner.end, outer.end)
AreApart(r, s) == NotAfter(r.end, s.start) \/ NotAfter(s.end, r.start)

\* Mutant: the last function that holds the position wins.
LastFound(r, at, best) == InRange(r, at)

\* Only the rows of the starts are compared.
Better(r, at, best) == InRange(r, at) /\ r.start.row + 1 > best.row

\* The loop: the row is one more than the local best, which starts at -1, and
\* index 0 is the code's -1.
FindFunc(functions, at) ==
  LET best[i \in 0..Len(functions)] ==
        IF i = 0 THEN [row |-> 0, index |-> 0]
        ELSE IF Better(functions[i].range, at, best[i - 1])
          THEN [row |-> functions[i].range.start.row + 1, index |-> i]
          ELSE best[i - 1]
  IN  best[Len(functions)].index

NestOrAreApart(functions) ==
  \A i, j \in DOMAIN functions :
    \/ AreApart(functions[i].range, functions[j].range)
    \/ Within(functions[i].range, functions[j].range)
    \/ Within(functions[j].range, functions[i].range)

-----------------------------------------------------------------------------
(* What it is meant to find.                                               *)

Holding(functions, at) == {n \in DOMAIN functions : InRange(functions[n].range, at)}

IsInnermost(functions, at, n) ==
  IF Holding(functions, at) = {} THEN n = 0
  ELSE /\ n \in Holding(functions, at)
       /\ \A m \in Holding(functions, at) : Within(functions[n].range, functions[m].range)

StartOnTheirOwnLines(functions, at) ==
  \A m, n \in Holding(functions, at) :
    m # n => functions[m].range.start.row # functions[n].range.start.row
=============================================================================
