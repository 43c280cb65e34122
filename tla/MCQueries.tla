------------------------------ MODULE MCQueries ------------------------------
(***************************************************************************)
(* The questions that are pure algorithms over what an index or a scan     *)
(* holds, for TLC: a behaviour answers one of them, for every small input, *)
(* while the others are about nothing (no graph, no import, no symbol).    *)
(***************************************************************************)
EXTENDS Impact, ImportGraph, Callers, Outline, Unused

VARIABLE question

allVars == <<question, graphVars, importsVars, callersVars, outlineVars, unusedVars>>

-----------------------------------------------------------------------------
(* repo_cycles, repo_topology, repo_impact.                                *)

FourNodes == 1..4
AllGraphs == [Nodes -> SUBSET Nodes]
NoLoops == {g \in AllGraphs : \A v \in Nodes : v \notin g[v]}
OnThree == {g \in AllGraphs : g[4] = {} /\ \A v \in Nodes : 4 \notin g[v]}
SmallGraphs == NoLoops \cup OnThree
NoEdges == [v \in Nodes |-> {}]

-----------------------------------------------------------------------------
(* The import graph.  Files of one directory: a specifier resolves alike   *)
(* from each.                                                              *)

OneDirectory ==
  {r \in [ImportFiles \X Specs -> ImportFiles \cup {Unresolved}] :
     \A s \in Specs : \A f, g \in ImportFiles : r[<<f, s>>] = r[<<g, s>>]}
AnyImports == [ImportFiles -> SUBSET Specs]
NoImports == [f \in ImportFiles |-> {}]
Unresolving == [x \in ImportFiles \X Specs |-> Unresolved]

-----------------------------------------------------------------------------
(* Callers: a function and a method with names of their own or one they    *)
(* share, beside each other, one in the other, or starting on one line, a  *)
(* variable that may have the name of one, and two calls, of the target or *)
(* of another name.  The first callee may start with, or be the start of,  *)
(* another captured text, or be a declared name.                           *)

FunctionNames == 0..2

P(row, col) == [row |-> row, col |-> col]
R(start, end) == [start |-> start, end |-> end]

Whole == R(P(0, 0), P(3, 9))
Apart == <<R(P(0, 0), P(1, 9)), R(P(2, 0), P(3, 9))>>
InTheOther == R(P(1, 0), P(2, 9))
OnOneLine == <<Whole, R(P(0, 5), P(2, 9))>>
Layouts == {Apart, <<Whole, InTheOther>>, <<InTheOther, Whole>>, OnOneLine}

FunctionsIn(layouts) ==
  {<<[name |-> m, kind |-> "functions", range |-> l[1]], [name |-> n, kind |-> "methods", range |-> l[2]]>> :
     m, n \in FunctionNames, l \in layouts}

Variables == {{}} \cup {{[name |-> n, kind |-> "variables", line |-> 3]} : n \in 1..2}

\* In the first function or the outer one, in the same or the inner one, in
\* the second or the inner one, in none.
CallPlaces == <<P(0, 3), P(1, 3), P(2, 3), P(5, 0)>>

CallOf(place, callee) == [at |-> CallPlaces[place], callee |-> callee]
CaptureOf(call) == [at |-> call.at, text |-> call.callee]
OtherCapture(call) == [at |-> call.at, text |-> 3 - call.callee]

TwoCalls ==
  {<<CallOf(x[1], a), CallOf(x[2], b)>> : x \in {y \in (1..4) \X (1..4) : y[1] < y[2]}, a, b \in 1..2}

\* Every callee is captured; the first one among others, or at a declaration.
FileOf(functions, others, calls, around, declared) ==
  [functions |-> functions, others |-> others, calls |-> calls,
   captures |-> around \o <<CaptureOf(calls[1]), CaptureOf(calls[2])>>, declared |-> declared]

Nested(call) == <<OtherCapture(call)>>

AnyCode ==
  {FileOf(fs, o, c, <<>>, {}) : fs \in FunctionsIn(Layouts), o \in Variables, c \in TwoCalls}
    \cup UNION {{FileOf(fs, {}, c, Nested(c[1]), {}), FileOf(fs, {}, c, <<>>, {c[1].at})} :
                 fs \in FunctionsIn(Layouts), c \in TwoCalls}

\* The second file calls the target twice: from a caller with a name and one
\* without, from two functions of one name, from two callers.
PlainNames == {<<0, 1>>, <<1, 1>>, <<1, 2>>}
PlainCode ==
  {FileOf(fs, {}, <<CallOf(1, 1), CallOf(3, 1)>>, <<>>, {}) :
     fs \in {gs \in FunctionsIn({Apart}) : <<gs[1].name, gs[2].name>> \in PlainNames}}

MCCodes == {<<a, b>> : a \in AnyCode, b \in PlainCode}
NoCode ==
  [f \in Files |-> [functions |-> <<>>, others |-> {}, calls |-> <<>>, captures |-> <<>>, declared |-> {}]]

-----------------------------------------------------------------------------
(* Unused symbols: two words in one file, or one and one, of two names, of *)
(* which one is in the other.                                              *)

MCInside == {<<1, 1>>, <<2, 2>>, <<1, 2>>}
Word == [name: 1..2, role: Roles]
UpTo(n) == UNION {[1..k -> Word] : k \in 0..n}
TwoTexts == {<<a, b>> : a \in UpTo(2), b \in UpTo(1)}
NoText == [f \in Sources |-> <<>>]
TwoSources == 1..2

-----------------------------------------------------------------------------
(* The outline: symbols that differ in kind, in name or in nothing.        *)

Label(kind, name, copy) == [kind |-> kind, name |-> name, copy |-> copy]
MCLabels == {Label(1, 1, 1), Label(1, 1, 2), Label(1, 2, 1), Label(2, 1, 1)}

-----------------------------------------------------------------------------
QueriesInit ==
  \/ /\ question = "graph"
     /\ GraphInit(SmallGraphs)
     /\ ImportsInit({NoImports}, {Unresolving}) /\ CallersInit({NoCode})
     /\ OutlineInit({{}}) /\ UnusedInit({NoText})
  \/ /\ question = "imports"
     /\ GraphInit({NoEdges}) /\ tool = "components"
     /\ ImportsInit(AnyImports, Resolutions) /\ CallersInit({NoCode})
     /\ OutlineInit({{}}) /\ UnusedInit({NoText})
  \/ /\ question = "callers"
     /\ GraphInit({NoEdges}) /\ tool = "components"
     /\ ImportsInit({NoImports}, {Unresolving}) /\ CallersInit(Codes)
     /\ OutlineInit({{}}) /\ UnusedInit({NoText})
  \/ /\ question = "outline"
     /\ GraphInit({NoEdges}) /\ tool = "components"
     /\ ImportsInit({NoImports}, {Unresolving}) /\ CallersInit({NoCode})
     /\ OutlineInit(SymbolSets) /\ UnusedInit({NoText})
  \/ /\ question = "unused"
     /\ GraphInit({NoEdges}) /\ tool = "components"
     /\ ImportsInit({NoImports}, {Unresolving}) /\ CallersInit({NoCode})
     /\ OutlineInit({{}}) /\ UnusedInit(Texts)

QueriesNext ==
  \/ /\ question = "graph" /\ GraphNext
     /\ UNCHANGED <<question, importsVars, callersVars, outlineVars, unusedVars>>
  \/ /\ question = "imports" /\ ImportsNext
     /\ UNCHANGED <<question, graphVars, callersVars, outlineVars, unusedVars>>
  \/ /\ question = "callers" /\ CallersNext
     /\ UNCHANGED <<question, graphVars, importsVars, outlineVars, unusedVars>>
  \/ /\ question = "outline" /\ OutlineNext
     /\ UNCHANGED <<question, graphVars, importsVars, callersVars, unusedVars>>
  \/ /\ question = "unused" /\ UnusedNext
     /\ UNCHANGED <<question, graphVars, importsVars, callersVars, outlineVars>>

QueriesSpec == QueriesInit /\ [][QueriesNext]_allVars
=============================================================================
