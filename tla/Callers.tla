------------------------------- MODULE Callers -------------------------------
(***************************************************************************)
(* Who calls a function: the two ways find_usages answers mode "callers".  *)
(*                                                                         *)
(* Without an index Engine.Callers visits every call of every file, and    *)
(* counts under the function that contains it each one whose callee has    *)
(* the text of the target.                                                 *)
(*                                                                         *)
(* An index has no calls.  It has the captures of the identifier query,    *)
(* and one that starts where a callee starts is a call-site, whatever its  *)
(* own text is: Rust's Foo::new() makes two of them, "Foo::new" and "Foo". *)
(* buildCallGraph counts the call-sites into edges, and                    *)
(* RepoService.callers dresses the edges into the target with the kind and *)
(* the line of a symbol that has the caller's name.                        *)
(*                                                                         *)
(* Both flows ask findFunc for the function around a position.  Texts are  *)
(* numbers for their order; 0 is the empty text of an identifier that the  *)
(* parser had to invent.                                                   *)
(***************************************************************************)
EXTENDS FindFunc, FiniteSets

CONSTANTS
  Files,      \* paths, in their order
  Codes,      \* what the files may hold: functions, other symbols, calls,
              \* captured identifiers, and the starts of declared names
  Target,     \* the name whose callers are asked for
  Limit       \* limit of the query; 0 for none

OtherSymbol == [name: Nat, kind: STRING, line: Nat]
CallSite == [at: Point, callee: Nat]
Capture == [at: Point, text: Nat]

FileCode ==
  [functions: Seq(Function), others: SUBSET OtherSymbol, calls: Seq(CallSite),
   captures: Seq(Capture), declared: SUBSET Point]

\* Of the queries of the languages: callees start apart, every callee is
\* captured as an identifier too, and no node is captured twice.
CalleesAreCaptured(file) ==
  /\ \A i, j \in DOMAIN file.calls : file.calls[i].at = file.calls[j].at => i = j
  /\ \A i \in DOMAIN file.calls : \E k \in DOMAIN file.captures :
       file.captures[k] = [at |-> file.calls[i].at, text |-> file.calls[i].callee]
  /\ \A k, l \in DOMAIN file.captures : file.captures[k] = file.captures[l] => k = l

ASSUME CallersAssumption ==
  /\ Files \subseteq Nat /\ IsFiniteSet(Files) /\ Target \in Nat \ {0} /\ Limit \in Nat
  /\ Codes \subseteq [Files -> FileCode]
  /\ \A c \in Codes, f \in Files :
       NestOrAreApart(c[f].functions) /\ IsFiniteSet(c[f].others) /\ CalleesAreCaptured(c[f])

VARIABLES
  code,        \* code[f]: what f holds
  indexed,     \* indexed[f]: how many usages of f are in the graph
  edges,       \* CallGraph: the call edges with their counts
  visited,     \* visited[f]: how many calls of f processFileCallers has seen
  perCaller,   \* perCaller[f]: its callers so far
  callers      \* the callers of the files that are finished

callersVars == <<code, indexed, edges, visited, perCaller, callers>>

CallersInit(codes) ==
  /\ code \in codes
  /\ indexed = [f \in Files |-> 0]
  /\ edges = {}
  /\ visited = [f \in Files |-> 0]
  /\ perCaller = [f \in Files |-> {}]
  /\ callers = {}

Calls(f) == code[f].calls
Captures(f) == code[f].captures

\* The function around a call or a capture, 0 for none.
In(f, node) == FindFunc(code[f].functions, node.at)
Calling(f, node) == code[f].functions[In(f, node)]
Line(function) == function.range.start.row

\* The entries with one more call: of the entry with the same key, or of the
\* fresh one when none has it.
Counted(entries, same, fresh) ==
  (entries \ same) \cup (IF same = {} THEN {fresh} ELSE {[e EXCEPT !.count = @ + 1] : e \in same})

-----------------------------------------------------------------------------
(* The index.                                                              *)

SameEdgeAnywhere(f, caller, callee) ==   \* mutant
  {e \in edges : e.caller = caller /\ e.callee = callee}

SameEdge(f, caller, callee) ==
  {e \in edges : e.file = f /\ e.caller = caller /\ e.callee = callee}

\* callPositions: where a callee starts that is inside a function.
CallPositions(f) ==
  {Calls(f)[i].at : i \in {j \in DOMAIN Calls(f) : In(f, Calls(f)[j]) # 0}}

\* A capture where a name is declared is a definition, call or not, and any
\* other one away from the callees is a plain reference.
IsCallSite(f, capture) == capture.at \in CallPositions(f) \ code[f].declared

\* A caller or a callee without a name makes no edge.
IsEdge(f, capture) ==
  IsCallSite(f, capture) /\ Calling(f, capture).name # 0 /\ capture.text # 0

\* The next usage of f: what classifyUsagesTree made of a capture, counted by
\* buildCallGraph.
AddUsage(f) ==
  /\ indexed[f] < Len(Captures(f))
  /\ indexed' = [indexed EXCEPT ![f] = @ + 1]
  /\ LET capture == Captures(f)[indexed[f] + 1]
         caller == Calling(f, capture).name
     IN \/ IsEdge(f, capture)
           /\ edges' = Counted(edges, SameEdge(f, caller, capture.text),
                               [file |-> f, caller |-> caller, callee |-> capture.text, count |-> 1])
        \/ ~IsEdge(f, capture) /\ UNCHANGED edges
  /\ UNCHANGED <<code, visited, perCaller, callers>>

GraphBuilt == \A f \in Files : indexed[f] = Len(Captures(f))

ByCallee(n) == {e \in edges : e.callee = n}

-----------------------------------------------------------------------------
(* The direct walk.  Nothing it does depends on the graph: taking it after *)
(* the graph is built leaves out no behaviour of either.                   *)

FirstFunction(f, call) ==   \* mutant
  [file |-> f, name |-> Calling(f, call).name,
   kind |-> code[f].functions[1].kind, line |-> Line(code[f].functions[1]), count |-> 1]

\* A caller keeps the kind and the line of the function its first call is in.
FirstCall(f, call) ==
  [file |-> f, name |-> Calling(f, call).name,
   kind |-> Calling(f, call).kind, line |-> Line(Calling(f, call)), count |-> 1]

\* processFileCallers at the next call of f.
VisitCall(f) ==
  /\ GraphBuilt /\ visited[f] < Len(Calls(f))
  /\ visited' = [visited EXCEPT ![f] = @ + 1]
  /\ LET call == Calls(f)[visited[f] + 1]
         found == call.callee = Target /\ In(f, call) # 0
     IN \/ found
           /\ perCaller' = [perCaller EXCEPT ![f] =
                 Counted(@, {c \in @ : c.name = Calling(f, call).name}, FirstCall(f, call))]
        \/ ~found /\ UNCHANGED perCaller
  /\ UNCHANGED <<code, indexed, edges, callers>>

\* aggregateCaller for the callers of a finished file, under the mutex.
Aggregate(f) ==
  /\ GraphBuilt /\ visited[f] = Len(Calls(f)) /\ perCaller[f] # {}
  /\ callers' = callers \cup perCaller[f]
  /\ perCaller' = [perCaller EXCEPT ![f] = {}]
  /\ UNCHANGED <<code, indexed, edges, visited>>

Walked == GraphBuilt /\ \A f \in Files : visited[f] = Len(Calls(f)) /\ perCaller[f] = {}

CallersNext ==
  \/ \E f \in Files : AddUsage(f) \/ VisitCall(f) \/ Aggregate(f)
  \/ Walked /\ UNCHANGED callersVars

CallersSpec == CallersInit(Codes) /\ [][CallersNext]_callersVars

-----------------------------------------------------------------------------
(* The answers.                                                            *)

\* The order of both flows: most calls first, then by file and name.
MoreCalls(a, b) ==
  \/ a.count > b.count
  \/ a.count = b.count /\ a.file < b.file
  \/ a.count = b.count /\ a.file = b.file /\ a.name < b.name

Limited(found) ==
  {c \in found : Limit = 0 \/ Cardinality({d \in found : MoreCalls(d, c)}) < Limit}

DirectAnswer == Limited(callers)

SymbolsNamed(f, name) ==
  {[kind |-> code[f].functions[i].kind, line |-> Line(code[f].functions[i])] :
     i \in {j \in DOMAIN code[f].functions : code[f].functions[j].name = name}}
    \cup {[kind |-> s.kind, line |-> s.line] : s \in {t \in code[f].others : t.name = name}}

\* What findSymbol may return: the first of a group, of whatever group the map
\* yields first.
FindSymbol(f, name) ==
  {s \in SymbolsNamed(f, name) :
     \A t \in SymbolsNamed(f, name) : t.kind = s.kind => s.line <= t.line}

Bare(found) == {[file |-> c.file, name |-> c.name, count |-> c.count] : c \in found}

IndexedBare ==
  Limited({[file |-> e.file, name |-> e.caller, count |-> e.count] : e \in ByCallee(Target)})

\* What RepoService.callers may answer for one of them.
Dressed(c) ==
  {[file |-> c.file, name |-> c.name, kind |-> s.kind, line |-> s.line, count |-> c.count] :
     s \in FindSymbol(c.file, c.name)}

-----------------------------------------------------------------------------
(* Properties.                                                             *)

Named(found) == {c \in found : c.name # 0}

\* In f no call of the target is at a declaration.
NotDeclaredThere(f) ==
  \A i \in DOMAIN Calls(f) : Calls(f)[i].callee = Target => Calls(f)[i].at \notin code[f].declared

\* In f the text of the target starts no longer callee, nor a shorter one.
NoOtherCallee(f) ==
  \A k \in DOMAIN Captures(f), i \in DOMAIN Calls(f) :
    Captures(f)[k].text = Target /\ Calls(f)[i].at = Captures(f)[k].at => Calls(f)[i].callee = Target

\* What the direct walk found in f, and what the graph has of it.
FoundIn(f) == {c \in Bare(Named(callers)) : c.file = f}
EdgesIn(f) ==
  {[file |-> f, name |-> e.caller, count |-> e.count] : e \in {d \in ByCallee(Target) : d.file = f}}

\* The indexed flow is to be "matching the direct callers flow" (repo.go:857).
\* It loses no caller that has a name and counts no fewer calls for one.  It
\* finds the same callers with the same counts in a file where the target is
\* never the start of another callee, as "Foo" is in Rust's Foo::new(), nor
\* another callee the start of the target, as f is of Python's f().g; and
\* where that is every file and every caller has a name, both flows answer
\* alike, under a limit too.
FlowsCountAlike ==
  Walked =>
    /\ \A c \in Named(callers) : NotDeclaredThere(c.file) =>
         \E d \in EdgesIn(c.file) : d.name = c.name /\ d.count >= c.count
    /\ \A f \in Files : NotDeclaredThere(f) /\ NoOtherCallee(f) => FoundIn(f) = EdgesIn(f)
    /\ Named(callers) = callers /\ (\A f \in Files : NotDeclaredThere(f) /\ NoOtherCallee(f))
         => Bare(DirectAnswer) = IndexedBare

\* Where the caller's name is declared once in its file, the indexed answer has
\* the kind and the line of the direct one: it is to be "matching the direct
\* callers flow (kind/line/col from the caller symbol)" (repo.go:856-857).
\* Where it is declared twice, the code takes either declaration.
PlainCallersMatch ==
  Walked => \A c \in Named(callers) :
    Cardinality(SymbolsNamed(c.file, c.name)) = 1 => Dressed(c) = {c}

\* A call is counted for the innermost function around it (calls.go:235:
\* "findFunc returns the index of the innermost function whose range contains
\* pos"), in whatever order the kinds were listed, where the functions around
\* it start on lines of their own.  Where two of them start on one line the
\* code takes the first listed.
CallsAreOfTheInnermost ==
  \A f \in Files : \A i \in DOMAIN Calls(f) :
    StartOnTheirOwnLines(code[f].functions, Calls(f)[i].at)
      => IsInnermost(code[f].functions, Calls(f)[i].at, In(f, Calls(f)[i]))
=============================================================================
