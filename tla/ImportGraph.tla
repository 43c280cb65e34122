----------------------------- MODULE ImportGraph -----------------------------
(***************************************************************************)
(* The import graph of graph.go: buildImportGraph collects the edges of    *)
(* every file, importAdjacency turns them into the neighbours that         *)
(* repo_impact, repo_cycles and repo_topology walk, and importNodes names  *)
(* what they may be asked about.                                           *)
(*                                                                         *)
(* An import is a specifier.  What a specifier resolves to from a file is  *)
(* an input: the path arithmetic of resolveLocalImport is not modelled.    *)
(* byFile and bySpec only ever feed importAdjacency, which drops           *)
(* repetitions, so they are sets of edges; they are filled file by file,   *)
(* in any order.  A node carries what kind of string it is: a path, a      *)
(* specifier, or either behind "import:" (importSpecifierKey).             *)
(***************************************************************************)
EXTENDS Naturals, FiniteSets

CONSTANTS
  ImportFiles,    \* the paths of the files
  Specs,          \* the specifiers of imports
  Unresolved,
  Resolutions     \* the ways the specifiers may resolve

ASSUME ImportGraphAssumption ==
  /\ Unresolved \notin ImportFiles /\ ImportFiles \cap Specs = {}
  /\ Resolutions \subseteq [ImportFiles \X Specs -> ImportFiles \cup {Unresolved}]

VARIABLES
  imports,       \* imports[f]: the specifiers of the import symbols of f
  resolution,    \* resolveLocalImport
  todo,          \* the imports that are not in the graph yet
  byFile, bySpec

importsVars == <<imports, resolution, todo, byFile, bySpec>>

File(f) == [is |-> "file", name |-> f]
Specifier(s) == [is |-> "spec", name |-> s]
Import(x) == [is |-> "import", name |-> x]

AllNodes ==
  {File(f) : f \in ImportFiles} \cup {Specifier(s) : s \in Specs}
    \cup {Import(x) : x \in ImportFiles \cup Specs}

ImportsInit(importing, resolutions) ==
  /\ imports \in importing
  /\ resolution \in resolutions
  /\ todo = {x \in ImportFiles \X Specs : x[2] \in imports[x[1]]}
  /\ byFile = [f \in ImportFiles |-> {}]
  /\ bySpec = [n \in AllNodes |-> {}]

Edge(f, s, target) == [file |-> f, spec |-> s, resolved |-> target]

\* An import is an edge under its specifier and, when it resolves, a second
\* one under the file it resolves to.
EdgesOf(f, s) == {Edge(f, s, Unresolved), Edge(f, s, resolution[<<f, s>>])}

Link(f, s) ==
  /\ <<f, s>> \in todo
  /\ todo' = todo \ {<<f, s>>}
  /\ byFile' = [byFile EXCEPT ![f] = @ \cup EdgesOf(f, s)]
  /\ bySpec' =
       LET Under(n) == {e \in {Edge(f, s, Unresolved), Edge(f, s, resolution[<<f, s>>])} :
                          n = IF e.resolved = Unresolved THEN Specifier(s) ELSE File(e.resolved)}
       IN [n \in AllNodes |-> bySpec[n] \cup Under(n)]
  /\ UNCHANGED <<imports, resolution>>

Linked == todo = {} /\ UNCHANGED importsVars

ImportsNext == (\E f \in ImportFiles, s \in Specs : Link(f, s)) \/ Linked

ImportsSpec ==
  ImportsInit([ImportFiles -> SUBSET Specs], Resolutions) /\ [][ImportsNext]_importsVars

-----------------------------------------------------------------------------
(* importAdjacency.  A node is no neighbour of itself.                     *)

ImportEdges == UNION {byFile[f] : f \in ImportFiles}
LocalEdges == {e \in ImportEdges : e.resolved # Unresolved}

ForwardToSpecifiers(n) == {Import(e.spec) : e \in {d \in ImportEdges : n = File(d.file)}}   \* mutant

ImportForward(n) ==
  ForwardToSpecifiers(n) \cup {File(e.resolved) : e \in {d \in LocalEdges : n = File(d.file)}}

\* A specifier leads back to its files under its own name, and behind "import:"
\* only when it resolved.
ImportReverse(n) ==
  {File(e.file) : e \in bySpec[n]}
    \cup {File(e.file) : e \in {d \in LocalEdges : d \in UNION {bySpec[m] : m \in AllNodes}
                                                    /\ n \in {Import(d.spec), File(d.resolved)}}}

ImportAdjacency(reverse) ==
  [n \in AllNodes |-> (IF reverse THEN ImportReverse(n) ELSE ImportForward(n)) \ {n}]

PlainNodes ==
  {File(f) : f \in {g \in ImportFiles : byFile[g] # {}}} \cup {n \in AllNodes : bySpec[n] # {}}   \* mutant

\* Every key of bySpec counts as a specifier too: for a resolved file that is a
\* node "import:" + path that nothing leads to.
ImportNodes ==
  LET keys == {n \in AllNodes : bySpec[n] # {}}
  IN {File(f) : f \in {g \in ImportFiles : byFile[g] # {}}}
       \cup keys \cup {Import(n.name) : n \in keys}

-----------------------------------------------------------------------------
(* Properties.                                                             *)

AllLinked == todo = {}

\* The dependants of a file (reverse) are the files that reference it
\* (forward), whatever way its import specifiers resolve (graph.go:203-205).
\* This is about files: a specifier that is no local file is named "import:" and
\* itself in a forward answer, and itself alone in reverse.
FilesAreConverse ==
  AllLinked => \A f, g \in ImportFiles :
    File(g) \in ImportAdjacency(FALSE)[File(f)] <=> File(f) \in ImportAdjacency(TRUE)[File(g)]

\* Every node the walk can meet is one ImportNodes lists: repo_topology numbers the
\* nodes before it follows the edges, and repo_impact refuses a target that is
\* not listed (repo.go:729-731).
NeighboursAreNodes ==
  \A n \in AllNodes : \A r \in BOOLEAN :
    ImportAdjacency(r)[n] # {} => ImportAdjacency(r)[n] \cup {n} \subseteq ImportNodes
=============================================================================
