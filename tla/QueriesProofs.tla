---------------------------- MODULE QueriesProofs ----------------------------
(***************************************************************************)
(* What holds of the questions asked of an index or a scan, for all files. *)
(*                                                                         *)
(* The import graph is its own converse on files, and closed, for all      *)
(* files, specifiers and ways to resolve them.  The argument: byFile and   *)
(* bySpec hold the same edges, each under its file and under what it leads *)
(* to, and with an edge to a file comes the edge to its specifier.         *)
(*                                                                         *)
(* No referenced name is called unused.  The argument: the count of a      *)
(* declared name is the number of its occurrences in the files that were   *)
(* counted, and the postings of a name are among its occurrences.          *)
(*                                                                         *)
(* Every symbol of an outline is put under the innermost one around it.    *)
(* The argument: the open nodes are a chain, and whatever is around a      *)
(* symbol the loop has not met is still open.                              *)
(*                                                                         *)
(* A call belongs to the innermost function around it: the loop of         *)
(* findFunc, turn by turn, up to the first turn that could go wrong.  Both *)
(* flows of callers agree.  The argument: at every step an edge of the     *)
(* graph, and a caller of the walk, has the number of the calls met so far *)
(* that are its own.                                                       *)
(*                                                                         *)
(* Tarjan finds the strongly connected components.  The argument: the      *)
(* stack is in the order in which its nodes were met, a pending node leads *)
(* to the node of a call, and the low of a call bounds the edges to        *)
(* pending nodes of all that was met under it; so a call that returns with *)
(* low = index pops what its node leads to and is reached from.  Hence the *)
(* cycles.  A component is found after all it leads to: among those not    *)
(* yet in a layer the last one found is free, so no layer is empty before  *)
(* all are placed.  The search of repo_impact has seen, at every distance  *)
(* it is through, the nodes of the ball of that radius.                    *)
(***************************************************************************)
EXTENDS Impact, ImportGraph, Outline, Unused, Callers, FiniteSetTheorems,
        SequenceTheorems, WellFoundedInduction, TLAPS

Resolved == ImportFiles \cup {Unresolved}
Edges == [file: ImportFiles, spec: Specs, resolved: Resolved]

\* What bySpec files an edge under.
KeyOf(e) == IF e.resolved = Unresolved THEN Specifier(e.spec) ELSE File(e.resolved)

Typed ==
  /\ resolution \in [ImportFiles \X Specs -> Resolved]
  /\ byFile \in [ImportFiles -> SUBSET Edges]
  /\ bySpec \in [AllNodes -> SUBSET Edges]

ByFileIsFiled ==
  \A f \in ImportFiles : \A e \in byFile[f] :
    /\ e.file = f
    /\ e \in bySpec[KeyOf(e)]
    /\ Edge(f, e.spec, Unresolved) \in byFile[f]

BySpecIsFiled ==
  \A n \in AllNodes : \A e \in bySpec[n] : n = KeyOf(e) /\ e \in byFile[e.file]

IInv == Typed /\ ByFileIsFiled /\ BySpecIsFiled

-----------------------------------------------------------------------------
LEMMA KeyIsANode == \A e \in Edges : KeyOf(e) \in AllNodes
BY DEF KeyOf, Edges, Resolved, AllNodes

LEMMA EdgeIsTyped ==
  ASSUME NEW f \in ImportFiles, NEW s \in Specs, NEW t \in Resolved
  PROVE  /\ Edge(f, s, t) \in Edges
         /\ Edge(f, s, t).file = f /\ Edge(f, s, t).spec = s /\ Edge(f, s, t).resolved = t
BY DEF Edge, Edges

LEMMA NewEdges ==
  ASSUME Typed, NEW f \in ImportFiles, NEW s \in Specs
  PROVE  /\ resolution[<<f, s>>] \in Resolved
         /\ EdgesOf(f, s) \subseteq Edges
         /\ \A e \in EdgesOf(f, s) : e.file = f /\ e.spec = s
         /\ Edge(f, s, Unresolved) \in EdgesOf(f, s)
<1>1. <<f, s>> \in ImportFiles \X Specs
  OBVIOUS
<1>2. resolution[<<f, s>>] \in Resolved
  BY <1>1 DEF Typed
<1>3. Unresolved \in Resolved
  BY DEF Resolved
<1> QED
  BY <1>2, <1>3, EdgeIsTyped DEF EdgesOf

LEMMA InitHolds ==
  ASSUME ImportsInit([ImportFiles -> SUBSET Specs], Resolutions)
  PROVE  IInv
<1>1. Typed
  BY ImportGraphAssumption DEF ImportsInit, Typed, Resolved
<1> QED
  BY <1>1 DEF ImportsInit, IInv, ByFileIsFiled, BySpecIsFiled

\* One import more.
LEMMA LinkKeeps ==
  ASSUME IInv, NEW f \in ImportFiles, NEW s \in Specs, Link(f, s)
  PROVE  IInv'
<1> DEFINE new == EdgesOf(f, s)
<1> USE DEF IInv
<1>1. /\ new \subseteq Edges
      /\ \A e \in new : e.file = f /\ e.spec = s
      /\ Edge(f, s, Unresolved) \in new
  BY NewEdges
<1> HIDE DEF new
<1>2. byFile' = [byFile EXCEPT ![f] = @ \cup new]
  BY DEF Link, new
<1>3. \A g \in ImportFiles : byFile'[g] = IF g = f THEN byFile[g] \cup new ELSE byFile[g]
  BY <1>2 DEF Typed
<1>4. bySpec' = [n \in AllNodes |-> bySpec[n] \cup {e \in new : n = KeyOf(e)}]
  <2>1. \A e \in new : KeyOf(e) = IF e.resolved = Unresolved THEN Specifier(s)
                                                             ELSE File(e.resolved)
    BY <1>1 DEF KeyOf
  <2>2. bySpec' = [n \in AllNodes |-> bySpec[n] \cup
                     {e \in new : n = IF e.resolved = Unresolved THEN Specifier(s)
                                                                 ELSE File(e.resolved)}]
    BY DEF Link, new, EdgesOf
  <2> QED
    BY <2>1, <2>2
<1>5. \A n \in AllNodes : bySpec'[n] = bySpec[n] \cup {e \in new : n = KeyOf(e)}
  BY <1>4
<1>6. Typed'
  <2>1. resolution' = resolution
    BY DEF Link
  <2>2. byFile' \in [ImportFiles -> SUBSET Edges]
    BY <1>1, <1>2 DEF Typed
  <2>3. bySpec' \in [AllNodes -> SUBSET Edges]
    BY <1>1, <1>4 DEF Typed
  <2> QED
    BY <2>1, <2>2, <2>3 DEF Typed
<1>7. ByFileIsFiled'
  <2> SUFFICES ASSUME NEW g \in ImportFiles, NEW e \in byFile'[g]
               PROVE  /\ e.file = g
                      /\ e \in bySpec'[KeyOf(e)]
                      /\ Edge(g, e.spec, Unresolved) \in byFile'[g]
    BY DEF ByFileIsFiled, KeyOf, Edge, Specifier, File
  <2>1. e \in Edges /\ KeyOf(e) \in AllNodes
    BY <1>6, KeyIsANode DEF Typed
  <2>2. CASE e \in byFile[g]
    <3>1. e.file = g /\ e \in bySpec[KeyOf(e)] /\ Edge(g, e.spec, Unresolved) \in byFile[g]
      BY <2>2 DEF ByFileIsFiled
    <3> QED
      BY <3>1, <2>1, <1>3, <1>5
  <2>3. CASE g = f /\ e \in new
    <3>1. e.file = f /\ e.spec = s
      BY <2>3, <1>1
    <3>2. e \in bySpec'[KeyOf(e)]
      BY <2>1, <2>3, <1>5
    <3>3. Edge(g, e.spec, Unresolved) \in byFile'[g]
      BY <2>3, <3>1, <1>1, <1>3
    <3> QED
      BY <2>3, <3>1, <3>2, <3>3
  <2> QED
    BY <1>3, <2>2, <2>3
<1>8. BySpecIsFiled'
  <2> SUFFICES ASSUME NEW n \in AllNodes, NEW e \in bySpec'[n]
               PROVE  n = KeyOf(e) /\ e \in byFile'[e.file]
    BY DEF BySpecIsFiled, KeyOf, Specifier, File, AllNodes, Import
  <2>1. e \in Edges /\ e.file \in ImportFiles
    BY <1>6 DEF Typed, Edges
  <2>2. CASE e \in bySpec[n]
    BY <2>1, <2>2, <1>3 DEF BySpecIsFiled
  <2>3. CASE e \in new /\ n = KeyOf(e)
    BY <2>3, <1>1, <1>3
  <2> QED
    BY <1>5, <2>2, <2>3
<1> QED
  BY <1>6, <1>7, <1>8

LEMMA StepKeeps ==
  ASSUME IInv, [ImportsNext]_importsVars
  PROVE  IInv'
<1>1. CASE \E f \in ImportFiles, s \in Specs : Link(f, s)
  BY <1>1, LinkKeeps
<1>2. CASE UNCHANGED importsVars
  BY <1>2 DEF importsVars, IInv, Typed, ByFileIsFiled, BySpecIsFiled, KeyOf, Edge, AllNodes,
              File, Specifier, Import
<1> QED
  BY <1>1, <1>2 DEF ImportsNext, Linked

\* Every edge is filed under its file and under what it leads to, whatever the
\* order of the files.
THEOREM EdgesAreFiledTwice == ImportsSpec => []IInv
BY InitHolds, StepKeeps, PTL DEF ImportsSpec

-----------------------------------------------------------------------------
LEMMA NodesDiffer ==
  \A x, y : /\ File(x) = File(y) <=> x = y
            /\ Specifier(x) = Specifier(y) <=> x = y
            /\ Import(x) = Import(y) <=> x = y
            /\ File(x) # Specifier(y) /\ File(x) # Import(y) /\ Specifier(x) # Import(y)
<1> TAKE x, y
<1>1. /\ File(x).is = "file" /\ File(x).name = x /\ File(y).name = y
      /\ Specifier(x).is = "spec" /\ Specifier(y).is = "spec"
      /\ Specifier(x).name = x /\ Specifier(y).name = y
      /\ Import(x).is = "import" /\ Import(y).is = "import"
      /\ Import(x).name = x /\ Import(y).name = y
  BY DEF File, Specifier, Import
<1> QED
  BY <1>1

LEMMA EdgesAreEdges ==
  ASSUME IInv, NEW e \in ImportEdges
  PROVE  e \in Edges /\ e \in byFile[e.file] /\ KeyOf(e) \in AllNodes /\ e \in bySpec[KeyOf(e)]
BY KeyIsANode DEF IInv, Typed, ImportEdges, ByFileIsFiled

\* What a file leads to among the files, and what leads to it.
LEMMA FilesAhead ==
  ASSUME IInv, NEW f \in ImportFiles, NEW g \in ImportFiles
  PROVE  File(g) \in ImportForward(File(f))
           <=> \E e \in ImportEdges : e.file = f /\ e.resolved = g
<1>1. g # Unresolved
  BY ImportGraphAssumption
<1> QED
  BY <1>1, NodesDiffer DEF ImportForward, ForwardToSpecifiers, LocalEdges

LEMMA FilesBehind ==
  ASSUME IInv, NEW f \in ImportFiles, NEW g \in ImportFiles
  PROVE  File(f) \in ImportReverse(File(g))
           <=> \E e \in ImportEdges : e.file = f /\ e.resolved = g
<1>1. g # Unresolved /\ File(g) \in AllNodes
  BY ImportGraphAssumption DEF AllNodes
<1>2. ASSUME NEW e \in bySpec[File(g)], e.file = f
      PROVE  e \in ImportEdges /\ e.resolved = g
  <2>1. File(g) = KeyOf(e) /\ e \in byFile[f]
    BY <1>1, <1>2 DEF IInv, BySpecIsFiled
  <2>2. e.resolved = g
    BY <2>1, NodesDiffer DEF KeyOf
  <2> QED
    BY <2>1, <2>2 DEF ImportEdges
<1>3. ASSUME NEW e \in ImportEdges, e.file = f, e.resolved = g
      PROVE  e \in bySpec[File(g)]
  BY <1>1, <1>3, EdgesAreEdges DEF KeyOf
<1> QED
  BY <1>1, <1>2, <1>3, NodesDiffer DEF ImportReverse, LocalEdges

LEMMA ConverseHolds ==
  ASSUME IInv
  PROVE  FilesAreConverse
<1> SUFFICES ASSUME NEW f \in ImportFiles, NEW g \in ImportFiles
             PROVE  File(g) \in ImportAdjacency(FALSE)[File(f)]
                      <=> File(f) \in ImportAdjacency(TRUE)[File(g)]
  BY DEF FilesAreConverse
<1>1. File(f) \in AllNodes /\ File(g) \in AllNodes
  BY DEF AllNodes
<1>2. ImportAdjacency(FALSE)[File(f)] = ImportForward(File(f)) \ {File(f)}
  BY <1>1 DEF ImportAdjacency
<1>3. ImportAdjacency(TRUE)[File(g)] = ImportReverse(File(g)) \ {File(g)}
  BY <1>1 DEF ImportAdjacency
<1>4. File(g) \in ImportForward(File(f)) <=> File(f) \in ImportReverse(File(g))
  <2>1. File(g) \in ImportForward(File(f))
          <=> \E e \in ImportEdges : e.file = f /\ e.resolved = g
    BY FilesAhead
  <2>2. File(f) \in ImportReverse(File(g))
          <=> \E e \in ImportEdges : e.file = f /\ e.resolved = g
    BY FilesBehind
  <2> QED
    BY <2>1, <2>2
<1> QED
  BY <1>2, <1>3, <1>4

\* FilesAreConverse for all files, specifiers and resolutions: repo_impact in
\* reverse finds exactly the files whose forward edges lead to the target.
THEOREM ConverseOnFiles == ImportsSpec => []FilesAreConverse
BY EdgesAreFiledTwice, ConverseHolds, PTL

-----------------------------------------------------------------------------
LEMMA EndsAreNodes ==
  ASSUME IInv, NEW e \in ImportEdges
  PROVE  /\ File(e.file) \in ImportNodes
         /\ KeyOf(e) \in ImportNodes
         /\ Import(e.spec) \in ImportNodes
<1>1. e \in Edges /\ e.file \in ImportFiles /\ e \in byFile[e.file] /\ e \in bySpec[KeyOf(e)]
      /\ KeyOf(e) \in AllNodes
  BY EdgesAreEdges DEF Edges
<1>2. File(e.file) \in ImportNodes
  BY <1>1 DEF ImportNodes
<1>3. KeyOf(e) \in ImportNodes
  BY <1>1 DEF ImportNodes
<1>4. Import(e.spec) \in ImportNodes
  <2> DEFINE d == Edge(e.file, e.spec, Unresolved)
  <2>1. d \in byFile[e.file]
    BY <1>1 DEF IInv, ByFileIsFiled
  <2>2. KeyOf(d) = Specifier(e.spec)
    BY DEF KeyOf, Edge
  <2>3. d \in ImportEdges
    BY <1>1, <2>1 DEF ImportEdges
  <2>4. Specifier(e.spec) \in AllNodes /\ bySpec[Specifier(e.spec)] # {}
    BY <2>2, <2>3, EdgesAreEdges
  <2>5. Specifier(e.spec).name = e.spec
    BY DEF Specifier
  <2> QED
    BY <2>4, <2>5 DEF ImportNodes
<1> QED
  BY <1>2, <1>3, <1>4

LEMMA ForwardIsListed ==
  ASSUME IInv, NEW n \in AllNodes, ImportForward(n) # {}
  PROVE  ImportForward(n) \cup {n} \subseteq ImportNodes
<1>1. PICK e \in ImportEdges : n = File(e.file)
  BY DEF ImportForward, ForwardToSpecifiers, LocalEdges
<1>2. n \in ImportNodes
  BY <1>1, EndsAreNodes
<1>3. \A d \in LocalEdges : d \in ImportEdges /\ KeyOf(d) = File(d.resolved)
  BY DEF LocalEdges, KeyOf
<1> QED
  BY <1>2, <1>3, EndsAreNodes DEF ImportForward, ForwardToSpecifiers

LEMMA ReverseIsListed ==
  ASSUME IInv, NEW n \in AllNodes, ImportReverse(n) # {}
  PROVE  ImportReverse(n) \cup {n} \subseteq ImportNodes
<1>1. \A e \in bySpec[n] : e \in ImportEdges /\ n = KeyOf(e)
  <2> TAKE e \in bySpec[n]
  <2>1. n = KeyOf(e) /\ e \in byFile[e.file] /\ e.file \in ImportFiles
    BY DEF IInv, BySpecIsFiled, Typed, Edges
  <2> QED
    BY <2>1 DEF ImportEdges
<1>2. \A d \in LocalEdges : d \in ImportEdges /\ KeyOf(d) = File(d.resolved)
  BY DEF LocalEdges, KeyOf
<1>3. ImportReverse(n) \subseteq ImportNodes
  BY <1>1, <1>2, EndsAreNodes DEF ImportReverse
<1>4. n \in ImportNodes
  BY <1>1, <1>2, EndsAreNodes DEF ImportReverse
<1> QED
  BY <1>3, <1>4

LEMMA NeighboursHold ==
  ASSUME IInv
  PROVE  NeighboursAreNodes
<1> SUFFICES ASSUME NEW n \in AllNodes, NEW r \in BOOLEAN, ImportAdjacency(r)[n] # {}
             PROVE  ImportAdjacency(r)[n] \cup {n} \subseteq ImportNodes
  BY DEF NeighboursAreNodes
<1>1. CASE r = TRUE
  <2>1. ImportAdjacency(r)[n] = ImportReverse(n) \ {n}
    BY <1>1 DEF ImportAdjacency
  <2> QED
    BY <2>1, ReverseIsListed
<1>2. CASE r = FALSE
  <2>1. ImportAdjacency(r)[n] = ImportForward(n) \ {n}
    BY <1>2 DEF ImportAdjacency
  <2> QED
    BY <2>1, ForwardIsListed
<1> QED
  BY <1>1, <1>2

\* NeighboursAreNodes for all files, specifiers and resolutions: no walk leaves
\* the nodes it was given.
THEOREM GraphIsClosed == ImportsSpec => []NeighboursAreNodes
BY EdgesAreFiledTwice, NeighboursHold, PTL
-----------------------------------------------------------------------------
(* The unused symbols.                                                     *)

CountedFiles == counted \ missed
Places(S) == UNION {{f} \X DOMAIN text[f] : f \in S}
OccurrencesIn(S, n) == {p \in Places(S) : <<n, text[p[1]][p[2]].name>> \in Inside}

CountsAreOccurrences ==
  \A n \in Names : counts[n] = IF n \in Declared THEN Cardinality(OccurrencesIn(CountedFiles, n)) ELSE 0

UInv ==
  /\ text \in Texts /\ counts \in [Names -> Nat]
  /\ parsed \subseteq Sources /\ failed \subseteq Sources
  /\ missed \subseteq counted /\ counted \subseteq parsed
  /\ counted # {} => Scanned
  /\ CountsAreOccurrences

LEMMA TextsAreWords ==
  ASSUME text \in Texts, NEW f \in Sources
  PROVE  /\ text[f] \in Seq([name: Names, role: Roles])
         /\ DOMAIN text[f] = 1..Len(text[f]) /\ Len(text[f]) \in Nat /\ IsFiniteSet(DOMAIN text[f])
<1>1. text[f] \in Seq([name: Names, role: Roles])
  BY UnusedAssumption DEF Names
<1>2. DOMAIN text[f] = 1..Len(text[f]) /\ Len(text[f]) \in Nat
  BY <1>1
<1>3. 0 \in Int /\ 1 \in Int /\ Len(text[f]) \in Int
  BY <1>2
<1> QED
  BY <1>1, <1>2, <1>3, FS_Interval

LEMMA PlacesAreFinite ==
  ASSUME text \in Texts, NEW S \in SUBSET Sources
  PROVE  IsFiniteSet(Places(S))
<1> DEFINE F == [f \in S |-> {f} \X DOMAIN text[f]]
           I == {{f} \X DOMAIN text[f] : f \in S}
<1>1. IsFiniteSet(S)
  BY UnusedAssumption, FS_Subset
<1>2. F \in Surjection(S, I)
  BY DEF Surjection
<1>3. IsFiniteSet(I)
  BY <1>1, <1>2, FS_Surjection
<1>4. ASSUME NEW f \in S
      PROVE  IsFiniteSet({f} \X DOMAIN text[f])
  <2>1. IsFiniteSet({f}) /\ IsFiniteSet(DOMAIN text[f])
    BY FS_Singleton, TextsAreWords
  <2> QED
    BY <2>1, FS_Product
<1> QED
  BY <1>3, <1>4, FS_UNION DEF Places

LEMMA OccurrencesAreFinite ==
  ASSUME text \in Texts, NEW S \in SUBSET Sources, NEW n
  PROVE  IsFiniteSet(OccurrencesIn(S, n)) /\ Cardinality(OccurrencesIn(S, n)) \in Nat
BY PlacesAreFinite, FS_Subset, FS_CardinalityType DEF OccurrencesIn

\* Counting one more file adds its occurrences.
LEMMA OneMoreFile ==
  ASSUME text \in Texts, NEW S \in SUBSET Sources, NEW f \in Sources, f \notin S, NEW n
  PROVE  Cardinality(OccurrencesIn(S \cup {f}, n)) = Cardinality(OccurrencesIn(S, n)) + Occurrences(f, n)
<1> DEFINE I == {i \in DOMAIN text[f] : <<n, text[f][i].name>> \in Inside}
           A == OccurrencesIn(S, n)
           B == OccurrencesIn({f}, n)
           b == [i \in I |-> <<f, i>>]
<1>1. OccurrencesIn(S \cup {f}, n) = A \cup B
  BY DEF OccurrencesIn, Places
<1>2. A \cap B = {}
  BY DEF OccurrencesIn, Places
<1>3. IsFiniteSet(I)
  BY TextsAreWords, FS_Subset
<1>4. B = {<<f, i>> : i \in I}
  <2>1. ASSUME NEW p \in B
        PROVE  \E i \in I : p = <<f, i>>
    <3>1. p \in {f} \X DOMAIN text[f] /\ <<n, text[p[1]][p[2]].name>> \in Inside
      BY DEF OccurrencesIn, Places
    <3>2. p[1] = f /\ p[2] \in I /\ p = <<f, p[2]>>
      BY <3>1
    <3> QED
      BY <3>2
  <2>2. ASSUME NEW i \in I
        PROVE  <<f, i>> \in B
    BY DEF OccurrencesIn, Places
  <2> QED
    BY <2>1, <2>2
<1>5. b \in Bijection(I, B)
  <2>1. b \in [I -> B] /\ \A y \in B : \E i \in I : b[i] = y
    BY <1>4
  <2>2. \A i, j \in I : b[i] = b[j] => i = j
    OBVIOUS
  <2> QED
    BY <2>1, <2>2 DEF Bijection, Injection, IsInjective, Surjection
<1>6. Cardinality(B) = Cardinality(I) /\ IsFiniteSet(B)
  BY <1>3, <1>5, FS_Bijection DEF ExistsBijection
<1>7. IsFiniteSet(A) /\ Cardinality(A) \in Nat /\ Cardinality(B) \in Nat
  BY <1>6, OccurrencesAreFinite, FS_CardinalityType
<1>8. Cardinality(A \cup B) = Cardinality(A) + Cardinality(B)
  <2> HIDE DEF A, B, I
  <2>1. Cardinality(A \cap B) = 0
    BY <1>2, FS_EmptySet
  <2>2. Cardinality(A \cup B) = Cardinality(A) + Cardinality(B) - Cardinality(A \cap B)
    BY <1>6, <1>7, FS_Union
  <2> QED
    BY <1>7, <2>1, <2>2
<1> QED
  BY <1>1, <1>6, <1>8 DEF Occurrences

LEMMA InitCounts ==
  ASSUME UnusedInit(Texts)
  PROVE  UInv
<1>1. \A n \in Names : n \notin Declared
  BY DEF UnusedInit, Declared
<1>2. counts \in [Names -> Nat] /\ \A n \in Names : counts[n] = 0
  BY DEF UnusedInit
<1> QED
  BY <1>1, <1>2 DEF UnusedInit, UInv, CountsAreOccurrences

\* Before the counting nothing is counted.
LEMMA ParseKeepsCounts ==
  ASSUME UInv, NEW f \in Sources, ParseFile(f)
  PROVE  UInv'
<1>1. UNCHANGED <<text, counted, missed, counts>> /\ parsed' \subseteq Sources /\ failed' \subseteq Sources
      /\ parsed \subseteq parsed'
  BY DEF ParseFile, UInv
<1>2. counted = {}
  BY DEF UInv, ParseFile, Scanned
<1>3. ASSUME NEW n \in Names
      PROVE  counts[n] = 0 /\ Cardinality(OccurrencesIn({}, n)) = 0
  <2>1. OccurrencesIn({}, n) = {}
    BY DEF OccurrencesIn, Places
  <2>2. Cardinality(OccurrencesIn({}, n)) = 0
    BY <2>1, FS_EmptySet
  <2>3. CountedFiles = {}
    BY <1>2 DEF CountedFiles
  <2> QED
    BY <2>2, <2>3 DEF UInv, CountsAreOccurrences
<1>4. CountsAreOccurrences'
  <2> SUFFICES ASSUME NEW n \in Names
               PROVE  counts'[n] = IF n \in Declared'
                                     THEN Cardinality(OccurrencesIn(CountedFiles, n)') ELSE 0
    BY DEF CountsAreOccurrences
  <2>1. OccurrencesIn(CountedFiles, n)' = OccurrencesIn({}, n)
    BY <1>1, <1>2 DEF OccurrencesIn, Places, CountedFiles
  <2> QED
    BY <1>1, <1>3, <2>1
<1> QED
  BY <1>1, <1>2, <1>4 DEF UInv

LEMMA CountKeepsCounts ==
  ASSUME UInv, NEW f \in Sources, CountFile(f)
  PROVE  UInv'
<1>1. /\ UNCHANGED <<text, parsed, failed>> /\ Scanned /\ f \in parsed \ counted
      /\ counted' = counted \cup {f}
  BY DEF CountFile
<1>2. Declared' = Declared /\ Scanned'
  BY <1>1 DEF Declared, Words, Scanned
<1>3. CASE f \in gone
  <2>1. missed' = missed \cup {f} /\ UNCHANGED counts
    BY <1>3 DEF CountFile
  <2>2. CountedFiles' = CountedFiles
    BY <1>1, <2>1 DEF CountedFiles, UInv
  <2>3. CountsAreOccurrences'
    BY <1>1, <1>2, <2>1, <2>2 DEF CountsAreOccurrences, OccurrencesIn, Places, UInv
  <2> QED
    BY <1>1, <1>2, <2>1, <2>3 DEF UInv
<1>4. CASE f \notin gone
  <2>1. /\ counts' = [n \in Names |-> counts[n] + IF n \in Declared THEN Occurrences(f, n) ELSE 0]
        /\ UNCHANGED missed
    BY <1>4 DEF CountFile
  <2>2. CountedFiles' = CountedFiles \cup {f} /\ f \notin CountedFiles /\ CountedFiles \subseteq Sources
    BY <1>1, <2>1 DEF CountedFiles, UInv
  <2>3. ASSUME NEW n \in Names
        PROVE  /\ counts'[n] = IF n \in Declared THEN Cardinality(OccurrencesIn(CountedFiles \cup {f}, n)) ELSE 0
               /\ counts'[n] \in Nat
    <3>1. counts[n] = IF n \in Declared THEN Cardinality(OccurrencesIn(CountedFiles, n)) ELSE 0
      BY DEF UInv, CountsAreOccurrences
    <3>2. counts'[n] = counts[n] + IF n \in Declared THEN Occurrences(f, n) ELSE 0
      BY <2>1
    <3>3. text \in Texts
      BY DEF UInv
    <3>4. Cardinality(OccurrencesIn(CountedFiles \cup {f}, n))
            = Cardinality(OccurrencesIn(CountedFiles, n)) + Occurrences(f, n)
      BY <2>2, <3>3, OneMoreFile
    <3>5. Cardinality(OccurrencesIn(CountedFiles \cup {f}, n)) \in Nat
      BY <2>2, <3>3, OccurrencesAreFinite
    <3>6. CASE n \in Declared
      BY <3>1, <3>2, <3>4, <3>5, <3>6
    <3>7. CASE n \notin Declared
      BY <3>1, <3>2, <3>7
    <3> QED
      BY <3>6, <3>7
  <2>4. ASSUME NEW n \in Names
        PROVE  OccurrencesIn(CountedFiles, n)' = OccurrencesIn(CountedFiles \cup {f}, n)
    BY <1>1, <2>2 DEF OccurrencesIn, Places
  <2>5. CountsAreOccurrences'
    BY <1>2, <2>3, <2>4 DEF CountsAreOccurrences
  <2>6. counts' \in [Names -> Nat]
    BY <2>1, <2>3
  <2> QED
    BY <1>1, <1>2, <2>1, <2>5, <2>6 DEF UInv
<1> QED
  BY <1>3, <1>4

LEMMA StepKeepsCounts == UInv /\ [UnusedNext]_unusedVars => UInv'
<1> SUFFICES ASSUME UInv, [UnusedNext]_unusedVars
             PROVE  UInv'
  OBVIOUS
<1>1. ASSUME UNCHANGED <<text, parsed, failed, counted, missed, counts>>
      PROVE  UInv'
  <2>1. Scanned' = Scanned /\ Declared' = Declared /\ CountedFiles' = CountedFiles
    BY <1>1 DEF Scanned, Declared, Words, CountedFiles
  <2>2. \A n \in Names : OccurrencesIn(CountedFiles, n)' = OccurrencesIn(CountedFiles, n)
    BY <1>1, <2>1 DEF OccurrencesIn, Places
  <2>3. CountsAreOccurrences'
    BY <1>1, <2>1, <2>2 DEF UInv, CountsAreOccurrences
  <2> QED
    BY <1>1, <2>1, <2>3 DEF UInv
<1>2. ASSUME NEW f \in Sources, Vanish(f)
      PROVE  UInv'
  BY <1>1, <1>2 DEF Vanish
<1>3. CASE UnusedDone \/ UNCHANGED unusedVars
  BY <1>1, <1>3 DEF UnusedDone, unusedVars
<1> QED
  BY <1>2, <1>3, ParseKeepsCounts, CountKeepsCounts DEF UnusedNext

\* A declaration is a posting of its name, and every posting is an occurrence.
LEMMA PostingsOfDeclared ==
  ASSUME UInv, NEW n \in Declared
  PROVE  /\ n \in Names /\ IsFiniteSet(Postings(n))
         /\ Postings(n) \subseteq OccurrencesIn(parsed, n)
         /\ \E p \in Postings(n) : text[p[1]][p[2]].role = "declaration"
<1>1. PICK f \in parsed : \E w \in Words(f) : Declares(w) /\ n = w.name
  BY DEF Declared
<1>2. PICK i \in DOMAIN text[f] : Declares(text[f][i]) /\ n = text[f][i].name
  BY <1>1 DEF Words
<1>3. f \in Sources /\ text[f][i] \in [name: Names, role: Roles] /\ text \in Texts
  <2>1. f \in Sources /\ text \in Texts
    BY DEF UInv
  <2>2. text[f] \in Seq([name: Names, role: Roles]) /\ i \in 1..Len(text[f])
    BY <1>2, <2>1, TextsAreWords
  <2> PICK W, q : W = [name: Names, role: Roles] /\ q = text[f]
    OBVIOUS
  <2>3. q \in Seq(W) /\ i \in 1..Len(q)
    BY <2>2
  <2>4. q[i] \in W
    BY ONLY <2>3
  <2> QED
    BY <2>1, <2>4
<1>4. n \in Names
  BY <1>2, <1>3
<1>5. <<n, n>> \in Inside
  BY <1>4, UnusedAssumption DEF Names
<1>6. Postings(n) \subseteq OccurrencesIn(parsed, n)
  BY <1>5 DEF Postings, IsPosting, OccurrencesIn, Places
<1>7. IsFiniteSet(Postings(n))
  <2>1. parsed \subseteq Sources
    BY DEF UInv
  <2> QED
    BY <1>3, <1>6, <2>1, OccurrencesAreFinite, FS_Subset
<1>8. <<f, i>> \in Postings(n) /\ text[f][i].role = "declaration"
  BY <1>2 DEF Postings, IsPosting, Declares
<1> QED
  BY <1>4, <1>6, <1>7, <1>8

\* Neither flow lists a name that is referred to (search.go:30), for any files
\* and whatever vanishes while they are read, as long as none that was parsed
\* is missing from the count.
THEOREM NothingReferencedIsUnused == UnusedSpec => []UnusedIsUnreferenced
<1>1. UInv => UnusedIsUnreferenced
  <2> SUFFICES ASSUME UInv, AllCounted
               PROVE  /\ \A n \in IndexedUnused : Others(n) = {}
                      /\ missed = {} => \A n \in DirectUnused : Others(n) = {} /\ n \in IndexedUnused
    BY DEF UnusedIsUnreferenced
  <2>1. \A n : n \in IndexedUnused <=> n \in Declared /\ Cardinality(Postings(n)) = 1
    BY DEF IndexedUnused, Declared, Declares
  <2>2. ASSUME NEW n \in Declared, NEW x, Postings(n) \subseteq {x}
        PROVE  Others(n) = {} /\ Postings(n) = {x}
    <3>1. PICK p \in Postings(n) : text[p[1]][p[2]].role = "declaration"
      BY PostingsOfDeclared
    <3> QED
      BY <2>2, <3>1 DEF Others
  <2>3. ASSUME NEW n \in IndexedUnused
        PROVE  Others(n) = {}
    <3>1. n \in Declared /\ Cardinality(Postings(n)) = 1 /\ IsFiniteSet(Postings(n))
      BY <2>1, PostingsOfDeclared
    <3>2. PICK x : Postings(n) = {x}
      BY <3>1, FS_Singleton
    <3> QED
      BY <2>2, <3>1, <3>2
  <2>4. ASSUME missed = {}, NEW n \in DirectUnused
        PROVE  Others(n) = {} /\ n \in IndexedUnused
    <3>1. n \in Declared /\ counts[n] = 1
      BY DEF DirectUnused
    <3>2. CountedFiles = parsed /\ parsed \in SUBSET Sources /\ text \in Texts
      BY <2>4 DEF CountedFiles, AllCounted, UInv
    <3>3. n \in Names /\ Postings(n) \subseteq OccurrencesIn(parsed, n)
      BY <3>1, PostingsOfDeclared
    <3>4. Cardinality(OccurrencesIn(parsed, n)) = 1 /\ IsFiniteSet(OccurrencesIn(parsed, n))
      BY <3>1, <3>2, <3>3, OccurrencesAreFinite DEF UInv, CountsAreOccurrences
    <3>5. PICK x : OccurrencesIn(parsed, n) = {x}
      BY <3>4, FS_Singleton
    <3>6. Others(n) = {} /\ Postings(n) = {x}
      BY <2>2, <3>1, <3>3, <3>5
    <3>7. Cardinality(Postings(n)) = 1
      BY <3>6, FS_Singleton
    <3> QED
      BY <2>1, <3>1, <3>6, <3>7
  <2> QED
    BY <2>3, <2>4
<1> QED
  BY <1>1, InitCounts, StepKeepsCounts, PTL DEF UnusedSpec
-----------------------------------------------------------------------------
(* The outline.                                                            *)

\* Every set of naturals has a least one.
LEMMA LeastNatural ==
  ASSUME NEW T, T \subseteq Nat, T # {}
  PROVE  \E m \in T : \A k \in T : m <= k
<1> DEFINE R == StrictSubsetOrdering(Nat)
           F == FiniteSubsetsOf(Nat)
           S == {0..n : n \in T}
<1>1. IsWellFoundedOn(R, F)
  BY FS_StrictSubsetOrderingWellFounded
<1>2. S \subseteq F
  <2> SUFFICES ASSUME NEW n \in T PROVE 0..n \in F
    OBVIOUS
  <2>1. IsFiniteSet(0..n)
    BY FS_Interval
  <2> QED
    BY <2>1 DEF FiniteSubsetsOf
<1>3. S # {}
  OBVIOUS
<1> HIDE DEF R, F, S
<1>4. PICK x \in S : \A y \in S : ~(<<y, x>> \in R)
  BY <1>1, <1>2, <1>3, WFMin
<1>5. PICK m \in T : x = 0..m
  BY <1>4 DEF S
<1>6. ASSUME NEW k \in T, k < m PROVE FALSE
  <2>1. 0..k \in S
    BY DEF S
  <2>2. 0..k \subseteq 0..m /\ 0..k # 0..m
    <3>1. m \in 0..m /\ m \notin 0..k
      BY <1>6
    <3> QED
      BY <1>6, <3>1
  <2>3. <<0..k, x>> \in R
    BY <1>5, <2>2 DEF R, StrictSubsetOrdering
  <2> QED
    BY <1>4, <2>1, <2>3
<1> QED
  BY <1>6

Met == symbols \ flat

Ordered == \A o \in Met, s \in flat : Precedes(o, s)
Chained == \A i, j \in DOMAIN open : i < j => open[j] \in Around(open[i])
StillAround == \A o \in Met, s \in flat : Holds(o, s) => \E i \in DOMAIN open : open[i] = o

OInv ==
  /\ symbols \in SymbolSets /\ flat \subseteq symbols
  /\ open \in Seq(Met) /\ parent \in [symbols -> symbols \cup {Root}]
  /\ Ordered /\ Chained /\ StillAround
  /\ ParentIsInnermost

LEMMA SymbolsAreRanges ==
  ASSUME symbols \in SymbolSets, NEW s \in symbols
  PROVE  s \in Symbols /\ s.from \in Nat /\ s.to \in Nat /\ s.label \in Labels /\ s.from < s.to
<1>1. symbols \subseteq Symbols
  <2>1. CASE symbols = {}
    BY <2>1
  <2>2. CASE symbols # {}
    <3>1. PICK f \in [1..MaxSymbols -> Symbols] : symbols = {f[i] : i \in 1..MaxSymbols}
      BY <2>2 DEF SymbolSets
    <3> QED
      BY <3>1
  <2> QED
    BY <2>1, <2>2
<1> QED
  BY <1>1, OutlineAssumption DEF Symbols

LEMMA SymbolsDiffer ==
  ASSUME symbols \in SymbolSets, NEW s \in symbols, NEW t \in symbols, s # t
  PROVE  s.from # t.from \/ s.to # t.to \/ s.label # t.label
BY SymbolsAreRanges DEF Symbols

LEMMA LabelsAreSorted ==
  ASSUME NEW k \in Labels, NEW l \in Labels, k # l
  PROVE  Sorts(k, l) <=> ~Sorts(l, k)
<1>1. /\ k.kind \in Nat /\ k.name \in Nat /\ k.copy \in Nat
      /\ l.kind \in Nat /\ l.name \in Nat /\ l.copy \in Nat
      /\ k.kind # l.kind \/ k.name # l.name \/ k.copy # l.copy
  BY OutlineAssumption
<1> QED
  BY <1>1 DEF Sorts

\* What is around a symbol comes before it.
LEMMA AroundComesFirst ==
  ASSUME symbols \in SymbolSets, NEW s \in symbols, NEW o \in symbols, s # o
  PROVE  /\ o \in Around(s) <=> Holds(o, s) /\ Precedes(o, s)
         /\ ~(Precedes(o, s) /\ Precedes(s, o))
<1> PICK of, ot, sf, st : of = o.from /\ ot = o.to /\ sf = s.from /\ st = s.to
  OBVIOUS
<1> PICK os \in BOOLEAN, so \in BOOLEAN :
      (os <=> Sorts(o.label, s.label)) /\ (so <=> Sorts(s.label, o.label))
  OBVIOUS
<1>1. of \in Nat /\ ot \in Nat /\ of < ot /\ sf \in Nat /\ st \in Nat /\ sf < st
  BY SymbolsAreRanges
<1>2. of # sf \/ ot # st \/ (os <=> ~so)
  <2>1. of # sf \/ ot # st \/ o.label # s.label
    BY SymbolsDiffer
  <2>2. o.label \in Labels /\ s.label \in Labels
    BY SymbolsAreRanges
  <2> QED
    BY <2>1, <2>2, LabelsAreSorted
<1>3. o \in Around(s) <=> of <= sf /\ st <= ot /\ (sf <= of /\ ot <= st => os)
  BY DEF Around, Holds
<1>4. /\ Holds(o, s) <=> of <= sf /\ st <= ot
      /\ Precedes(o, s) <=> of < sf \/ (of = sf /\ ot > st) \/ (of = sf /\ ot = st /\ os)
      /\ Precedes(s, o) <=> sf < of \/ (sf = of /\ st > ot) \/ (sf = of /\ st = ot /\ so)
  BY DEF Holds, Precedes
<1> QED
  BY <1>1, <1>2, <1>3, <1>4

\* A met symbol that is around one the loop has yet to meet is around the next.
LEMMA AroundALaterOne ==
  ASSUME symbols \in SymbolSets, NEW s \in symbols, NEW o \in symbols, NEW t \in symbols,
         Precedes(o, s), Precedes(s, t), Holds(o, t)
  PROVE  Holds(o, s)
<1> PICK of, ot, sf, st, tf, tt :
      of = o.from /\ ot = o.to /\ sf = s.from /\ st = s.to /\ tf = t.from /\ tt = t.to
  OBVIOUS
<1>1. /\ of \in Nat /\ ot \in Nat /\ of < ot /\ sf \in Nat /\ st \in Nat /\ sf < st
      /\ tf \in Nat /\ tt \in Nat /\ tf < tt
  BY SymbolsAreRanges
<1>2. Disjoint(o, s) \/ Holds(o, s) \/ Holds(s, o)
  BY DEF SymbolSets, NestedOrDisjoint
<1>3. /\ Holds(o, s) <=> of <= sf /\ st <= ot
      /\ Holds(s, o) <=> sf <= of /\ ot <= st
      /\ Disjoint(o, s) <=> ot <= sf \/ st <= of
      /\ of <= tf /\ tt <= ot
      /\ of < sf \/ (of = sf /\ ot > st) \/ (of = sf /\ ot = st)
      /\ sf <= tf
  BY <1>1 DEF Holds, Disjoint, Precedes
<1> QED
  BY <1>1, <1>2, <1>3

\* The open nodes that stay open are those that hold s, and no other does.
LEMMA StillOpenHold ==
  ASSUME OInv, NEW s \in flat
  PROVE  /\ StillOpen(s) \in Seq(Met)
         /\ \E k \in Nat :
              /\ Len(StillOpen(s)) + k = Len(open)
              /\ \A i \in 1..Len(StillOpen(s)) : StillOpen(s)[i] = open[i + k] /\ Holds(open[i + k], s)
              /\ \A i \in 1..Len(open) : i <= k => ~Holds(open[i], s)
<1>1. open \in Seq(Met) /\ Len(open) \in Nat /\ DOMAIN open = 1..Len(open)
  BY DEF OInv
<1>2. CASE ~\E i \in DOMAIN open : Holds(open[i], s)
  <2>1. StillOpen(s) = <<>>
    BY <1>2 DEF StillOpen
  <2>2. Len(StillOpen(s)) + Len(open) = Len(open) /\ 1..Len(StillOpen(s)) = {}
    BY <1>1, <2>1
  <2>3. StillOpen(s) \in Seq(Met)
    BY <2>1
  <2> QED
    BY Zenon, <1>1, <1>2, <2>2, <2>3
<1>3. CASE \E i \in DOMAIN open : Holds(open[i], s)
  <2> DEFINE T == {i \in DOMAIN open : Holds(open[i], s)}
  <2>1. T \subseteq Nat /\ T # {}
    BY <1>1, <1>3
  <2>2. PICK m \in T : \A i \in T : m <= i
    BY <2>1, LeastNatural
  <2>3. m \in DOMAIN open /\ Holds(open[m], s) /\ \A j \in 1..m - 1 : ~Holds(open[j], s)
    BY <1>1, <2>2
  <2> PICK n : n = FirstAround(s)
    OBVIOUS
  <2>4. n \in DOMAIN open /\ Holds(open[n], s) /\ \A j \in 1..n - 1 : ~Holds(open[j], s)
    BY <2>3 DEF FirstAround
  <2>5. StillOpen(s) = SubSeq(open, n, Len(open))
    BY <1>3 DEF StillOpen
  <2>6. n \in 1..Len(open) /\ n - 1 \in Nat
    BY <1>1, <2>4
  <2>7. /\ StillOpen(s) \in Seq(Met) /\ Len(StillOpen(s)) = Len(open) - (n - 1)
        /\ \A i \in 1..Len(StillOpen(s)) : StillOpen(s)[i] = open[i + (n - 1)]
    <3> PICK q : q = StillOpen(s)
      OBVIOUS
    <3>1. q = SubSeq(open, n, Len(open))
      BY <2>5
    <3>2. open \in Seq(Met) /\ n \in 1..Len(open)
      BY <1>1, <2>6
    <3>3. Len(q) = Len(open) - (n - 1) /\ \A i \in 1..Len(q) : q[i] = open[i + (n - 1)]
      BY ONLY <3>1, <3>2
    <3>4. q \in Seq(Met)
      BY ONLY <3>1, <3>2
    <3> QED
      BY <3>3, <3>4
  <2>8. ASSUME NEW i \in 1..Len(StillOpen(s))
        PROVE  Holds(open[i + (n - 1)], s)
    <3>1. i + (n - 1) \in DOMAIN open /\ n <= i + (n - 1)
      BY <1>1, <2>6, <2>7
    <3>2. CASE i + (n - 1) = n
      BY <2>4, <3>2
    <3>3. CASE i + (n - 1) # n
      <4>1. open[i + (n - 1)] \in Around(open[n])
        BY <2>4, <2>6, <3>1, <3>3 DEF OInv, Chained
      <4>2. /\ open[n] \in symbols /\ open[i + (n - 1)] \in symbols /\ s \in symbols
            /\ symbols \in SymbolSets
        BY <1>1, <2>4, <3>1, <4>1 DEF OInv, Met, Around
      <4> PICK a, b : a = open[n] /\ b = open[i + (n - 1)]
        OBVIOUS
      <4>3. /\ a.from \in Nat /\ a.to \in Nat /\ b.from \in Nat /\ b.to \in Nat /\ s.from \in Nat
            /\ s.to \in Nat
        BY <4>2, SymbolsAreRanges
      <4>4. b.from <= a.from /\ a.to <= b.to /\ a.from <= s.from /\ s.to <= a.to
        BY <2>4, <4>1 DEF Around, Holds
      <4> QED
        BY <4>3, <4>4 DEF Holds
    <3> QED
      BY <3>2, <3>3
  <2>9. \A i \in 1..Len(open) : i <= n - 1 => ~Holds(open[i], s)
    BY <2>4, <2>6
  <2>10. Len(StillOpen(s)) + (n - 1) = Len(open) /\ n - 1 \in Nat
    <3> PICK l, h : l = Len(StillOpen(s)) /\ h = Len(open)
      OBVIOUS
    <3>1. l = h - (n - 1) /\ n \in 1..h /\ h \in Nat
      BY <1>1, <2>6, <2>7
    <3>2. l + (n - 1) = h
      BY ONLY <3>1
    <3> QED
      BY <2>6, <3>2
  <2>11. \E k \in Nat :
           /\ Len(StillOpen(s)) + k = Len(open)
           /\ \A i \in 1..Len(StillOpen(s)) : StillOpen(s)[i] = open[i + k] /\ Holds(open[i + k], s)
           /\ \A i \in 1..Len(open) : i <= k => ~Holds(open[i], s)
    <3>1. n - 1 \in Nat
      BY <2>10
    <3> WITNESS n - 1 \in Nat
    <3> QED
      BY <2>7, <2>8, <2>9, <2>10
  <2> QED
    BY <2>7, <2>11
<1> QED
  BY <1>2, <1>3

LEMMA PlaceKeepsOutline ==
  ASSUME OInv, NEW s \in flat, Place(s)
  PROVE  OInv'
<1> PICK kept : kept = StillOpen(s)
  OBVIOUS
<1>1. /\ symbols \in SymbolSets /\ flat \subseteq symbols /\ open \in Seq(Met)
      /\ parent \in [symbols -> symbols \cup {Root}] /\ s \in symbols /\ Met \subseteq symbols
  BY DEF OInv, Met
<1>2. kept \in Seq(Met)
  BY StillOpenHold
<1>3. PICK k \in Nat :
        /\ Len(kept) + k = Len(open)
        /\ \A i \in 1..Len(kept) : kept[i] = open[i + k] /\ Holds(open[i + k], s)
        /\ \A i \in 1..Len(open) : i <= k => ~Holds(open[i], s)
  BY StillOpenHold
<1>4. /\ symbols' = symbols /\ flat' = flat \ {s} /\ open' = <<s>> \o kept
      /\ parent' = [parent EXCEPT ![s] = IF kept = <<>> THEN Root ELSE Head(kept)]
      /\ \A t \in flat \ {s} : Precedes(s, t)
  BY DEF Place
<1>5. Met' = Met \cup {s} /\ s \notin Met
  BY <1>1, <1>4 DEF Met
<1>6. /\ Len(kept) \in Nat /\ Len(open) \in Nat /\ DOMAIN open = 1..Len(open) /\ DOMAIN kept = 1..Len(kept)
      /\ Len(open') = Len(kept) + 1 /\ DOMAIN open' = 1..Len(kept) + 1 /\ open'[1] = s
      /\ \A i \in 1..Len(kept) : open'[i + 1] = kept[i]
  <2>1. Len(kept) \in Nat /\ Len(open) \in Nat /\ DOMAIN open = 1..Len(open) /\ DOMAIN kept = 1..Len(kept)
    BY <1>1, <1>2
  <2>2. <<s>> \in Seq({s}) /\ Len(<<s>>) = 1 /\ <<s>>[1] = s
    OBVIOUS
  <2> PICK q : q = open'
    OBVIOUS
  <2>3. q = <<s>> \o kept
    BY <1>4
  <2>4. Len(q) = Len(kept) + 1 /\ DOMAIN q = 1..Len(kept) + 1 /\ q[1] = s
        /\ \A i \in 1..Len(kept) : q[i + 1] = kept[i]
    BY <1>2, <2>1, <2>3
  <2> QED
    BY <2>1, <2>4
<1>7. open' \in Seq(Met')
  <2> PICK q, M : q = open' /\ M = Met'
    OBVIOUS
  <2>1. kept \in Seq(M) /\ <<s>> \in Seq(M)
    BY <1>2, <1>5
  <2>2. q \in Seq(M)
    BY <1>4, <2>1
  <2> QED
    BY <2>2
<1>8. ASSUME NEW i \in 1..Len(kept)
      PROVE  kept[i] \in Met /\ kept[i] \in symbols /\ kept[i] \in Around(s)
  <2>1. kept[i] \in Met /\ Holds(kept[i], s)
    BY <1>2, <1>3, <1>6
  <2>2. Precedes(kept[i], s) /\ kept[i] # s /\ kept[i] \in symbols
    BY <1>1, <1>5, <2>1 DEF OInv, Ordered
  <2> QED
    BY <1>1, <2>1, <2>2, AroundComesFirst
<1>9. Ordered'
  BY <1>4, <1>5 DEF OInv, Ordered
<1>10. \A t \in symbols : Around(t)' = Around(t)
  BY <1>4 DEF Around
<1>11. Chained'
  <2> SUFFICES ASSUME NEW i \in DOMAIN open', NEW j \in DOMAIN open', i < j
               PROVE  open'[j] \in Around(open'[i])
    <3>1. \A i \in DOMAIN open' : open'[i] \in symbols
      BY <1>1, <1>5, <1>6, <1>8, <1>7
    <3> QED
      BY <1>4 DEF Chained, Around
  <2>1. j - 1 \in 1..Len(kept) /\ open'[j] = kept[j - 1]
    BY <1>6
  <2>2. CASE i = 1
    BY <1>6, <1>8, <2>1, <2>2
  <2>3. CASE i # 1
    <3>1. i - 1 \in 1..Len(kept) /\ open'[i] = kept[i - 1]
      BY <1>6, <2>3
    <3> PICK a, b : a = (i - 1) + k /\ b = (j - 1) + k
      OBVIOUS
    <3>2. kept[i - 1] = open[a] /\ kept[j - 1] = open[b]
      BY <1>3, <2>1, <3>1
    <3> PICK l, h : l = Len(kept) /\ h = Len(open)
      OBVIOUS
    <3>3. /\ l \in Nat /\ h \in Nat /\ l + k = h /\ i - 1 \in 1..l /\ j - 1 \in 1..l /\ i < j
          /\ a = (i - 1) + k /\ b = (j - 1) + k
      BY <1>3, <1>6, <2>1, <3>1
    <3>4. i \in Nat /\ j \in Nat /\ k \in Nat
      BY <1>3, <1>6
    <3>5. a \in 1..h /\ b \in 1..h /\ a < b
      BY ONLY <3>3, <3>4
    <3>6. open[b] \in Around(open[a])
      BY <1>6, <3>5 DEF OInv, Chained
    <3>7. open'[i] = open[a] /\ open'[j] = open[b]
      BY <2>1, <3>1, <3>2
    <3> QED
      BY <3>6, <3>7
  <2> QED
    BY <2>2, <2>3
\* An open node that holds s is among those that stay open.
<1>12. ASSUME NEW o \in Met, Holds(o, s)
       PROVE  \E i \in 1..Len(kept) : kept[i] = o
  <2>1. PICK i \in DOMAIN open : open[i] = o
    BY <1>12 DEF OInv, StillAround
  <2>2. ~(i <= k) /\ i \in Nat
    BY <1>3, <1>6, <1>12, <2>1
  <2>3. i - k \in 1..Len(kept) /\ (i - k) + k = i
    BY <1>3, <1>6, <2>2
  <2>4. kept[i - k] = open[i]
    BY <1>3, <2>3
  <2> QED
    BY <2>1, <2>3, <2>4
<1>13. StillAround'
  <2> SUFFICES ASSUME NEW o \in Met \cup {s}, NEW t \in flat \ {s}, Holds(o, t)
               PROVE  \E i \in DOMAIN open' : open'[i] = o
    BY <1>4, <1>5 DEF StillAround
  <2>1. CASE o = s
    BY <1>6, <2>1
  <2>2. CASE o # s
    <3>1. Precedes(o, s) /\ Precedes(s, t)
      BY <1>4, <2>2 DEF OInv, Ordered
    <3>2. Holds(o, s)
      BY <1>1, <3>1, AroundALaterOne
    <3>3. PICK i \in 1..Len(kept) : kept[i] = o
      BY <1>12, <2>2, <3>2
    <3>4. i + 1 \in DOMAIN open' /\ open'[i + 1] = o
      BY <1>6, <3>3
    <3> QED
      BY <3>4
  <2> QED
    BY <2>1, <2>2
<1>14. parent' \in [symbols -> symbols \cup {Root}]
  <2>1. kept # <<>> => Head(kept) \in symbols
    BY <1>1, <1>2
  <2> QED
    BY <1>1, <1>4, <2>1
<1>15. IF Around(s) = {} THEN parent'[s] = Root
       ELSE parent'[s] \in Around(s) /\ \A o \in Around(s) \ {parent'[s]} : o \in Around(parent'[s])
  <2>1. parent'[s] = IF kept = <<>> THEN Root ELSE Head(kept)
    BY <1>1, <1>4
  <2>2. ASSUME NEW o \in Around(s)
        PROVE  \E i \in 1..Len(kept) : kept[i] = o
    <3>1. o \in symbols /\ o # s
      BY DEF Around
    <3>2. Holds(o, s) /\ Precedes(o, s)
      BY <1>1, <3>1, AroundComesFirst
    <3>3. o \notin flat
      BY <1>1, <1>4, <3>1, <3>2, AroundComesFirst
    <3> QED
      BY <1>12, <3>1, <3>2, <3>3 DEF Met
  <2>3. CASE kept = <<>>
    <3>1. 1..Len(kept) = {}
      BY <2>3
    <3> QED
      BY <2>1, <2>2, <2>3, <3>1
  <2>4. CASE kept # <<>>
    <3>1. 1 \in 1..Len(kept) /\ Head(kept) = kept[1]
      BY <1>2, <2>4
    <3>2. parent'[s] = kept[1] /\ kept[1] \in Around(s)
      BY <1>8, <2>1, <2>4, <3>1
    <3>3. ASSUME NEW o \in Around(s), o # kept[1]
          PROVE  o \in Around(kept[1])
      <4>1. PICK i \in 1..Len(kept) : kept[i] = o
        BY <2>2
      <4>2. i # 1
        BY <3>3, <4>1
      <4>3. /\ kept[1] = open[1 + k] /\ kept[i] = open[i + k]
            /\ 1 + k \in DOMAIN open /\ i + k \in DOMAIN open /\ 1 + k < i + k
        BY <1>3, <1>6, <3>1, <4>2
      <4> QED
        BY <4>1, <4>3 DEF OInv, Chained
    <3> QED
      BY <3>2, <3>3
  <2> QED
    BY <2>3, <2>4
<1>16. ParentIsInnermost'
  <2> SUFFICES ASSUME NEW t \in Met \cup {s}
               PROVE  IF Around(t) = {} THEN parent'[t] = Root
                      ELSE parent'[t] \in Around(t)
                           /\ \A o \in Around(t) \ {parent'[t]} : o \in Around(parent'[t])
    <3>1. \A t \in symbols' \ flat' : t \in Met \cup {s}
      BY <1>5 DEF Met
    <3> QED
      BY <1>4, <3>1 DEF ParentIsInnermost, Around
  <2>1. CASE t = s
    BY <1>15, <2>1
  <2>2. CASE t # s
    <3>1. t \in symbols \ flat /\ parent'[t] = parent[t]
      BY <1>1, <1>4, <2>2 DEF Met
    <3> QED
      BY <3>1 DEF OInv, ParentIsInnermost
  <2> QED
    BY <2>1, <2>2
<1> QED
  BY <1>1, <1>4, <1>7, <1>9, <1>11, <1>13, <1>14, <1>16 DEF OInv

\* For any nested or disjoint ranges, several symbols of one range among them,
\* one stack of open nodes finds the innermost symbol around every symbol
\* (rank_outline.go:117-136).
THEOREM OutlineIsByContainment == OutlineSpec => []ParentIsInnermost
<1>1. OutlineInit(SymbolSets) => OInv
  <2> SUFFICES ASSUME OutlineInit(SymbolSets)
               PROVE  OInv
    OBVIOUS
  <2>1. Met = {} /\ open = <<>> /\ DOMAIN open = {}
    BY DEF OutlineInit, Met
  <2>2. open \in Seq(Met)
    BY <2>1
  <2> QED
    BY <2>1, <2>2 DEF OutlineInit, OInv, Met, Ordered, Chained, StillAround, ParentIsInnermost
<1>2. OInv /\ [OutlineNext]_outlineVars => OInv'
  <2> SUFFICES ASSUME OInv, [OutlineNext]_outlineVars
               PROVE  OInv'
    OBVIOUS
  <2>1. CASE UNCHANGED outlineVars
    <3>1. UNCHANGED <<symbols, flat, open, parent>>
      BY <2>1 DEF outlineVars
    <3> QED
      BY <3>1 DEF OInv, Met, Ordered, Chained, StillAround, ParentIsInnermost, Around
  <2> QED
    BY <2>1, PlaceKeepsOutline DEF OutlineNext
<1>3. OInv => ParentIsInnermost
  BY DEF OInv
<1> QED
  BY <1>1, <1>2, <1>3, PTL DEF OutlineSpec
-----------------------------------------------------------------------------
(* The function around a position.                                         *)

\* One turn of the loop of findFunc, and the loop.
NextBest(functions, at, i, best) ==
  IF Better(functions[i].range, at, best)
    THEN [row |-> functions[i].range.start.row + 1, index |-> i]
    ELSE best

IsLoop(functions, at, n, best) ==
  best = [i \in 0..n |-> IF i = 0 THEN [row |-> 0, index |-> 0]
                                  ELSE NextBest(functions, at, i, best[i - 1])]

LEMMA LoopRuns ==
  ASSUME NEW functions, NEW at, NEW N \in Nat
  PROVE  \E best : IsLoop(functions, at, N, best)
<1> DEFINE T == {n \in Nat : ~\E best : IsLoop(functions, at, n, best)}
<1> SUFFICES ASSUME T # {} PROVE FALSE
  OBVIOUS
<1>1. PICK n \in T : \A k \in T : n <= k
  BY LeastNatural
<1>2. n \in Nat /\ ~\E best : IsLoop(functions, at, n, best)
  OBVIOUS
<1>3. n # 0
  <2> SUFFICES ASSUME n = 0 PROVE FALSE
    OBVIOUS
  <2> PICK best : best = [i \in 0..0 |-> [row |-> 0, index |-> 0]]
    OBVIOUS
  <2>1. \A i \in 0..0 : i = 0
    OBVIOUS
  <2>2. IsLoop(functions, at, 0, best)
    BY <2>1 DEF IsLoop
  <2> QED
    BY <1>2, <2>2
<1>4. n - 1 \in Nat /\ n - 1 \notin T
  BY <1>1, <1>2, <1>3
<1>5. PICK before : IsLoop(functions, at, n - 1, before)
  BY <1>4
<1> PICK best : best = [i \in 0..n |-> IF i = n THEN NextBest(functions, at, n, before[n - 1]) ELSE before[i]]
  OBVIOUS
<1>6. ASSUME NEW i \in 0..n
      PROVE  best[i] = IF i = 0 THEN [row |-> 0, index |-> 0] ELSE NextBest(functions, at, i, best[i - 1])
  <2>1. CASE i = n
    <3>1. n - 1 \in 0..n /\ n - 1 # n
      BY <1>2, <1>4
    <3>2. best[n - 1] = before[n - 1] /\ best[n] = NextBest(functions, at, n, before[n - 1])
      BY <1>2, <3>1
    <3> QED
      BY <1>3, <2>1, <3>2
  <2>2. CASE i # n
    <3>1. i \in 0..n - 1 /\ i \in 0..n
      BY <1>2, <2>2
    <3>2. best[i] = before[i]
      BY <2>2, <3>1
    <3>3. before[i] = IF i = 0 THEN [row |-> 0, index |-> 0] ELSE NextBest(functions, at, i, before[i - 1])
      BY <1>5, <3>1 DEF IsLoop
    <3>4. CASE i = 0
      BY <3>2, <3>3, <3>4
    <3>5. CASE i # 0
      <4>1. i - 1 \in 0..n /\ i - 1 # n
        BY <1>2, <3>1, <3>5
      <4>2. best[i - 1] = before[i - 1]
        BY <4>1
      <4> QED
        BY <3>2, <3>3, <3>5, <4>2
    <3> QED
      BY <3>4, <3>5
  <2> QED
    BY <2>1, <2>2
<1>7. IsLoop(functions, at, n, best)
  BY <1>6 DEF IsLoop
<1> QED
  BY <1>2, <1>7

LEMMA FindFuncIsTheLoop ==
  ASSUME NEW functions, NEW at, Len(functions) \in Nat
  PROVE  \E best : IsLoop(functions, at, Len(functions), best) /\ FindFunc(functions, at) = best[Len(functions)].index
<1>1. PICK best : IsLoop(functions, at, Len(functions), best)
  BY LoopRuns
<1> QED
  BY <1>1, Zenon DEF IsLoop, NextBest, FindFunc

\* Of the functions met so far, the best holds the position, and none that
\* does starts on a later line.
IsBest(functions, at, n, best) ==
  /\ best.index \in 0..n /\ best.row \in Nat
  /\ best.index = 0 => best.row = 0 /\ \A j \in 1..n : ~InRange(functions[j].range, at)
  /\ best.index # 0 => /\ InRange(functions[best.index].range, at)
                       /\ best.row = functions[best.index].range.start.row + 1
  /\ \A j \in 1..n : InRange(functions[j].range, at) => functions[j].range.start.row + 1 <= best.row

LEMMA RowsAreNatural ==
  ASSUME NEW functions \in Seq(Function), NEW j \in 1..Len(functions)
  PROVE  functions[j].range.start.row \in Nat
<1>1. functions[j] \in Function
  OBVIOUS
<1>2. functions[j].range.start \in Point
  BY <1>1 DEF Function
<1> QED
  BY <1>2 DEF Point

LEMMA OneTurnKeepsTheBest ==
  ASSUME NEW functions \in Seq(Function), NEW at, NEW n \in 1..Len(functions),
         NEW best, IsBest(functions, at, n - 1, best)
  PROVE  IsBest(functions, at, n, NextBest(functions, at, n, best))
<1> PICK l : l = Len(functions)
  OBVIOUS
<1>1. l \in Nat /\ n \in 1..l /\ n \in Nat /\ n - 1 \in Nat /\ DOMAIN functions = 1..l
  OBVIOUS
<1>2. \A j \in 1..l : functions[j].range.start.row \in Nat
  BY RowsAreNatural
<1>3. \A j \in 1..n : j \in 1..l /\ (j = n \/ j \in 1..n - 1)
  BY <1>1
<1> PICK row, later : row = functions[n].range.start.row /\ later = NextBest(functions, at, n, best)
  OBVIOUS
<1>4. row \in Nat
  BY <1>1, <1>2
<1>5. best.index \in 0..n - 1 /\ best.row \in Nat
  BY DEF IsBest
<1>6. CASE Better(functions[n].range, at, best)
  <2>1. later.row = row + 1 /\ later.index = n
    BY <1>6 DEF NextBest
  <2>2. InRange(functions[n].range, at) /\ row + 1 > best.row
    BY <1>6 DEF Better
  <2>3. later.index \in 0..n /\ later.row \in Nat /\ later.index # 0
    BY <1>1, <1>4, <2>1
  <2>4. ASSUME NEW j \in 1..n, InRange(functions[j].range, at)
        PROVE  functions[j].range.start.row + 1 <= later.row
    <3>1. CASE j = n
      BY <1>4, <2>1, <3>1
    <3>2. CASE j \in 1..n - 1
      <4>1. functions[j].range.start.row + 1 <= best.row
        BY <2>4, <3>2 DEF IsBest
      <4> PICK r, q : r = functions[j].range.start.row /\ q = best.row
        OBVIOUS
      <4>2. r \in Nat /\ q \in Nat
        BY <1>2, <1>3, <1>5
      <4>3. r + 1 <= q /\ row + 1 > q
        BY <2>2, <4>1
      <4>4. r + 1 <= row + 1
        BY ONLY <1>4, <4>2, <4>3
      <4>5. functions[j].range.start.row + 1 <= row + 1
        BY <4>4
      <4>6. later.row = row + 1
        BY <2>1
      <4> QED
        BY <4>5, <4>6, Zenon
    <3> QED
      BY <1>3, <3>1, <3>2
  <2>5. IsBest(functions, at, n, later)
    BY <2>1, <2>2, <2>3, <2>4 DEF IsBest
  <2> QED
    BY <2>5
<1>7. CASE ~Better(functions[n].range, at, best)
  <2>1. later = best
    BY <1>7 DEF NextBest
  <2>2. InRange(functions[n].range, at) => row + 1 <= best.row
    BY <1>4, <1>5, <1>7 DEF Better
  <2>3. best.index = 0 => ~InRange(functions[n].range, at)
    <3> SUFFICES ASSUME best.index = 0, InRange(functions[n].range, at) PROVE FALSE
      OBVIOUS
    <3>1. row + 1 <= 0
      BY <2>2 DEF IsBest
    <3> QED
      BY <1>4, <3>1
  <2>4. best.index \in 0..n
    BY <1>1, <1>5
  <2>5. best.index = 0 => best.row = 0 /\ \A j \in 1..n : ~InRange(functions[j].range, at)
    BY <1>3, <2>3 DEF IsBest
  <2>6. \A j \in 1..n : InRange(functions[j].range, at) => functions[j].range.start.row + 1 <= best.row
    BY <1>3, <2>2 DEF IsBest
  <2>7. IsBest(functions, at, n, best)
    BY <1>5, <2>4, <2>5, <2>6 DEF IsBest
  <2> QED
    BY <2>1, <2>7
<1> QED
  BY <1>6, <1>7

LEMMA BestIsBest ==
  ASSUME NEW functions \in Seq(Function), NEW at, NEW best, IsLoop(functions, at, Len(functions), best)
  PROVE  IsBest(functions, at, Len(functions), best[Len(functions)])
<1> PICK l : l = Len(functions)
  OBVIOUS
<1>1. l \in Nat
  OBVIOUS
<1> DEFINE T == {n \in 0..l : ~IsBest(functions, at, n, best[n])}
<1> SUFFICES ASSUME T # {} PROVE FALSE
  BY <1>1
<1>2. T \subseteq Nat
  BY <1>1
<1>3. PICK n \in T : \A k \in T : n <= k
  BY <1>2, LeastNatural
<1>4. n \in 0..l /\ ~IsBest(functions, at, n, best[n])
  OBVIOUS
<1>5. CASE n = 0
  <2>1. best[0].row = 0 /\ best[0].index = 0 /\ 1..0 = {}
    BY <1>1 DEF IsLoop
  <2> QED
    BY <1>4, <1>5, <2>1 DEF IsBest
<1>6. CASE n # 0
  <2>1. n \in 1..l /\ n - 1 \in 0..l /\ n - 1 < n
    BY <1>1, <1>4, <1>6
  <2>2. n - 1 \notin T
    BY <1>1, <1>3, <2>1
  <2>3. IsBest(functions, at, n - 1, best[n - 1])
    BY <2>1, <2>2
  <2>4. best[n] = NextBest(functions, at, n, best[n - 1])
    BY <1>4, <1>6 DEF IsLoop
  <2> QED
    BY <1>4, <2>1, <2>3, <2>4, OneTurnKeepsTheBest
<1> QED
  BY <1>5, <1>6

LEMMA FindFuncFinds ==
  ASSUME NEW functions \in Seq(Function), NEW at
  PROVE  /\ FindFunc(functions, at) \in 0..Len(functions)
         /\ FindFunc(functions, at) = 0 => Holding(functions, at) = {}
         /\ FindFunc(functions, at) # 0 =>
              /\ FindFunc(functions, at) \in Holding(functions, at)
              /\ \A m \in Holding(functions, at) :
                   functions[m].range.start.row <= functions[FindFunc(functions, at)].range.start.row
<1> PICK l, n : l = Len(functions) /\ n = FindFunc(functions, at)
  OBVIOUS
<1>1. l \in Nat /\ DOMAIN functions = 1..l
  OBVIOUS
<1>2. PICK best : IsLoop(functions, at, l, best) /\ n = best[l].index
  BY <1>1, FindFuncIsTheLoop
<1>3. IsBest(functions, at, l, best[l])
  BY <1>2, BestIsBest
<1>4. n \in 0..l /\ (n = 0 => Holding(functions, at) = {})
  BY <1>1, <1>2, <1>3 DEF IsBest, Holding
<1>5. ASSUME n # 0
      PROVE  /\ n \in Holding(functions, at)
             /\ \A m \in Holding(functions, at) : functions[m].range.start.row <= functions[n].range.start.row
  <2>1. n \in 1..l /\ InRange(functions[n].range, at)
    BY <1>1, <1>2, <1>3, <1>4, <1>5 DEF IsBest
  <2>2. ASSUME NEW m \in Holding(functions, at)
        PROVE  functions[m].range.start.row <= functions[n].range.start.row
    <3> PICK a, b : a = functions[m].range.start.row /\ b = functions[n].range.start.row
      OBVIOUS
    <3>1. m \in 1..l /\ InRange(functions[m].range, at)
      BY <1>1 DEF Holding
    <3>2. a \in Nat /\ b \in Nat
      BY <2>1, <3>1, RowsAreNatural
    <3>3. a + 1 <= b + 1
      BY <1>2, <1>3, <1>5, <3>1 DEF IsBest
    <3>4. a <= b
      BY ONLY <3>2, <3>3
    <3> QED
      BY <3>4
  <2> QED
    BY <1>1, <2>1, <2>2 DEF Holding
<1> QED
  BY <1>4, <1>5

\* No position is before the end of a range that is before the start of a
\* range that holds it.
LEMMA NothingIsInTwoRangesApart ==
  ASSUME NEW r, NEW s, NEW at \in Point,
         r.start \in Point, r.end \in Point, s.start \in Point, s.end \in Point,
         InRange(r, at), InRange(s, at), AreApart(r, s)
  PROVE  FALSE
<1>1. ASSUME NEW a \in Point, NEW b \in Point, NEW c \in Point,
             Before(c, a), NotAfter(a, b), NotAfter(b, c)
      PROVE  FALSE
  <2> PICK ar, ac, br, bc, cr, cc :
        ar = a.row /\ ac = a.col /\ br = b.row /\ bc = b.col /\ cr = c.row /\ cc = c.col
    OBVIOUS
  <2>1. ar \in Nat /\ ac \in Nat /\ br \in Nat /\ bc \in Nat /\ cr \in Nat /\ cc \in Nat
    BY DEF Point
  <2>2. cr < ar \/ (cr = ar /\ cc < ac)
    BY <1>1 DEF Before
  <2>3. (ar = br /\ ac = bc) \/ ar < br \/ (ar = br /\ ac < bc)
    BY <1>1 DEF Before, NotAfter
  <2>4. (br = cr /\ bc = cc) \/ br < cr \/ (br = cr /\ bc < cc)
    BY <1>1 DEF Before, NotAfter
  <2> QED
    BY <2>1, <2>2, <2>3, <2>4
<1> QED
  BY <1>1 DEF InRange, AreApart

LEMMA TheBestIsInnermost ==
  ASSUME NEW functions \in Seq(Function), NestOrAreApart(functions), NEW at \in Point,
         StartOnTheirOwnLines(functions, at)
  PROVE  IsInnermost(functions, at, FindFunc(functions, at))
<1> PICK n : n = FindFunc(functions, at)
  OBVIOUS
<1>1. /\ n = 0 => Holding(functions, at) = {}
      /\ n # 0 => /\ n \in Holding(functions, at)
                  /\ \A m \in Holding(functions, at) :
                       functions[m].range.start.row <= functions[n].range.start.row
  BY FindFuncFinds
<1>2. CASE n = 0
  BY <1>1, <1>2 DEF IsInnermost
<1>3. CASE n # 0
  <2>1. ASSUME NEW m \in Holding(functions, at)
        PROVE  Within(functions[n].range, functions[m].range)
    <3>1. CASE m = n
      BY <3>1 DEF Within, NotAfter
    <3>2. CASE m # n
      <4> PICK a, b : a = functions[m].range /\ b = functions[n].range
        OBVIOUS
      <4>1. m \in 1..Len(functions) /\ n \in 1..Len(functions)
        BY <1>1, <1>3 DEF Holding
      <4>2. functions[m] \in Function /\ functions[n] \in Function
        BY <4>1
      <4>3. a.start \in Point /\ a.end \in Point /\ b.start \in Point /\ b.end \in Point
        BY <4>2 DEF Function
      <4>4. InRange(a, at) /\ InRange(b, at)
        BY <1>1, <1>3 DEF Holding
      <4>5. a.start.row < b.start.row
        <5>1. a.start.row # b.start.row /\ a.start.row <= b.start.row
          BY <1>1, <1>3, <3>2 DEF StartOnTheirOwnLines
        <5>2. a.start.row \in Nat /\ b.start.row \in Nat
          BY <4>3 DEF Point
        <5> QED
          BY <5>1, <5>2
      <4>6. AreApart(b, a) \/ Within(b, a) \/ Within(a, b)
        BY <4>1 DEF NestOrAreApart
      <4>7. ~AreApart(b, a)
        BY <4>3, <4>4, NothingIsInTwoRangesApart
      <4>8. ~Within(a, b)
        <5> SUFFICES ASSUME NotAfter(b.start, a.start) PROVE FALSE
          BY DEF Within
        <5> PICK p, q : p = a.start.row /\ q = b.start.row
          OBVIOUS
        <5>1. p \in Nat /\ q \in Nat
          BY <4>3 DEF Point
        <5>2. p < q /\ (q = p \/ q < p)
          BY <4>5 DEF NotAfter, Before
        <5> QED
          BY <5>1, <5>2
      <4> QED
        BY <4>6, <4>7, <4>8
    <3> QED
      BY <3>1, <3>2
  <2> QED
    BY <1>1, <1>3, <2>1 DEF IsInnermost
<1> QED
  BY <1>2, <1>3

-----------------------------------------------------------------------------
(* The calls of a file.                                                    *)

LEMMA CodeIsTyped ==
  ASSUME code \in Codes, NEW f \in Files
  PROVE  /\ code[f].functions \in Seq(Function) /\ NestOrAreApart(code[f].functions)
         /\ code[f].others \subseteq OtherSymbol
         /\ Calls(f) \in Seq(CallSite) /\ Len(Calls(f)) \in Nat /\ DOMAIN Calls(f) = 1..Len(Calls(f))
         /\ Captures(f) \in Seq(Capture) /\ Len(Captures(f)) \in Nat
         /\ DOMAIN Captures(f) = 1..Len(Captures(f))
         /\ CalleesAreCaptured(code[f])
<1>1. code[f] \in FileCode
  BY CallersAssumption
<1>2. NestOrAreApart(code[f].functions) /\ CalleesAreCaptured(code[f])
  BY CallersAssumption
<1> QED
  BY <1>1, <1>2 DEF Calls, Captures, FileCode

LEMMA NodeIsIn ==
  ASSUME code \in Codes, NEW f \in Files, NEW node, node.at \in Point, In(f, node) # 0
  PROVE  In(f, node) \in DOMAIN code[f].functions /\ Calling(f, node) \in Function
<1>1. In(f, node) \in 0..Len(code[f].functions)
  BY CodeIsTyped, FindFuncFinds DEF In
<1>2. code[f].functions \in Seq(Function)
  BY CodeIsTyped
<1> QED
  BY <1>1, <1>2 DEF Calling

LEMMA CallIsTyped ==
  ASSUME code \in Codes, NEW f \in Files, NEW i \in 1..Len(Calls(f))
  PROVE  /\ Calls(f)[i].at \in Point /\ Calls(f)[i].callee \in Nat
         /\ In(f, Calls(f)[i]) # 0 =>
              In(f, Calls(f)[i]) \in DOMAIN code[f].functions /\ Calling(f, Calls(f)[i]) \in Function
<1>1. Calls(f)[i] \in CallSite
  BY CodeIsTyped
<1>2. Calls(f)[i].at \in Point /\ Calls(f)[i].callee \in Nat
  BY <1>1 DEF CallSite
<1> QED
  BY <1>2, NodeIsIn

\* A call-site is in a function: the one around the call that starts there.
LEMMA CaptureIsTyped ==
  ASSUME code \in Codes, NEW f \in Files, NEW k \in 1..Len(Captures(f))
  PROVE  /\ Captures(f)[k].at \in Point /\ Captures(f)[k].text \in Nat
         /\ IsCallSite(f, Captures(f)[k]) => Calling(f, Captures(f)[k]) \in Function
<1> PICK capture : capture = Captures(f)[k]
  OBVIOUS
<1>1. capture \in Capture
  BY CodeIsTyped
<1>2. capture.at \in Point /\ capture.text \in Nat
  BY <1>1 DEF Capture
<1>3. ASSUME IsCallSite(f, capture)
      PROVE  Calling(f, capture) \in Function
  <2>1. PICK i \in DOMAIN Calls(f) : In(f, Calls(f)[i]) # 0 /\ Calls(f)[i].at = capture.at
    BY <1>3 DEF IsCallSite, CallPositions
  <2>2. In(f, capture) # 0
    BY <2>1 DEF In
  <2> QED
    BY <1>2, <2>2, NodeIsIn
<1> QED
  BY <1>2, <1>3

\* Whatever ranges nest, findFunc finds the innermost function around a call
\* (calls.go:235-243) where the functions around it start on lines of their own.
THEOREM CallsBelongToTheInnermost == CallersSpec => []CallsAreOfTheInnermost
<1>1. CallersInit(Codes) => code \in Codes
  BY DEF CallersInit
<1>2. code \in Codes /\ [CallersNext]_callersVars => (code \in Codes)'
  BY DEF CallersNext, callersVars, AddUsage, VisitCall, Aggregate
<1>3. code \in Codes => CallsAreOfTheInnermost
  <2> SUFFICES ASSUME code \in Codes, NEW f \in Files, NEW i \in DOMAIN Calls(f),
                      StartOnTheirOwnLines(code[f].functions, Calls(f)[i].at)
               PROVE  IsInnermost(code[f].functions, Calls(f)[i].at, In(f, Calls(f)[i]))
    BY DEF CallsAreOfTheInnermost
  <2>1. i \in 1..Len(Calls(f))
    BY CodeIsTyped
  <2>2. Calls(f)[i].at \in Point
    BY <2>1, CallIsTyped
  <2> QED
    BY <2>2, CodeIsTyped, TheBestIsInnermost DEF In
<1> QED
  BY <1>1, <1>2, <1>3, PTL DEF CallersSpec

\* The calls of f met so far that call `callee` from a function named `name`,
\* and the call-sites so far that have the text `callee` in one.
CallsFrom(f, n, name, callee) ==
  {i \in 1..n : /\ In(f, Calls(f)[i]) # 0 /\ Calling(f, Calls(f)[i]).name = name
                /\ Calls(f)[i].callee = callee}
SitesFrom(f, n, name, callee) ==
  {k \in 1..n : /\ IsCallSite(f, Captures(f)[k]) /\ Calling(f, Captures(f)[k]).name = name
                /\ Captures(f)[k].text = callee}

EdgeRecord == [file: Files, caller: Nat \ {0}, callee: Nat \ {0}, count: Nat]
CallerRecord == [file: Files, name: Nat, kind: STRING, line: Nat, count: Nat]

\* The callers found in f, those of a finished file included.
CallersOf(f) == perCaller[f] \cup {c \in callers : c.file = f}

CallersTyped ==
  /\ code \in Codes
  /\ indexed \in [Files -> Nat] /\ visited \in [Files -> Nat]
  /\ \A f \in Files : indexed[f] <= Len(Captures(f)) /\ visited[f] <= Len(Calls(f))
  /\ perCaller \in [Files -> SUBSET CallerRecord] /\ callers \subseteq CallerRecord
  /\ IsFiniteSet(callers) /\ \A f \in Files : IsFiniteSet(perCaller[f])

EdgesAreCounted ==
  edges = {e \in EdgeRecord :
             /\ SitesFrom(e.file, indexed[e.file], e.caller, e.callee) # {}
             /\ e.count = Cardinality(SitesFrom(e.file, indexed[e.file], e.caller, e.callee))}

FilesFinish ==
  /\ \A f \in Files : \A c \in perCaller[f] : c.file = f
  /\ \A c \in callers : visited[c.file] = Len(Calls(c.file)) /\ perCaller[c.file] = {}

CountedIn(f, n, c) ==
  /\ c.count = Cardinality(CallsFrom(f, n, c.name, Target))
  /\ \E i \in CallsFrom(f, n, c.name, Target) :
       c.kind = Calling(f, Calls(f)[i]).kind /\ c.line = Line(Calling(f, Calls(f)[i]))

AllAndOnlyCallers(f, n, found) ==
  /\ \A c \in found : CountedIn(f, n, c)
  /\ \A i \in 1..n : In(f, Calls(f)[i]) # 0 /\ Calls(f)[i].callee = Target
                       => \E c \in found : c.name = Calling(f, Calls(f)[i]).name
  /\ \A c, d \in found : c.name = d.name => c = d

CallersAreCounted == \A f \in Files : AllAndOnlyCallers(f, visited[f], CallersOf(f))

CInv == CallersTyped /\ EdgesAreCounted /\ FilesFinish /\ CallersAreCounted

LEMMA OneMore ==
  ASSUME NEW A, NEW n \in Nat, NEW S, S = A \cap (1..n), NEW T, T = A \cap (1..n + 1)
  PROVE  /\ IsFiniteSet(S) /\ Cardinality(S) \in Nat
         /\ IF n + 1 \in A THEN T = S \cup {n + 1} /\ Cardinality(T) = Cardinality(S) + 1
                           ELSE T = S
<1>1. S \subseteq 1..n /\ IsFiniteSet(1..n)
  BY FS_Interval
<1>2. IsFiniteSet(S) /\ Cardinality(S) \in Nat
  BY <1>1, FS_Subset, FS_CardinalityType
<1>3. \A i : i \in 1..n + 1 <=> i \in 1..n \/ i = n + 1
  OBVIOUS
<1>4. n + 1 \notin S
  BY <1>1
<1>5. CASE n + 1 \in A
  <2>1. T = S \cup {n + 1}
    BY <1>3, <1>5
  <2>2. Cardinality(T) = Cardinality(S) + 1
    BY <1>2, <1>4, <2>1, FS_AddElement
  <2> QED
    BY <1>2, <1>5, <2>1, <2>2
<1>6. CASE n + 1 \notin A
  BY <1>2, <1>3, <1>6
<1> QED
  BY <1>5, <1>6

LEMMA OneMoreCall ==
  ASSUME NEW f, NEW n \in Nat, NEW name, NEW callee
  PROVE  /\ IsFiniteSet(CallsFrom(f, n, name, callee))
         /\ Cardinality(CallsFrom(f, n, name, callee)) \in Nat
         /\ LET call == Calls(f)[n + 1]
            IN IF In(f, call) # 0 /\ Calling(f, call).name = name /\ call.callee = callee
               THEN /\ CallsFrom(f, n + 1, name, callee) = CallsFrom(f, n, name, callee) \cup {n + 1}
                    /\ Cardinality(CallsFrom(f, n + 1, name, callee))
                         = Cardinality(CallsFrom(f, n, name, callee)) + 1
               ELSE CallsFrom(f, n + 1, name, callee) = CallsFrom(f, n, name, callee)
<1> PICK S, T, A : /\ S = CallsFrom(f, n, name, callee) /\ T = CallsFrom(f, n + 1, name, callee)
                   /\ A = {i \in Nat : /\ In(f, Calls(f)[i]) # 0 /\ Calling(f, Calls(f)[i]).name = name
                                       /\ Calls(f)[i].callee = callee}
  OBVIOUS
<1>1. S = A \cap (1..n) /\ T = A \cap (1..n + 1)
  BY DEF CallsFrom
<1>2. n + 1 \in A <=> /\ In(f, Calls(f)[n + 1]) # 0 /\ Calling(f, Calls(f)[n + 1]).name = name
                      /\ Calls(f)[n + 1].callee = callee
  OBVIOUS
<1> QED
  BY <1>1, <1>2, OneMore

LEMMA OneMoreSite ==
  ASSUME NEW f, NEW n \in Nat, NEW name, NEW callee
  PROVE  /\ IsFiniteSet(SitesFrom(f, n, name, callee))
         /\ Cardinality(SitesFrom(f, n, name, callee)) \in Nat
         /\ LET capture == Captures(f)[n + 1]
            IN IF IsCallSite(f, capture) /\ Calling(f, capture).name = name /\ capture.text = callee
               THEN /\ SitesFrom(f, n + 1, name, callee) = SitesFrom(f, n, name, callee) \cup {n + 1}
                    /\ Cardinality(SitesFrom(f, n + 1, name, callee))
                         = Cardinality(SitesFrom(f, n, name, callee)) + 1
               ELSE SitesFrom(f, n + 1, name, callee) = SitesFrom(f, n, name, callee)
<1> PICK S, T, A : /\ S = SitesFrom(f, n, name, callee) /\ T = SitesFrom(f, n + 1, name, callee)
                   /\ A = {k \in Nat : /\ IsCallSite(f, Captures(f)[k])
                                       /\ Calling(f, Captures(f)[k]).name = name
                                       /\ Captures(f)[k].text = callee}
  OBVIOUS
<1>1. S = A \cap (1..n) /\ T = A \cap (1..n + 1)
  BY DEF SitesFrom
<1>2. n + 1 \in A <=> /\ IsCallSite(f, Captures(f)[n + 1]) /\ Calling(f, Captures(f)[n + 1]).name = name
                      /\ Captures(f)[n + 1].text = callee
  OBVIOUS
<1> QED
  BY <1>1, <1>2, OneMore

LEMMA SitesStay ==
  ASSUME code' = code
  PROVE  \A f, n, name, callee : SitesFrom(f, n, name, callee)' = SitesFrom(f, n, name, callee)
<1>1. \A f : Calls(f)' = Calls(f) /\ Captures(f)' = Captures(f)
  BY DEF Calls, Captures
<1>2. \A f, x : In(f, x)' = In(f, x) /\ Calling(f, x)' = Calling(f, x)
  BY DEF In, Calling
<1>3. ASSUME NEW f PROVE CallPositions(f)' = CallPositions(f)
  <2>1. \A at : at \in CallPositions(f) <=> \E i \in DOMAIN Calls(f) :
                                             In(f, Calls(f)[i]) # 0 /\ at = Calls(f)[i].at
    BY DEF CallPositions
  <2>2. \A at : at \in CallPositions(f)' <=> \E i \in DOMAIN Calls(f) :
                                              In(f, Calls(f)[i]) # 0 /\ at = Calls(f)[i].at
    BY <1>1, <1>2 DEF CallPositions
  <2> QED
    BY <2>1, <2>2
<1>4. \A f, x : IsCallSite(f, x)' <=> IsCallSite(f, x)
  BY <1>3 DEF IsCallSite
<1> SUFFICES ASSUME NEW f, NEW n, NEW name, NEW callee
             PROVE  SitesFrom(f, n, name, callee)' = SitesFrom(f, n, name, callee)
  OBVIOUS
<1> QED
  BY <1>1, <1>2, <1>4 DEF SitesFrom

LEMMA CountedMembers ==
  ASSUME NEW entries, NEW same, NEW fresh, NEW e
  PROVE  e \in Counted(entries, same, fresh) <=>
           \/ e \in entries \ same
           \/ same = {} /\ e = fresh
           \/ \E d \in same : e = [d EXCEPT !.count = @ + 1]
<1>1. CASE same = {}
  BY <1>1 DEF Counted
<1>2. CASE same # {}
  BY <1>2 DEF Counted
<1> QED
  BY <1>1, <1>2

\* The next usage of f into the graph.
LEMMA AddUsageCounts ==
  ASSUME CallersTyped, EdgesAreCounted, NEW f \in Files, AddUsage(f)
  PROVE  EdgesAreCounted'
<1> PICK n, capture, caller, callee :
      /\ n = indexed[f] /\ capture = Captures(f)[n + 1]
      /\ caller = Calling(f, capture).name /\ callee = capture.text
  OBVIOUS
<1>1. /\ n \in Nat /\ n + 1 \in 1..Len(Captures(f)) /\ code' = code /\ code \in Codes
      /\ \A g \in Files : indexed'[g] = IF g = f THEN n + 1 ELSE indexed[g]
      /\ \A g \in Files : indexed[g] \in Nat
  <2>1. n \in Nat /\ n < Len(Captures(f)) /\ code' = code /\ code \in Codes /\ indexed \in [Files -> Nat]
        /\ indexed' = [indexed EXCEPT ![f] = n + 1]
    BY DEF AddUsage, CallersTyped
  <2>2. Len(Captures(f)) \in Nat
    BY <2>1, CodeIsTyped
  <2> QED
    BY <2>1, <2>2
<1>2. IsEdge(f, capture) => caller \in Nat \ {0} /\ callee \in Nat \ {0}
  BY <1>1, CaptureIsTyped DEF IsEdge, Function
<1>3. ASSUME NEW e \in EdgeRecord
      PROVE  e \in edges <=> /\ SitesFrom(e.file, indexed[e.file], e.caller, e.callee) # {}
                             /\ e.count = Cardinality(SitesFrom(e.file, indexed[e.file], e.caller, e.callee))
  BY DEF EdgesAreCounted
<1>4. edges \subseteq EdgeRecord
  BY DEF EdgesAreCounted
\* Only the count of the edge of this call changes.
<1>5. ASSUME NEW e \in EdgeRecord,
             ~(IsEdge(f, capture) /\ e.file = f /\ e.caller = caller /\ e.callee = callee)
      PROVE  SitesFrom(e.file, indexed'[e.file], e.caller, e.callee)
               = SitesFrom(e.file, indexed[e.file], e.caller, e.callee)
  <2>1. e.file \in Files /\ e.caller # 0 /\ e.callee # 0
    BY DEF EdgeRecord
  <2>2. CASE e.file # f
    BY <1>1, <2>1, <2>2
  <2>3. CASE e.file = f
    <3>1. ~(IsCallSite(f, capture) /\ Calling(f, capture).name = e.caller /\ capture.text = e.callee)
      BY <1>5, <2>1, <2>3 DEF IsEdge
    <3>2. SitesFrom(f, n + 1, e.caller, e.callee) = SitesFrom(f, n, e.caller, e.callee)
      BY <1>1, <3>1, OneMoreSite
    <3> QED
      BY <1>1, <2>3, <3>2
  <2> QED
    BY <2>2, <2>3
<1>6. ASSUME NEW e
      PROVE  e \in edges' <=>
               /\ e \in EdgeRecord
               /\ SitesFrom(e.file, indexed'[e.file], e.caller, e.callee) # {}
               /\ e.count = Cardinality(SitesFrom(e.file, indexed'[e.file], e.caller, e.callee))
  <2>1. CASE ~IsEdge(f, capture)
    <3>1. edges' = edges
      BY <2>1 DEF AddUsage
    <3> QED
      BY <1>3, <1>4, <1>5, <2>1, <3>1
  <2>2. CASE IsEdge(f, capture)
    <3> PICK same, fresh, S :
          /\ same = SameEdge(f, caller, callee)
          /\ fresh = [file |-> f, caller |-> caller, callee |-> callee, count |-> 1]
          /\ S = SitesFrom(f, n, caller, callee)
      OBVIOUS
    <3>1. edges' = Counted(edges, same, fresh)
      BY <2>2 DEF AddUsage
    <3>2. /\ SitesFrom(f, n + 1, caller, callee) = S \cup {n + 1}
          /\ Cardinality(SitesFrom(f, n + 1, caller, callee)) = Cardinality(S) + 1
          /\ IsFiniteSet(S) /\ Cardinality(S) \in Nat
      BY <1>1, <2>2, OneMoreSite DEF IsEdge
    <3>3. fresh \in EdgeRecord
      BY <1>2, <2>2 DEF EdgeRecord
    <3>4. \A d \in EdgeRecord : d \in same <=> /\ d.file = f /\ d.caller = caller /\ d.callee = callee
                                               /\ S # {} /\ d.count = Cardinality(S)
      BY <1>3 DEF SameEdge
    <3>5. same \subseteq EdgeRecord
      BY <1>4 DEF SameEdge
    <3>6. ASSUME NEW d \in EdgeRecord
          PROVE  /\ [d EXCEPT !.count = @ + 1] \in EdgeRecord
                 /\ [d EXCEPT !.count = @ + 1].file = d.file
                 /\ [d EXCEPT !.count = @ + 1].caller = d.caller
                 /\ [d EXCEPT !.count = @ + 1].callee = d.callee
                 /\ [d EXCEPT !.count = @ + 1].count = d.count + 1
      BY DEF EdgeRecord
    <3>7. edges' \subseteq EdgeRecord
      BY <1>4, <3>1, <3>3, <3>5, <3>6, CountedMembers
    <3>8. CASE e \in EdgeRecord /\ ~(e.file = f /\ e.caller = caller /\ e.callee = callee)
      <4>1. e \notin same /\ e # fresh
        BY <3>4, <3>8
      <4>2. \A d \in same : e # [d EXCEPT !.count = @ + 1]
        <5> SUFFICES ASSUME NEW d \in same, e = [d EXCEPT !.count = @ + 1] PROVE FALSE
          OBVIOUS
        <5>1. d \in EdgeRecord /\ d.file = f /\ d.caller = caller /\ d.callee = callee
          BY <3>4, <3>5
        <5>2. e.file = d.file /\ e.caller = d.caller /\ e.callee = d.callee
          BY <3>6, <5>1
        <5> QED
          BY <3>8, <5>1, <5>2
      <4>3. e \in edges' <=> e \in edges
        BY <3>1, <4>1, <4>2, CountedMembers
      <4> QED
        BY <1>3, <1>5, <3>8, <4>3
    <3>9. CASE e \in EdgeRecord /\ e.file = f /\ e.caller = caller /\ e.callee = callee
      <4>1. SitesFrom(e.file, indexed'[e.file], e.caller, e.callee) = SitesFrom(f, n + 1, caller, callee)
        BY <1>1, <3>9
      <4>2. e \notin edges \ same
        BY <3>9 DEF SameEdge
      <4>3. e \in edges' <=> e.count = Cardinality(S) + 1
        <5>1. CASE S = {}
          <6>1. same = {} /\ Cardinality(S) = 0
            BY <3>4, <3>5, <5>1, FS_EmptySet
          <6>2. e = fresh <=> e.count = 1
            BY <3>9 DEF EdgeRecord
          <6> QED
            BY <3>1, <4>2, <6>1, <6>2, CountedMembers
        <5>2. CASE S # {}
          <6> PICK d : d = [file |-> f, caller |-> caller, callee |-> callee, count |-> Cardinality(S)]
            OBVIOUS
          <6>1. same = {d} /\ d \in EdgeRecord /\ d.count = Cardinality(S)
            <7>1. d \in EdgeRecord /\ d.count = Cardinality(S)
                  /\ d.file = f /\ d.caller = caller /\ d.callee = callee
              BY <1>2, <2>2, <3>2 DEF EdgeRecord
            <7>2. \A x \in EdgeRecord : (/\ x.file = f /\ x.caller = caller /\ x.callee = callee
                                         /\ x.count = Cardinality(S)) => x = d
              BY DEF EdgeRecord
            <7> QED
              BY <3>4, <3>5, <5>2, <7>1, <7>2
          <6>2. e \in edges' <=> e = [d EXCEPT !.count = @ + 1]
            BY <3>1, <4>2, <6>1, CountedMembers
          <6>3. [d EXCEPT !.count = @ + 1]
                  = [file |-> f, caller |-> caller, callee |-> callee, count |-> Cardinality(S) + 1]
            OBVIOUS
          <6>4. e = [file |-> f, caller |-> caller, callee |-> callee, count |-> Cardinality(S) + 1]
                  <=> e.count = Cardinality(S) + 1
            BY <3>9 DEF EdgeRecord
          <6> QED
            BY <6>2, <6>3, <6>4
        <5> QED
          BY <5>1, <5>2
      <4> QED
        BY <3>2, <3>9, <4>1, <4>3
    <3> QED
      BY <3>7, <3>8, <3>9
  <2> QED
    BY <2>1, <2>2
<1>7. edges' = {e \in EdgeRecord :
                  /\ SitesFrom(e.file, indexed'[e.file], e.caller, e.callee) # {}
                  /\ e.count = Cardinality(SitesFrom(e.file, indexed'[e.file], e.caller, e.callee))}
  BY <1>6
<1> QED
  BY <1>1, <1>7, SitesStay DEF EdgesAreCounted

\* The callers P of f with the caller of this call.
WithCaller(f, call, P) ==
  Counted(P, {c \in P : c.name = Calling(f, call).name}, FirstCall(f, call))

CallersSoFar(f, n, P) ==
  P \subseteq CallerRecord /\ (\A c \in P : c.file = f) /\ IsFiniteSet(P) /\ AllAndOnlyCallers(f, n, P)

\* The callers of f after one call more.
LEMMA NextCallCounts ==
  ASSUME code \in Codes, NEW f \in Files, NEW n \in Nat, n < Len(Calls(f)),
         NEW P, CallersSoFar(f, n, P), Calls(f)[n + 1].callee = Target, In(f, Calls(f)[n + 1]) # 0
  PROVE  CallersSoFar(f, n + 1, WithCaller(f, Calls(f)[n + 1], P))
<1> PICK Q : Q = WithCaller(f, Calls(f)[n + 1], P)
  OBVIOUS
<1> USE DEF CallersSoFar
<1> PICK call : call = Calls(f)[n + 1]
  OBVIOUS
<1> PICK name, same, fresh :
      name = Calling(f, call).name /\ same = {c \in P : c.name = name} /\ fresh = FirstCall(f, call)
  OBVIOUS
<1>1. n + 1 \in 1..Len(Calls(f)) /\ \A i : i \in 1..n + 1 <=> i \in 1..n \/ i = n + 1
  BY CodeIsTyped
<1>2. In(f, call) # 0 /\ Calling(f, call) \in Function /\ name \in Nat
  BY <1>1, CallIsTyped DEF Function
<1>3. Calling(f, call).kind \in STRING /\ Line(Calling(f, call)) \in Nat
  BY <1>2 DEF Function, Point, Line
<1>4. /\ fresh \in CallerRecord /\ fresh.file = f /\ fresh.name = name /\ fresh.count = 1
      /\ fresh.kind = Calling(f, call).kind /\ fresh.line = Line(Calling(f, call))
  BY <1>2, <1>3 DEF CallerRecord, FirstCall
<1>5. ASSUME NEW d \in CallerRecord
      PROVE  /\ [d EXCEPT !.count = @ + 1] \in CallerRecord
             /\ [d EXCEPT !.count = @ + 1].file = d.file
             /\ [d EXCEPT !.count = @ + 1].name = d.name
             /\ [d EXCEPT !.count = @ + 1].kind = d.kind
             /\ [d EXCEPT !.count = @ + 1].line = d.line
             /\ [d EXCEPT !.count = @ + 1].count = d.count + 1
  BY SMTT(30) DEF CallerRecord
<1>6. ASSUME NEW e
      PROVE  e \in Q <=> \/ e \in P \ same
                         \/ same = {} /\ e = fresh
                         \/ \E d \in same : e = [d EXCEPT !.count = @ + 1]
  BY CountedMembers DEF WithCaller
<1>7. same \subseteq P /\ same \subseteq CallerRecord
  OBVIOUS
<1>8. Q \subseteq CallerRecord
  BY <1>4, <1>5, <1>6, <1>7
<1>9. ASSUME NEW c \in Q PROVE c.file = f
  <2>1. CASE c \in P \/ c = fresh
    BY <1>4, <2>1
  <2>2. CASE \E d \in same : c = [d EXCEPT !.count = @ + 1]
    <3>1. PICK d \in same : c = [d EXCEPT !.count = @ + 1]
      BY <2>2
    <3>2. d \in CallerRecord /\ d.file = f
      BY <1>7
    <3> QED
      BY <1>5, <3>1, <3>2
  <2> QED
    BY <1>6, <2>1, <2>2
<1>10. IsFiniteSet(Q)
  <2>1. IsFiniteSet(P \ same) /\ IsFiniteSet(same) /\ IsFiniteSet({fresh})
    <3>1. IsFiniteSet(P \ same)
      BY FS_Difference
    <3>2. IsFiniteSet(same)
      BY <1>7, FS_Subset
    <3> QED
      BY <3>1, <3>2, FS_Singleton
  <2>2. IsFiniteSet({[d EXCEPT !.count = @ + 1] : d \in same})
    <3>1. \A a, b \in same : a = b
      BY DEF AllAndOnlyCallers
    <3>2. CASE same = {}
      <4>1. {[d EXCEPT !.count = @ + 1] : d \in same} = {}
        BY <3>2
      <4> QED
        BY <4>1, FS_EmptySet
    <3>3. CASE same # {}
      <4>1. PICK a \in same : same = {a}
        BY <3>1, <3>3
      <4> PICK later : later = [a EXCEPT !.count = @ + 1]
        OBVIOUS
      <4>2. {[d EXCEPT !.count = @ + 1] : d \in same} = {later}
        BY <4>1
      <4>3. IsFiniteSet({later})
        BY FS_Singleton
      <4> QED
        BY <4>2, <4>3
    <3> QED
      BY <3>2, <3>3
  <2>3. IsFiniteSet((P \ same) \cup {fresh}) /\ IsFiniteSet((P \ same) \cup {[d EXCEPT !.count = @ + 1] : d \in same})
    BY <2>1, <2>2, FS_Union
  <2> QED
    BY <2>3 DEF Counted, WithCaller
<1>11. ASSUME NEW other
       PROVE  IF other = name
              THEN /\ CallsFrom(f, n + 1, other, Target) = CallsFrom(f, n, other, Target) \cup {n + 1}
                   /\ Cardinality(CallsFrom(f, n + 1, other, Target))
                        = Cardinality(CallsFrom(f, n, other, Target)) + 1
              ELSE CallsFrom(f, n + 1, other, Target) = CallsFrom(f, n, other, Target)
  <2>1. In(f, Calls(f)[n + 1]) # 0 /\ Calls(f)[n + 1].callee = Target
        /\ Calling(f, Calls(f)[n + 1]).name = name
    BY <1>2
  <2> QED
    BY <2>1, OneMoreCall
<1>12. \A c \in P : CountedIn(f, n, c)
  BY DEF AllAndOnlyCallers
<1>13. ASSUME NEW c \in Q
       PROVE  CountedIn(f, n + 1, c)
  <2>1. CASE c \in P \ same
    <3>1. c.name # name
      BY <2>1
    <3> QED
      BY <1>11, <1>12, <2>1, <3>1 DEF CountedIn
  <2>2. CASE same = {} /\ c = fresh
    <3>1. CallsFrom(f, n, name, Target) = {}
      <4> SUFFICES ASSUME NEW i \in CallsFrom(f, n, name, Target) PROVE FALSE
        OBVIOUS
      <4>1. \E d \in P : d.name = name
        BY DEF AllAndOnlyCallers, CallsFrom
      <4> QED
        BY <2>2, <4>1
    <3>2. n + 1 \in CallsFrom(f, n + 1, name, Target) /\ Cardinality(CallsFrom(f, n + 1, name, Target)) = 1
      <4>1. CallsFrom(f, n + 1, name, Target) = CallsFrom(f, n, name, Target) \cup {n + 1}
        BY <1>11
      <4> QED
        <5>1. CallsFrom(f, n + 1, name, Target) = {n + 1}
          BY <3>1, <4>1
        <5>2. Cardinality({n + 1}) = 1
          BY FS_Singleton
        <5> QED
          BY <5>1, <5>2
    <3>3. CountedIn(f, n + 1, fresh)
      BY <1>4, <3>2 DEF CountedIn
    <3> QED
      BY <2>2, <3>3
  <2>3. CASE \E d \in same : c = [d EXCEPT !.count = @ + 1]
    <3>1. PICK d \in same : c = [d EXCEPT !.count = @ + 1]
      BY <2>3
    <3>2. CountedIn(f, n, d) /\ d.name = name /\ d \in CallerRecord
      BY <1>7, <1>12
    <3>3. c.name = name /\ c.kind = d.kind /\ c.line = d.line /\ c.count = d.count + 1
      BY <1>5, <3>1, <3>2
    <3> QED
      BY <1>11, <3>2, <3>3 DEF CountedIn
  <2> QED
    BY <1>6, <2>1, <2>2, <2>3
<1>14. \E c \in Q : c.name = name
  <2>1. CASE same = {}
    BY <1>4, <1>6, <2>1
  <2>2. CASE same # {}
    <3> PICK d \in same : TRUE
      BY <2>2
    <3>1. [d EXCEPT !.count = @ + 1] \in Q /\ [d EXCEPT !.count = @ + 1].name = name
      BY <1>5, <1>6, <1>7
    <3> QED
      BY <3>1
  <2> QED
    BY <2>1, <2>2
<1>15. ASSUME NEW i \in 1..n + 1, In(f, Calls(f)[i]) # 0, Calls(f)[i].callee = Target
       PROVE  \E c \in Q : c.name = Calling(f, Calls(f)[i]).name
  <2>1. CASE Calling(f, Calls(f)[i]).name = name
    BY <1>14, <2>1
  <2>2. CASE Calling(f, Calls(f)[i]).name # name
    <3>1. i \in 1..n
      BY <1>1, <2>2
    <3>2. PICK c \in P : c.name = Calling(f, Calls(f)[i]).name
      BY <1>15, <3>1 DEF AllAndOnlyCallers
    <3>3. c \in P \ same
      BY <2>2, <3>2
    <3> QED
      BY <1>6, <3>2, <3>3
  <2> QED
    BY <2>1, <2>2
<1>16. \A c, d \in P : c.name = d.name => c = d
  BY DEF AllAndOnlyCallers
<1>17. ASSUME NEW c \in Q, NEW d \in Q, c.name = d.name PROVE c = d
  <2>1. ASSUME NEW e \in Q, e.name # name PROVE e \in P
    <3>1. e \notin {fresh}
      BY <1>4, <2>1
    <3>2. \A b \in same : e # [b EXCEPT !.count = @ + 1]
      BY <1>5, <1>7, <2>1
    <3> QED
      BY <1>6, <3>1, <3>2
  <2>2. ASSUME NEW e \in Q, e.name = name
        PROVE  (same = {} /\ e = fresh) \/ \E b \in same : e = [b EXCEPT !.count = @ + 1]
    BY <1>6, <2>2
  <2>3. \A a, b \in same : a = b
    BY <1>16
  <2>4. CASE c.name = name
    BY <1>17, <2>2, <2>3, <2>4
  <2>5. CASE c.name # name
    BY <1>16, <1>17, <2>1, <2>5
  <2> QED
    BY <2>4, <2>5
<1>18. AllAndOnlyCallers(f, n + 1, Q)
  BY <1>13, <1>15, <1>17 DEF AllAndOnlyCallers
<1> QED
  BY <1>8, <1>9, <1>10, <1>18

LEMMA AnotherCallCountsNothing ==
  ASSUME NEW f, NEW n \in Nat, NEW P, AllAndOnlyCallers(f, n, P),
         NEW call, call = Calls(f)[n + 1], ~(call.callee = Target /\ In(f, call) # 0)
  PROVE  AllAndOnlyCallers(f, n + 1, P)
<1>1. \A i : i \in 1..n + 1 <=> i \in 1..n \/ i = n + 1
  OBVIOUS
<1>2. ~(In(f, call) # 0 /\ call.callee = Target)
  OBVIOUS
<1>3. ASSUME NEW name
      PROVE  CallsFrom(f, n + 1, name, Target) = CallsFrom(f, n, name, Target)
  BY <1>2, OneMoreCall
<1>4. \A c \in P : CountedIn(f, n + 1, c)
  BY <1>3 DEF AllAndOnlyCallers, CountedIn
<1> QED
  BY <1>1, <1>2, <1>4 DEF AllAndOnlyCallers

\* The rest of the invariant when a usage enters the graph.
LEMMA AddUsageKeepsCInv ==
  ASSUME CInv, NEW f \in Files, AddUsage(f)
  PROVE  CInv'
<1>1. EdgesAreCounted'
  BY AddUsageCounts DEF CInv
<1>2. /\ code' = code /\ visited' = visited /\ perCaller' = perCaller /\ callers' = callers
      /\ indexed' = [indexed EXCEPT ![f] = @ + 1] /\ indexed[f] < Len(Captures(f))
  BY DEF AddUsage
<1>3. CallersTyped'
  <2>1. \A g \in Files : /\ Calls(g)' = Calls(g) /\ Captures(g)' = Captures(g)
                         /\ Len(Captures(g)) \in Nat
    BY <1>2, CodeIsTyped DEF CInv, CallersTyped, Calls, Captures
  <2>2. indexed' \in [Files -> Nat] /\ \A g \in Files : indexed'[g] <= Len(Captures(g))
    BY <1>2, <2>1 DEF CInv, CallersTyped
  <2> QED
    BY <1>2, <2>1, <2>2 DEF CInv, CallersTyped
<1>4. FilesFinish'
  BY <1>2 DEF CInv, FilesFinish, Calls
<1>5. CallersAreCounted'
  <2>1. ASSUME NEW g \in Files
        PROVE  AllAndOnlyCallers(g, visited[g], CallersOf(g))'
    <3>1. AllAndOnlyCallers(g, visited[g], CallersOf(g))
      BY DEF CInv, CallersAreCounted
    <3>2. code' = code /\ visited' = visited /\ perCaller' = perCaller /\ callers' = callers
      BY <1>2
    <3> QED
      BY ONLY <3>1, <3>2 DEF AllAndOnlyCallers, CountedIn, CallersOf, CallsFrom, Calling, In, Calls
  <2> QED
    BY <2>1 DEF CallersAreCounted
<1> QED
  BY <1>1, <1>3, <1>4, <1>5 DEF CInv

\* The next call of the walk.
LEMMA VisitCallKeepsCInv ==
  ASSUME CInv, NEW f \in Files, VisitCall(f)
  PROVE  CInv'
<1> PICK n, call, P, Q :
      n = visited[f] /\ call = Calls(f)[n + 1] /\ P = perCaller[f] /\ Q = perCaller'[f]
  OBVIOUS
<1>1. /\ code' = code /\ indexed' = indexed /\ edges' = edges /\ callers' = callers /\ code \in Codes
      /\ n \in Nat /\ n < Len(Calls(f)) /\ visited' = [visited EXCEPT ![f] = n + 1]
      /\ visited \in [Files -> Nat] /\ perCaller \in [Files -> SUBSET CallerRecord]
      /\ IsFiniteSet(P)
  BY DEF VisitCall, CInv, CallersTyped
<1>2. \A g \in Files : /\ Calls(g)' = Calls(g) /\ Captures(g)' = Captures(g)
                       /\ Len(Calls(g)) \in Nat
  BY <1>1, CodeIsTyped DEF Calls, Captures
<1>3. \A c \in callers : c.file # f /\ c.file \in Files
  BY <1>1 DEF CInv, CallersTyped, FilesFinish, CallerRecord
<1>4. CallersOf(f) = P /\ P \subseteq CallerRecord /\ \A c \in P : c.file = f
  BY <1>1, <1>3 DEF CallersOf, CInv, FilesFinish
<1>5. AllAndOnlyCallers(f, n, P)
  BY <1>4 DEF CInv, CallersAreCounted
<1>6. /\ \A g \in Files : perCaller'[g] = IF g = f THEN Q ELSE perCaller[g]
      /\ perCaller' = [g \in Files |-> IF g = f THEN Q ELSE perCaller[g]]
  BY <1>1 DEF VisitCall
<1>7. CallersSoFar(f, n + 1, Q)
  <2>1. CASE call.callee = Target /\ In(f, call) # 0
    <3>1. Q = WithCaller(f, call, P)
      BY <1>1, <2>1 DEF VisitCall, WithCaller
    <3>2. Calls(f)[n + 1].callee = Target /\ In(f, Calls(f)[n + 1]) # 0
      BY <2>1
    <3>3. CallersSoFar(f, n, P)
      BY <1>1, <1>4, <1>5 DEF CallersSoFar
    <3>4. CallersSoFar(f, n + 1, WithCaller(f, Calls(f)[n + 1], P))
      BY <1>1, <3>2, <3>3, NextCallCounts
    <3> QED
      BY <3>1, <3>4
  <2>2. CASE ~(call.callee = Target /\ In(f, call) # 0)
    <3>1. Q = P
      BY <2>2 DEF VisitCall
    <3> QED
      BY <1>1, <1>4, <1>5, <2>2, <3>1, AnotherCallCountsNothing DEF CallersSoFar
  <2> QED
    BY <2>1, <2>2
<1>8. CallersTyped'
  <2>1. \A g \in Files : visited'[g] <= Len(Calls(g))
    BY <1>1, <1>2 DEF CInv, CallersTyped
  <2>2. visited' \in [Files -> Nat] /\ perCaller' \in [Files -> SUBSET CallerRecord]
    BY <1>1, <1>6, <1>7 DEF CallersSoFar
  <2>3. \A g \in Files : IsFiniteSet(perCaller'[g])
    BY <1>6, <1>7 DEF CallersSoFar, CInv, CallersTyped
  <2> QED
    BY <1>1, <1>2, <2>1, <2>2, <2>3 DEF CInv, CallersTyped
<1>9. EdgesAreCounted'
  BY <1>1, SitesStay DEF CInv, EdgesAreCounted
<1>10. FilesFinish'
  <2>1. \A g \in Files : \A c \in perCaller'[g] : c.file = g
    BY <1>6, <1>7 DEF CallersSoFar, CInv, FilesFinish
  <2>2. \A c \in callers : visited'[c.file] = Len(Calls(c.file)) /\ perCaller'[c.file] = {}
    BY <1>1, <1>3, <1>6 DEF CInv, FilesFinish
  <2> QED
    BY <1>1, <1>2, <1>3, <2>1, <2>2 DEF FilesFinish
<1>11. CallersAreCounted'
  <2>1. ASSUME NEW g \in Files
        PROVE  AllAndOnlyCallers(g, visited'[g], perCaller'[g] \cup {c \in callers : c.file = g})
    <3>1. CASE g = f
      <4>1. perCaller'[g] \cup {c \in callers : c.file = g} = Q /\ visited'[g] = n + 1
        BY <1>1, <1>3, <1>6, <3>1
      <4> QED
        BY <1>7, <3>1, <4>1 DEF CallersSoFar
    <3>2. CASE g # f
      <4>1. perCaller'[g] = perCaller[g] /\ visited'[g] = visited[g]
        BY <1>1, <1>6, <3>2
      <4> QED
        BY <4>1 DEF CInv, CallersAreCounted, CallersOf
    <3> QED
      BY <3>1, <3>2
  <2>2. ASSUME NEW g \in Files
        PROVE  AllAndOnlyCallers(g, visited[g], CallersOf(g))'
    <3>1. AllAndOnlyCallers(g, visited'[g], perCaller'[g] \cup {c \in callers : c.file = g})
      BY <2>1
    <3>2. code' = code /\ callers' = callers
      BY <1>1
    <3> QED
      BY ONLY <3>1, <3>2 DEF AllAndOnlyCallers, CountedIn, CallersOf, CallsFrom, Calling, In, Calls
  <2> QED
    BY <2>2 DEF CallersAreCounted
<1> QED
  BY <1>8, <1>9, <1>10, <1>11 DEF CInv

\* A file is finished.
LEMMA AggregateKeepsCInv ==
  ASSUME CInv, NEW f \in Files, Aggregate(f)
  PROVE  CInv'
<1>1. /\ code' = code /\ indexed' = indexed /\ edges' = edges /\ visited' = visited
      /\ callers' = callers \cup perCaller[f] /\ perCaller' = [perCaller EXCEPT ![f] = {}]
      /\ visited[f] = Len(Calls(f)) /\ perCaller \in [Files -> SUBSET CallerRecord]
      /\ callers \subseteq CallerRecord
  BY DEF Aggregate, CInv, CallersTyped
<1>2. \A g \in Files : perCaller'[g] = IF g = f THEN {} ELSE perCaller[g]
  BY <1>1
<1>3. \A g \in Files : \A c \in perCaller[g] : c.file = g
  BY DEF CInv, FilesFinish
<1>4. CallersTyped'
  <2>1. perCaller' \in [Files -> SUBSET CallerRecord] /\ callers' \subseteq CallerRecord
    BY <1>1
  <2>2. IsFiniteSet(callers')
    BY <1>1, FS_Union DEF CInv, CallersTyped
  <2>3. \A g \in Files : IsFiniteSet(perCaller'[g])
    BY <1>2, FS_EmptySet DEF CInv, CallersTyped
  <2> QED
    BY <1>1, <2>1, <2>2, <2>3 DEF CInv, CallersTyped, Calls, Captures
<1>5. EdgesAreCounted'
  BY <1>1, SitesStay DEF CInv, EdgesAreCounted
<1>6. FilesFinish'
  <2>1. \A g \in Files : \A c \in perCaller'[g] : c.file = g
    BY <1>2, <1>3
  <2>2. ASSUME NEW c \in callers'
        PROVE  visited[c.file] = Len(Calls(c.file)) /\ perCaller'[c.file] = {}
    <3>1. CASE c \in perCaller[f]
      BY <1>1, <1>2, <1>3, <3>1
    <3>2. CASE c \in callers
      <4>1. c.file \in Files
        BY <1>1, <3>2 DEF CallerRecord
      <4> QED
        BY <1>2, <3>2, <4>1 DEF CInv, FilesFinish
    <3> QED
      BY <1>1, <3>1, <3>2
  <2> QED
    BY <1>1, <2>1, <2>2 DEF FilesFinish, Calls
<1>7. CallersAreCounted'
  <2>1. ASSUME NEW g \in Files
        PROVE  perCaller'[g] \cup {c \in callers' : c.file = g} = CallersOf(g)
    BY <1>1, <1>2, <1>3 DEF CallersOf
  <2>2. ASSUME NEW g \in Files
        PROVE  AllAndOnlyCallers(g, visited[g], CallersOf(g))'
    <3>1. AllAndOnlyCallers(g, visited[g], perCaller'[g] \cup {c \in callers' : c.file = g})
      BY <2>1 DEF CInv, CallersAreCounted
    <3>2. code' = code /\ visited' = visited
      BY <1>1
    <3> QED
      BY ONLY <3>1, <3>2 DEF AllAndOnlyCallers, CountedIn, CallersOf, CallsFrom, Calling, In, Calls
  <2> QED
    BY <2>2 DEF CallersAreCounted
<1> QED
  BY <1>4, <1>5, <1>6, <1>7 DEF CInv

LEMMA CallersStartCounted ==
  ASSUME CallersInit(Codes)
  PROVE  CInv
<1>1. /\ code \in Codes /\ edges = {} /\ callers = {}
      /\ \A f \in Files : indexed[f] = 0 /\ visited[f] = 0 /\ perCaller[f] = {}
      /\ indexed \in [Files -> Nat] /\ visited \in [Files -> Nat]
      /\ perCaller \in [Files -> SUBSET CallerRecord]
  BY DEF CallersInit
<1>2. CallersTyped
  <2>1. \A f \in Files : Len(Calls(f)) \in Nat /\ Len(Captures(f)) \in Nat
    BY <1>1, CodeIsTyped
  <2> QED
    <3>1. \A f \in Files : indexed[f] <= Len(Captures(f)) /\ visited[f] <= Len(Calls(f))
      BY <1>1, <2>1
    <3>2. IsFiniteSet(callers) /\ \A f \in Files : IsFiniteSet(perCaller[f])
      BY <1>1, FS_EmptySet
    <3> QED
      BY <1>1, <3>1, <3>2 DEF CallersTyped
<1>3. \A f, name, callee : SitesFrom(f, 0, name, callee) = {}
  BY DEF SitesFrom
<1>4. EdgesAreCounted
  <2>1. \A e \in EdgeRecord : SitesFrom(e.file, indexed[e.file], e.caller, e.callee) = {}
    BY <1>1, <1>3 DEF EdgeRecord
  <2> QED
    BY <1>1, <2>1 DEF EdgesAreCounted
<1>5. FilesFinish
  BY <1>1 DEF FilesFinish
<1>6. CallersAreCounted
  <2> SUFFICES ASSUME NEW f \in Files PROVE AllAndOnlyCallers(f, 0, {})
    BY <1>1 DEF CallersAreCounted, CallersOf
  <2> QED
    BY DEF AllAndOnlyCallers
<1> QED
  BY <1>2, <1>4, <1>5, <1>6 DEF CInv

LEMMA CallersNextKeepsCInv == CInv /\ [CallersNext]_callersVars => CInv'
<1> SUFFICES ASSUME CInv, [CallersNext]_callersVars
             PROVE  CInv'
  OBVIOUS
<1>1. CASE UNCHANGED callersVars
  <2>1. /\ code' = code /\ indexed' = indexed /\ edges' = edges /\ visited' = visited
        /\ perCaller' = perCaller /\ callers' = callers
    BY <1>1 DEF callersVars
  <2>2. CallersTyped' /\ FilesFinish'
    BY <2>1 DEF CInv, CallersTyped, FilesFinish, Calls, Captures
  <2>3. EdgesAreCounted'
    BY <2>1, SitesStay DEF CInv, EdgesAreCounted
  <2>4. ASSUME NEW g \in Files
        PROVE  AllAndOnlyCallers(g, visited[g], CallersOf(g))'
    <3>1. AllAndOnlyCallers(g, visited[g], CallersOf(g))
      BY DEF CInv, CallersAreCounted
    <3> QED
      BY ONLY <2>1, <3>1 DEF AllAndOnlyCallers, CountedIn, CallersOf, CallsFrom, Calling, In, Calls
  <2> QED
    BY <2>2, <2>3, <2>4 DEF CInv, CallersAreCounted
<1>2. ASSUME NEW f \in Files, AddUsage(f) PROVE CInv'
  BY <1>2, AddUsageKeepsCInv
<1>3. ASSUME NEW f \in Files, VisitCall(f) PROVE CInv'
  BY <1>3, VisitCallKeepsCInv
<1>4. ASSUME NEW f \in Files, Aggregate(f) PROVE CInv'
  BY <1>4, AggregateKeepsCInv
<1> QED
  BY <1>1, <1>2, <1>3, <1>4 DEF CallersNext

\* A call of the target is a call-site of its own, unless a name is declared
\* where it is; and where the target starts no other callee, nor another one
\* it, every call-site with the text of the target is a call of it.
LEMMA SitesOfCalls ==
  ASSUME code \in Codes, NEW f \in Files, NEW name, NotDeclaredThere(f),
         NEW S, S = CallsFrom(f, Len(Calls(f)), name, Target),
         NEW T, T = SitesFrom(f, Len(Captures(f)), name, Target)
  PROVE  /\ IsFiniteSet(S) /\ IsFiniteSet(T) /\ Cardinality(S) \in Nat /\ Cardinality(T) \in Nat
         /\ Cardinality(S) <= Cardinality(T) /\ (S # {} => T # {})
         /\ NoOtherCallee(f) => Cardinality(S) = Cardinality(T) /\ (T # {} => S # {})
<1>1. /\ Len(Calls(f)) \in Nat /\ DOMAIN Calls(f) = 1..Len(Calls(f)) /\ Calls(f) \in Seq(CallSite)
      /\ Len(Captures(f)) \in Nat /\ DOMAIN Captures(f) = 1..Len(Captures(f))
      /\ Captures(f) \in Seq(Capture)
  BY CodeIsTyped
<1>2. IsFiniteSet(S) /\ Cardinality(S) \in Nat /\ IsFiniteSet(T) /\ Cardinality(T) \in Nat
  BY <1>1, OneMoreCall, OneMoreSite
<1>3. /\ \A i, j \in DOMAIN Calls(f) : Calls(f)[i].at = Calls(f)[j].at => i = j
      /\ \A i \in DOMAIN Calls(f) : \E k \in DOMAIN Captures(f) :
           Captures(f)[k] = [at |-> Calls(f)[i].at, text |-> Calls(f)[i].callee]
      /\ \A k, l \in DOMAIN Captures(f) : Captures(f)[k] = Captures(f)[l] => k = l
  BY CodeIsTyped DEF CalleesAreCaptured, Calls, Captures
<1> PICK g : g = [i \in S |-> CHOOSE k \in DOMAIN Captures(f) :
                   Captures(f)[k] = [at |-> Calls(f)[i].at, text |-> Calls(f)[i].callee]]
  OBVIOUS
<1>4. ASSUME NEW i \in S
      PROVE  /\ i \in DOMAIN Calls(f) /\ In(f, Calls(f)[i]) # 0 /\ Calls(f)[i].callee = Target
             /\ Calling(f, Calls(f)[i]).name = name
             /\ g[i] \in DOMAIN Captures(f)
             /\ Captures(f)[g[i]] = [at |-> Calls(f)[i].at, text |-> Calls(f)[i].callee]
  <2>1. /\ i \in DOMAIN Calls(f) /\ In(f, Calls(f)[i]) # 0 /\ Calls(f)[i].callee = Target
        /\ Calling(f, Calls(f)[i]).name = name
    BY <1>1 DEF CallsFrom
  <2> QED
    BY <1>3, <2>1
<1>5. ASSUME NEW i \in S PROVE g[i] \in T
  <2> PICK capture : capture = Captures(f)[g[i]]
    OBVIOUS
  <2>1. capture.at = Calls(f)[i].at /\ capture.text = Target
    BY <1>4
  <2>2. capture.at \in CallPositions(f)
    BY <1>4, <2>1 DEF CallPositions
  <2>3. capture.at \notin code[f].declared
    BY <1>4, <2>1 DEF NotDeclaredThere
  <2>4. In(f, capture) = In(f, Calls(f)[i])
    BY <2>1 DEF In
  <2>5. Calling(f, capture).name = name
    BY <1>4, <2>4 DEF Calling
  <2> QED
    BY <1>1, <1>4, <2>1, <2>2, <2>3, <2>5 DEF SitesFrom, IsCallSite
<1>6. g \in [S -> T] /\ \A i, j \in S : g[i] = g[j] => i = j
  <2>1. g \in [S -> T]
    BY <1>5
  <2>2. ASSUME NEW i \in S, NEW j \in S, g[i] = g[j] PROVE i = j
    <3>1. Calls(f)[i].at = Calls(f)[j].at
      BY <1>4, <2>2
    <3> QED
      BY <1>3, <1>4, <3>1
  <2> QED
    BY <2>1, <2>2
<1>7. g \in Injection(S, T)
  BY ONLY <1>6 DEF Injection, IsInjective
<1>8. Cardinality(S) <= Cardinality(T) /\ (Cardinality(S) = Cardinality(T) <=> g \in Surjection(S, T))
  BY ONLY <1>2, <1>7, FS_Injection
<1>9. S # {} => T # {}
  BY <1>5
<1>10. ASSUME NoOtherCallee(f), NEW k \in T
       PROVE  \E i \in S : g[i] = k
  <2> PICK capture : capture = Captures(f)[k]
    OBVIOUS
  <2>1. /\ k \in DOMAIN Captures(f) /\ capture.text = Target /\ capture.at \in CallPositions(f)
        /\ Calling(f, capture).name = name
    BY <1>1 DEF SitesFrom, IsCallSite
  <2>2. PICK i \in DOMAIN Calls(f) : In(f, Calls(f)[i]) # 0 /\ Calls(f)[i].at = capture.at
    BY <2>1 DEF CallPositions
  <2>3. Calls(f)[i].callee = Target
    BY <1>10, <2>1, <2>2 DEF NoOtherCallee
  <2>4. Calling(f, Calls(f)[i]).name = name
    BY <2>1, <2>2 DEF Calling, In
  <2>5. i \in S
    BY <1>1, <2>2, <2>3, <2>4 DEF CallsFrom
  <2>6. capture = [at |-> capture.at, text |-> capture.text]
    <3>1. capture \in Capture
      BY <1>1, <2>1
    <3> QED
      BY <3>1 DEF Capture
  <2>7. Captures(f)[g[i]] = Captures(f)[k] /\ g[i] \in DOMAIN Captures(f)
    BY <1>4, <2>1, <2>2, <2>3, <2>5, <2>6
  <2> QED
    BY <1>3, <2>1, <2>5, <2>7
<1>11. ASSUME NoOtherCallee(f)
       PROVE  Cardinality(S) = Cardinality(T) /\ (T # {} => S # {})
  <2>1. \A k \in T : \E i \in S : g[i] = k
    BY <1>10, <1>11
  <2>2. g \in Surjection(S, T)
    BY ONLY <1>6, <2>1 DEF Surjection
  <2> QED
    BY <1>8, <2>1, <2>2
<1> QED
  BY <1>2, <1>8, <1>9, <1>11

\* Both flows are done: there is an edge into the target for every caller with
\* a name.
LEMMA EdgesOfCallers ==
  ASSUME CInv, Walked, NEW c \in callers, c.name # 0, NotDeclaredThere(c.file)
  PROVE  /\ c.file \in Files
         /\ \E e \in edges : /\ e.file = c.file /\ e.caller = c.name /\ e.callee = Target
                             /\ e.count >= c.count
                             /\ NoOtherCallee(c.file) => e.count = c.count
<1> PICK f, S, T : /\ f = c.file /\ S = CallsFrom(f, Len(Calls(f)), c.name, Target)
                   /\ T = SitesFrom(f, Len(Captures(f)), c.name, Target)
  OBVIOUS
<1>1. f \in Files /\ c.name \in Nat /\ c.count \in Nat /\ code \in Codes
  BY DEF CInv, CallersTyped, CallerRecord
<1>2. indexed[f] = Len(Captures(f)) /\ visited[f] = Len(Calls(f)) /\ c \in CallersOf(f)
  BY <1>1 DEF Walked, GraphBuilt, CallersOf
<1>3. c.count = Cardinality(S) /\ S # {}
  BY <1>1, <1>2 DEF CInv, CallersAreCounted, AllAndOnlyCallers, CountedIn
<1>4. /\ Cardinality(T) \in Nat /\ Cardinality(T) >= Cardinality(S) /\ T # {}
      /\ NoOtherCallee(f) => Cardinality(T) = Cardinality(S)
  BY <1>1, <1>3, SitesOfCalls
<1> PICK e : e = [file |-> f, caller |-> c.name, callee |-> Target, count |-> Cardinality(T)]
  OBVIOUS
<1>5. /\ e \in EdgeRecord /\ e.file = f /\ e.caller = c.name /\ e.callee = Target
      /\ e.count = Cardinality(T)
  BY <1>1, <1>4, CallersAssumption DEF EdgeRecord
<1>6. e \in edges
  BY <1>2, <1>4, <1>5 DEF CInv, EdgesAreCounted
<1> QED
  BY <1>1, <1>3, <1>4, <1>5, <1>6

\* And the other way round.
LEMMA CallersOfEdges ==
  ASSUME CInv, Walked, NEW e \in edges, e.callee = Target,
         NotDeclaredThere(e.file), NoOtherCallee(e.file)
  PROVE  \E c \in callers : c.file = e.file /\ c.name = e.caller /\ c.count = e.count
<1> PICK f, n, S, T :
      /\ f = e.file /\ n = e.caller /\ S = CallsFrom(f, Len(Calls(f)), n, Target)
      /\ T = SitesFrom(f, Len(Captures(f)), n, Target)
  OBVIOUS
<1>1. e \in EdgeRecord /\ f \in Files /\ code \in Codes
  BY DEF CInv, EdgesAreCounted, EdgeRecord, CallersTyped
<1>2. /\ indexed[f] = Len(Captures(f)) /\ visited[f] = Len(Calls(f))
      /\ CallersOf(f) = {c \in callers : c.file = f}
  BY <1>1 DEF Walked, GraphBuilt, CallersOf
<1>3. T # {} /\ e.count = Cardinality(T)
  BY <1>1, <1>2 DEF CInv, EdgesAreCounted
<1>4. Cardinality(S) = Cardinality(T) /\ S # {}
  BY <1>1, <1>3, SitesOfCalls
<1>5. AllAndOnlyCallers(f, visited[f], CallersOf(f))
  BY <1>1 DEF CInv, CallersAreCounted
<1>6. PICK i \in S : TRUE
  BY <1>4
<1>7. i \in 1..visited[f] /\ In(f, Calls(f)[i]) # 0 /\ Calls(f)[i].callee = Target
      /\ Calling(f, Calls(f)[i]).name = n
  BY <1>2, <1>6 DEF CallsFrom
<1>8. PICK c \in CallersOf(f) : c.name = n
  BY <1>5, <1>7 DEF AllAndOnlyCallers
<1>9. c \in callers /\ c.file = f
  BY <1>2, <1>8
<1>10. c.count = e.count
  BY <1>2, <1>3, <1>4, <1>5, <1>8 DEF AllAndOnlyCallers, CountedIn
<1> QED
  BY <1>8, <1>9, <1>10

LEMMA ImageIsFinite ==
  ASSUME NEW S, NEW T, NEW g \in [S -> T], IsFiniteSet(S), \A t \in T : \E s \in S : g[s] = t
  PROVE  IsFiniteSet(T)
<1>1. g \in Surjection(S, T)
  BY DEF Surjection
<1> QED
  BY <1>1, FS_Surjection

LEMMA SymbolsAreFinite ==
  ASSUME code \in Codes, NEW f \in Files, NEW name
  PROVE  IsFiniteSet(SymbolsNamed(f, name))
<1> PICK D, E :
      /\ D = {j \in DOMAIN code[f].functions : code[f].functions[j].name = name}
      /\ E = {t \in code[f].others : t.name = name}
  OBVIOUS
<1> PICK g, h :
      /\ g = [i \in D |-> [kind |-> code[f].functions[i].kind, line |-> Line(code[f].functions[i])]]
      /\ h = [s \in E |-> [kind |-> s.kind, line |-> s.line]]
  OBVIOUS
<1>1. IsFiniteSet(D)
  <2> PICK l : l = Len(code[f].functions)
    OBVIOUS
  <2>1. D \subseteq 1..l /\ l \in Nat
    BY CodeIsTyped
  <2>2. IsFiniteSet(1..l)
    BY ONLY <2>1, FS_Interval
  <2> QED
    BY ONLY <2>1, <2>2, FS_Subset
<1>2. IsFiniteSet(E)
  <2>1. IsFiniteSet(code[f].others) /\ E \subseteq code[f].others
    BY CallersAssumption
  <2> QED
    BY <2>1, FS_Subset
<1> PICK A, B : A = {g[i] : i \in D} /\ B = {h[s] : s \in E}
  OBVIOUS
<1>3. IsFiniteSet(A) /\ IsFiniteSet(B)
  <2>1. g \in [D -> A] /\ \A t \in A : \E i \in D : g[i] = t
    OBVIOUS
  <2>2. h \in [E -> B] /\ \A t \in B : \E s \in E : h[s] = t
    OBVIOUS
  <2>3. IsFiniteSet(A)
    BY ONLY <1>1, <2>1, ImageIsFinite
  <2>4. IsFiniteSet(B)
    BY ONLY <1>2, <2>2, ImageIsFinite
  <2> QED
    BY <2>3, <2>4
<1>4. SymbolsNamed(f, name) = A \cup B
  BY DEF SymbolsNamed
<1>5. IsFiniteSet(A \cup B)
  BY <1>3, FS_Union
<1> QED
  BY <1>4, <1>5

\* With one declaration of the caller's name in its file, the indexed flow
\* dresses the caller as the direct one does (repo.go:856-857).
LEMMA CInvDressesAlike == CInv => PlainCallersMatch
<1> SUFFICES ASSUME CInv, Walked, NEW c \in callers, c.name # 0,
                    Cardinality(SymbolsNamed(c.file, c.name)) = 1
             PROVE  Dressed(c) = {c}
  BY DEF PlainCallersMatch, Named
<1> PICK f, S : f = c.file /\ S = SymbolsNamed(f, c.name)
  OBVIOUS
<1>1. c \in CallerRecord /\ f \in Files /\ code \in Codes
  BY DEF CInv, CallersTyped, CallerRecord
<1>2. CountedIn(f, visited[f], c) /\ visited[f] = Len(Calls(f))
  BY <1>1 DEF CInv, CallersAreCounted, CallersOf, AllAndOnlyCallers, Walked
<1>3. PICK i \in CallsFrom(f, visited[f], c.name, Target) :
        c.kind = Calling(f, Calls(f)[i]).kind /\ c.line = Line(Calling(f, Calls(f)[i]))
  BY <1>2 DEF CountedIn
<1> PICK j : j = In(f, Calls(f)[i])
  OBVIOUS
<1>4. /\ i \in 1..Len(Calls(f)) /\ j # 0 /\ code[f].functions[j] = Calling(f, Calls(f)[i])
      /\ Calling(f, Calls(f)[i]).name = c.name
  BY <1>2, <1>3 DEF CallsFrom, Calling
<1>5. j \in DOMAIN code[f].functions
  BY <1>1, <1>4, CallIsTyped
<1>6. [kind |-> c.kind, line |-> c.line] \in S
  BY <1>3, <1>4, <1>5 DEF SymbolsNamed
<1>7. IsFiniteSet(S)
  BY <1>1, SymbolsAreFinite
<1>8. S = {[kind |-> c.kind, line |-> c.line]}
  <2>1. PICK x : S = {x}
    BY <1>7, FS_Singleton
  <2> QED
    BY <1>6, <2>1
<1>9. FindSymbol(f, c.name) = S
  <2>1. c.line <= c.line
    BY <1>1 DEF CallerRecord
  <2> QED
    BY <1>8, <2>1 DEF FindSymbol
<1>10. c = [file |-> f, name |-> c.name, kind |-> c.kind, line |-> c.line, count |-> c.count]
  BY <1>1 DEF CallerRecord
<1> QED
  BY <1>8, <1>9, <1>10 DEF Dressed

BareOf(c) == [file |-> c.file, name |-> c.name, count |-> c.count]

LEMMA OrderIsOfBare ==
  ASSUME NEW c, NEW d
  PROVE  MoreCalls(BareOf(d), BareOf(c)) <=> MoreCalls(d, c)
<1>1. /\ BareOf(c).file = c.file /\ BareOf(c).name = c.name /\ BareOf(c).count = c.count
      /\ BareOf(d).file = d.file /\ BareOf(d).name = d.name /\ BareOf(d).count = d.count
  BY DEF BareOf
<1> QED
  BY <1>1 DEF MoreCalls

\* A limit keeps the same callers whether they have a kind and a line or not.
LEMMA LimitIsOfBare ==
  ASSUME NEW S, IsFiniteSet(S), \A c, d \in S : c.file = d.file /\ c.name = d.name => c = d
  PROVE  Bare(Limited(S)) = Limited(Bare(S))
<1>1. Bare(S) = {BareOf(c) : c \in S} /\ Bare(Limited(S)) = {BareOf(c) : c \in Limited(S)}
  BY DEF Bare, BareOf
<1>2. ASSUME NEW c \in S
      PROVE  Cardinality({d \in S : MoreCalls(d, c)}) = Cardinality({d \in Bare(S) : MoreCalls(d, BareOf(c))})
  <2> PICK U, V : U = {d \in S : MoreCalls(d, c)} /\ V = {d \in Bare(S) : MoreCalls(d, BareOf(c))}
    OBVIOUS
  <2> PICK g : g = [d \in U |-> BareOf(d)]
    OBVIOUS
  <2>1. IsFiniteSet(U)
    BY FS_Subset
  <2>2. \A d \in U : BareOf(d) \in V
    BY <1>1, OrderIsOfBare
  <2>3. \A x \in V : \E d \in U : BareOf(d) = x
    <3> SUFFICES ASSUME NEW x \in V PROVE \E d \in U : BareOf(d) = x
      OBVIOUS
    <3>1. PICK d \in S : x = BareOf(d)
      BY <1>1
    <3>2. MoreCalls(d, c)
      BY <3>1, OrderIsOfBare
    <3> QED
      BY <3>1, <3>2
  <2>4. \A a, b \in U : BareOf(a) = BareOf(b) => a = b
    <3> SUFFICES ASSUME NEW a \in U, NEW b \in U, BareOf(a) = BareOf(b) PROVE a = b
      OBVIOUS
    <3>1. a.file = b.file /\ a.name = b.name
      BY DEF BareOf
    <3> QED
      BY <3>1
  <2>5. g \in Bijection(U, V)
    <3>1. g \in [U -> V] /\ \A d \in U : g[d] = BareOf(d)
      BY <2>2
    <3>2. \A a, b \in U : g[a] = g[b] => a = b
      BY <2>4, <3>1
    <3>3. \A x \in V : \E d \in U : g[d] = x
      BY <2>3, <3>1
    <3>4. g \in Injection(U, V)
      BY ONLY <3>1, <3>2 DEF Injection, IsInjective
    <3>5. g \in Surjection(U, V)
      BY ONLY <3>1, <3>3 DEF Surjection
    <3> QED
      BY <3>4, <3>5 DEF Bijection
  <2>6. ExistsBijection(U, V)
    BY <2>5 DEF ExistsBijection
  <2>7. Cardinality(V) = Cardinality(U)
    BY ONLY <2>1, <2>6, FS_Bijection
  <2> QED
    BY <2>7
<1>3. ASSUME NEW c \in S
      PROVE  c \in Limited(S) <=> BareOf(c) \in Limited(Bare(S))
  <2>1. BareOf(c) \in Bare(S)
    BY <1>1
  <2> QED
    BY <1>2, <2>1 DEF Limited
<1>4. Limited(S) \subseteq S /\ Limited(Bare(S)) \subseteq Bare(S)
  BY DEF Limited
<1> QED
  BY <1>1, <1>3, <1>4

LEMMA CInvFindsAlike ==
  ASSUME CInv, Walked, NEW f \in Files, NotDeclaredThere(f), NoOtherCallee(f)
  PROVE  FoundIn(f) = EdgesIn(f)
<1>1. ASSUME NEW x \in FoundIn(f)
      PROVE  x \in EdgesIn(f)
  <2>1. PICK c \in callers :
          c.name # 0 /\ x = [file |-> c.file, name |-> c.name, count |-> c.count] /\ x.file = f
    BY DEF FoundIn, Bare, Named
  <2>2. /\ c.file = f /\ NotDeclaredThere(c.file) /\ NoOtherCallee(c.file)
        /\ CInv /\ Walked /\ c \in callers /\ c.name # 0
    BY <2>1
  <2>3. PICK e \in edges : /\ e.file = c.file /\ e.caller = c.name /\ e.callee = Target
                           /\ e.count >= c.count /\ (NoOtherCallee(c.file) => e.count = c.count)
    BY ONLY <2>2, EdgesOfCallers
  <2> QED
    BY <2>1, <2>2, <2>3 DEF EdgesIn, ByCallee
<1>2. ASSUME NEW x \in EdgesIn(f)
      PROVE  x \in FoundIn(f)
  <2>1. PICK e \in edges : /\ e.callee = Target /\ e.file = f
                           /\ x = [file |-> f, name |-> e.caller, count |-> e.count]
    BY DEF EdgesIn, ByCallee
  <2>2. PICK c \in callers : c.file = f /\ c.name = e.caller /\ c.count = e.count
    BY <2>1, CallersOfEdges
  <2>3. c.name # 0
    BY <2>2 DEF CInv, EdgesAreCounted, EdgeRecord
  <2>4. x = [file |-> c.file, name |-> c.name, count |-> c.count] /\ x.file = f
    BY <2>1, <2>2
  <2> QED
    BY <2>2, <2>3, <2>4 DEF FoundIn, Bare, Named
<1> QED
  BY <1>1, <1>2

LEMMA CInvCountsAlike == CInv => FlowsCountAlike
<1> SUFFICES ASSUME CInv, Walked
             PROVE  /\ \A c \in Named(callers) : NotDeclaredThere(c.file) =>
                         \E d \in EdgesIn(c.file) : d.name = c.name /\ d.count >= c.count
                    /\ \A f \in Files : NotDeclaredThere(f) /\ NoOtherCallee(f) => FoundIn(f) = EdgesIn(f)
                    /\ Named(callers) = callers /\ (\A f \in Files : NotDeclaredThere(f) /\ NoOtherCallee(f))
                         => Bare(DirectAnswer) = IndexedBare
  BY DEF FlowsCountAlike
<1>1. ASSUME NEW c \in Named(callers), NotDeclaredThere(c.file)
      PROVE  \E d \in EdgesIn(c.file) : d.name = c.name /\ d.count >= c.count
  <2>1. CInv /\ Walked /\ c \in callers /\ c.name # 0
    BY DEF Named
  <2>2. PICK e \in edges : /\ e.file = c.file /\ e.caller = c.name /\ e.callee = Target
                           /\ e.count >= c.count /\ (NoOtherCallee(c.file) => e.count = c.count)
    BY ONLY <1>1, <2>1, EdgesOfCallers
  <2> PICK d : d = [file |-> c.file, name |-> e.caller, count |-> e.count]
    OBVIOUS
  <2>3. d \in EdgesIn(c.file)
    BY <2>2 DEF EdgesIn, ByCallee
  <2> QED
    BY <2>2, <2>3
<1>2. ASSUME Named(callers) = callers, \A f \in Files : NotDeclaredThere(f) /\ NoOtherCallee(f)
      PROVE  Bare(DirectAnswer) = IndexedBare
  <2>1. \A f \in Files : FoundIn(f) = EdgesIn(f)
    BY <1>2, CInvFindsAlike
  <2> PICK I : I = {[file |-> e.file, name |-> e.caller, count |-> e.count] : e \in ByCallee(Target)}
    OBVIOUS
  <2>2. ASSUME NEW x \in Bare(callers) PROVE x \in I
    <3>1. PICK c \in callers : x = [file |-> c.file, name |-> c.name, count |-> c.count]
      BY DEF Bare
    <3>2. c.file \in Files /\ x.file = c.file
      BY <3>1 DEF CInv, CallersTyped, CallerRecord
    <3>3. x \in EdgesIn(c.file)
      BY <1>2, <2>1, <3>2 DEF FoundIn
    <3> QED
      BY <3>3 DEF EdgesIn
  <2>3. ASSUME NEW x \in I PROVE x \in Bare(callers)
    <3>1. PICK e \in edges : e.callee = Target /\ x = [file |-> e.file, name |-> e.caller, count |-> e.count]
      BY DEF ByCallee
    <3>2. e.file \in Files
      BY DEF CInv, EdgesAreCounted, EdgeRecord
    <3>3. x \in EdgesIn(e.file)
      BY <3>1 DEF EdgesIn, ByCallee
    <3> QED
      BY <1>2, <2>1, <3>2, <3>3 DEF FoundIn
  <2>4. ASSUME NEW c \in callers, NEW d \in callers, c.file = d.file, c.name = d.name PROVE c = d
    <3> PICK f : f = c.file
      OBVIOUS
    <3>1. f \in Files /\ c \in CallersOf(f) /\ d \in CallersOf(f)
      BY <2>4 DEF CInv, CallersTyped, CallerRecord, CallersOf
    <3> QED
      BY <2>4, <3>1 DEF CInv, CallersAreCounted, AllAndOnlyCallers
  <2>5. IsFiniteSet(callers)
    BY DEF CInv, CallersTyped
  <2>6. Bare(Limited(callers)) = Limited(Bare(callers))
    BY <2>4, <2>5, LimitIsOfBare
  <2>7. Bare(callers) = I
    BY <2>2, <2>3
  <2> QED
    BY <2>6, <2>7 DEF DirectAnswer, IndexedBare
<1> QED
  BY <1>1, <1>2, CInvFindsAlike

LEMMA CallersStayCounted == CallersSpec => []CInv
<1>1. CallersInit(Codes) => CInv
  BY CallersStartCounted
<1> QED
  BY <1>1, CallersNextKeepsCInv, PTL DEF CallersSpec

\* What the walk over the calls (calls.go:163-232) and the graph of captured
\* identifiers that start where a callee starts (usages.go:78-99,
\* graph.go:62-76) have in common, for whatever files whose callees are
\* captured: the graph loses no named caller of the target and counts no fewer
\* calls, and both have the same ones, with the same counts and under the same
\* limit, where the target shares its start with no other callee's text.
THEOREM BothFlowsCountAlike == CallersSpec => []FlowsCountAlike
BY CallersStayCounted, CInvCountsAlike, PTL

\* A caller with one declaration in its file has the same kind and line in
\* both flows (repo.go:856-857).
THEOREM PlainCallersAreDressedAlike == CallersSpec => []PlainCallersMatch
BY CallersStayCounted, CInvDressesAlike, PTL

-----------------------------------------------------------------------------
(* Tarjan's components (graph.go:355-405), for any graph.                   *)

\* w is in every closed set that v is in.
Reaches(v, w) == \A S \in SUBSET Nodes : Closed(S) /\ v \in S => w \in S

Pending == ToSet(stack)
Popped == UNION {sccs[i] : i \in 1..Len(sccs)}

Frame == [node : Nodes, todo : SUBSET Nodes]

TarjanTyped ==
  /\ adj \in [Nodes -> SUBSET Nodes]
  /\ index \in [Nodes -> Nat] /\ low \in [Nodes -> Nat] /\ counter \in Nat
  /\ stack \in Seq(Nodes)
  /\ frames \in Seq(Frame)
  /\ sccs \in Seq(SUBSET Nodes)

\* The stack and the calls are in the order in which the nodes were met.
Numbered ==
  /\ \A v \in Nodes : index[v] <= counter
  /\ \A i, j \in 1..Len(stack) : i < j => index[stack[j]] < index[stack[i]]
  /\ \A i, j \in 1..Len(frames) : i < j => index[frames[j].node] < index[frames[i].node]

VisitedOnce ==
  /\ \A v \in Nodes : index[v] # 0 <=> v \in Pending \cup Popped
  /\ Pending \cap Popped = {}

\* A call is of a pending node, made for a neighbour its caller has yet to tick off.
Called ==
  \A k \in 1..Len(frames) :
    /\ frames[k].node \in Pending
    /\ frames[k].todo \subseteq adj[frames[k].node]
    /\ k > 1 => frames[k - 1].node \in frames[k].todo

Explored ==
  \A v \in Nodes : index[v] # 0 =>
    \A w \in adj[v] : index[w] # 0 \/ \E k \in 1..Len(frames) : frames[k].node = v /\ w \in frames[k].todo

LowIsReached ==
  \A k \in 1..Len(frames) :
    /\ low[frames[k].node] <= index[frames[k].node]
    /\ \E w \in Pending : index[w] = low[frames[k].node] /\ Reaches(frames[k].node, w)

\* The pending nodes met since a call began are reached from its node ...
ReachedFromCalls ==
  \A k \in 1..Len(frames), u \in Pending :
    index[frames[k].node] <= index[u] => Reaches(frames[k].node, u)

\* ... and each leads back to the node of some call that began before it was met.
LeadsToACall ==
  \A u \in Pending : \E k \in 1..Len(frames) :
    index[frames[k].node] <= index[u] /\ Reaches(u, frames[k].node)

\* low bounds the edges to pending nodes that start at the node of a call or at
\* one met under it, in calls that have returned.
LowBounds ==
  \A k \in 1..Len(frames), u \in Pending :
    /\ index[frames[k].node] <= index[u]
    /\ k > 1 => index[u] < index[frames[k - 1].node]
    => \A w \in adj[u] \cap Pending :
         (u = frames[k].node => w \notin frames[k].todo) => low[frames[k].node] <= index[w]

SccsAreComponents ==
  \A i \in 1..Len(sccs) : \A v \in sccs[i] : sccs[i] = {w \in Nodes : Reaches(v, w) /\ Reaches(w, v)}

\* The edges of a component lead to it and to those found before it.
FoundInOrder ==
  \A i \in 1..Len(sccs) : \A v \in sccs[i] : \A w \in adj[v] : \E j \in 1..i : w \in sccs[j]

FoundOnce == \A i, j \in 1..Len(sccs) : i # j => sccs[i] \cap sccs[j] = {}

AllFinite == IsFiniteSet(Pending) /\ \A i \in 1..Len(sccs) : IsFiniteSet(sccs[i])

TInv ==
  /\ TarjanTyped /\ Numbered /\ VisitedOnce /\ Called /\ Explored
  /\ LowIsReached /\ ReachedFromCalls /\ LeadsToACall /\ LowBounds
  /\ SccsAreComponents /\ FoundInOrder /\ FoundOnce /\ AllFinite

-----------------------------------------------------------------------------

LEMMA LeastIsLeast ==
  ASSUME NEW T, T \subseteq Nat, T # {}
  PROVE  Least(T) \in T /\ \A k \in T : Least(T) <= k
<1>1. \E m \in T : \A k \in T : m <= k
  BY LeastNatural
<1> QED
  BY <1>1 DEF Least

LEMMA ReachesItself == \A v : Reaches(v, v)
BY DEF Reaches

LEMMA ReachesByEdge ==
  ASSUME NEW v, NEW w \in adj[v]
  PROVE  Reaches(v, w)
BY DEF Reaches, Closed

LEMMA ReachesOn ==
  ASSUME NEW u, NEW v, NEW w, Reaches(u, v), Reaches(v, w)
  PROVE  Reaches(u, w)
BY DEF Reaches

\* What is reached from a closed set is in it.
LEMMA ClosedHolds ==
  ASSUME NEW S \in SUBSET Nodes, \A v \in S : adj[v] \subseteq S, NEW v \in S, NEW w, Reaches(v, w)
  PROVE  w \in S
BY DEF Reaches, Closed

LEMMA SameEdgesSameReach ==
  ASSUME adj' = adj
  PROVE  \A v, w : Reaches(v, w)' = Reaches(v, w)
BY DEF Reaches, Closed

LEMMA PendingAreNodes ==
  ASSUME TarjanTyped
  PROVE  /\ DOMAIN stack = 1..Len(stack) /\ Len(stack) \in Nat
         /\ Pending \subseteq Nodes /\ \A i \in 1..Len(stack) : stack[i] \in Pending
         /\ \A u \in Pending : \E i \in 1..Len(stack) : stack[i] = u
         /\ Popped \subseteq Nodes
         /\ Len(frames) \in Nat /\ \A k \in 1..Len(frames) : frames[k].node \in Nodes /\ frames[k].todo \subseteq Nodes
         /\ Nodes \subseteq Nat
<1>1. DOMAIN stack = 1..Len(stack) /\ Len(stack) \in Nat /\ \A i \in 1..Len(stack) : stack[i] \in Nodes
  BY DEF TarjanTyped
<1>2. Len(frames) \in Nat /\ \A k \in 1..Len(frames) : frames[k] \in Frame
  BY DEF TarjanTyped
<1>3. Popped \subseteq Nodes
  BY DEF TarjanTyped, Popped
<1> QED
  BY <1>1, <1>2, <1>3, TarjanAssumption DEF Pending, ToSet, Frame

-----------------------------------------------------------------------------
(* A call.                                                                 *)

LEMMA EnterSteps ==
  ASSUME TarjanTyped, NEW v \in Nodes, Enter(v)
  PROVE  /\ adj' = adj /\ sccs' = sccs /\ counter' = counter + 1
         /\ index' \in [Nodes -> Nat] /\ low' \in [Nodes -> Nat]
         /\ \A u \in Nodes : index'[u] = IF u = v THEN counter + 1 ELSE index[u]
         /\ \A u \in Nodes : low'[u] = IF u = v THEN counter + 1 ELSE low[u]
         /\ stack' \in Seq(Nodes) /\ Len(stack') = Len(stack) + 1 /\ stack'[1] = v
         /\ \A i \in 2..Len(stack') : i - 1 \in 1..Len(stack) /\ stack'[i] = stack[i - 1]
         /\ Pending' = Pending \cup {v}
         /\ frames' \in Seq(Frame) /\ Len(frames') = Len(frames) + 1
         /\ frames'[1].node = v /\ frames'[1].todo = adj[v]
         /\ \A k \in 2..Len(frames') : k - 1 \in 1..Len(frames) /\ frames'[k] = frames[k - 1]
<1>1. /\ adj' = adj /\ sccs' = sccs /\ counter' = counter + 1
      /\ index' = [index EXCEPT ![v] = counter + 1] /\ low' = [low EXCEPT ![v] = counter + 1]
      /\ stack' = <<v>> \o stack /\ frames' = <<[node |-> v, todo |-> adj[v]]>> \o frames
  BY DEF Enter
<1>2. /\ index' \in [Nodes -> Nat] /\ low' \in [Nodes -> Nat]
      /\ \A u \in Nodes : index'[u] = IF u = v THEN counter + 1 ELSE index[u]
      /\ \A u \in Nodes : low'[u] = IF u = v THEN counter + 1 ELSE low[u]
  BY <1>1 DEF TarjanTyped
<1>3. /\ stack' \in Seq(Nodes) /\ Len(stack') = Len(stack) + 1 /\ stack'[1] = v
      /\ \A i \in 2..Len(stack') : i - 1 \in 1..Len(stack) /\ stack'[i] = stack[i - 1]
  <2>1. <<v>> \in Seq(Nodes) /\ Len(<<v>>) = 1 /\ <<v>>[1] = v /\ stack \in Seq(Nodes)
    BY DEF TarjanTyped
  <2> QED
    BY ONLY <1>1, <2>1, ConcatProperties
<1>4. /\ frames' \in Seq(Frame) /\ Len(frames') = Len(frames) + 1
      /\ frames'[1] = [node |-> v, todo |-> adj[v]]
      /\ \A k \in 2..Len(frames') : k - 1 \in 1..Len(frames) /\ frames'[k] = frames[k - 1]
  <2> PICK c : c = [node |-> v, todo |-> adj[v]]
    OBVIOUS
  <2>1. c \in Frame
    BY DEF TarjanTyped, Frame
  <2>2. frames \in Seq(Frame) /\ frames' = <<c>> \o frames
    BY <1>1 DEF TarjanTyped
  <2>3. <<c>> \in Seq(Frame) /\ Len(<<c>>) = 1 /\ <<c>>[1] = c
    BY <2>1
  <2>4. /\ frames' \in Seq(Frame) /\ Len(frames') = Len(frames) + 1 /\ frames'[1] = c
        /\ \A k \in 2..Len(frames') : k - 1 \in 1..Len(frames) /\ frames'[k] = frames[k - 1]
    BY ONLY <2>2, <2>3, ConcatProperties
  <2> QED
    BY <2>4
<1>5. Pending' = Pending \cup {v}
  <2>1. Pending' = {stack'[i] : i \in 1..Len(stack')} /\ Pending = {stack[i] : i \in 1..Len(stack)}
    <3>1. DOMAIN stack' = 1..Len(stack')
      BY ONLY <1>3
    <3>2. DOMAIN stack = 1..Len(stack)
      BY DEF TarjanTyped
    <3>3. Pending' = {stack'[i] : i \in DOMAIN stack'} /\ Pending = {stack[i] : i \in DOMAIN stack}
      BY DEF Pending, ToSet
    <3> QED
      BY ONLY <3>1, <3>2, <3>3
  <2>2. Len(stack) \in Nat /\ \A i \in 1..Len(stack) : i + 1 \in 2..Len(stack') /\ stack'[i + 1] = stack[i]
    BY <1>3 DEF TarjanTyped
  <2>3. 1 \in 1..Len(stack') /\ stack'[1] = v
    BY ONLY <1>3, <2>2
  <2>4. \A i \in 1..Len(stack') : i = 1 \/ i \in 2..Len(stack')
    BY ONLY <1>3, <2>2
  <2>5. \A i \in 2..Len(stack') : i \in 1..Len(stack')
    BY ONLY <1>3, <2>2
  <2>6. ASSUME NEW u \in Pending' PROVE u \in Pending \cup {v}
    BY ONLY <1>3, <2>1, <2>3, <2>4, <2>6
  <2>7. ASSUME NEW u \in Pending PROVE u \in Pending'
    BY ONLY <2>1, <2>2, <2>5, <2>7
  <2> QED
    BY ONLY <2>1, <2>3, <2>6, <2>7
<1> QED
  BY <1>1, <1>2, <1>3, <1>4, <1>5

LEMMA EnterKeeps ==
  ASSUME TInv, NEW v \in Nodes, index[v] = 0, Enter(v),
         Len(frames) > 0 => v \in frames[1].todo
  PROVE  TInv'
<1>1. TarjanTyped /\ counter \in Nat /\ Len(frames) \in Nat /\ Len(stack) \in Nat
  BY PendingAreNodes DEF TInv, TarjanTyped
<1>2. /\ adj' = adj /\ sccs' = sccs /\ counter' = counter + 1
      /\ \A u \in Nodes : index'[u] = IF u = v THEN counter + 1 ELSE index[u]
      /\ \A u \in Nodes : low'[u] = IF u = v THEN counter + 1 ELSE low[u]
      /\ Pending' = Pending \cup {v} /\ Popped' = Popped
  BY <1>1, EnterSteps DEF Popped
<1>3. /\ Len(stack') = Len(stack) + 1 /\ stack'[1] = v
      /\ \A i \in 2..Len(stack') : i - 1 \in 1..Len(stack) /\ stack'[i] = stack[i - 1]
      /\ Len(frames') = Len(frames) + 1 /\ frames'[1].node = v /\ frames'[1].todo = adj[v]
      /\ \A k \in 2..Len(frames') : k - 1 \in 1..Len(frames) /\ frames'[k] = frames[k - 1]
      /\ \A k \in 1..Len(frames) : k + 1 \in 2..Len(frames') /\ frames'[k + 1] = frames[k]
  <2>1. /\ Len(stack') = Len(stack) + 1 /\ stack'[1] = v
        /\ \A i \in 2..Len(stack') : i - 1 \in 1..Len(stack) /\ stack'[i] = stack[i - 1]
        /\ Len(frames') = Len(frames) + 1 /\ frames'[1].node = v /\ frames'[1].todo = adj[v]
        /\ \A k \in 2..Len(frames') : k - 1 \in 1..Len(frames) /\ frames'[k] = frames[k - 1]
    BY <1>1, EnterSteps
  <2>2. ASSUME NEW k \in 1..Len(frames)
        PROVE  k + 1 \in 2..Len(frames') /\ frames'[k + 1] = frames[k]
    <3>1. k + 1 \in 2..Len(frames') /\ (k + 1) - 1 = k
      BY ONLY <1>1, <2>1, k \in 1..Len(frames)
    <3> QED
      BY ONLY <2>1, <3>1
  <2> QED
    BY ONLY <2>1, <2>2
<1>4. /\ Pending \subseteq Nodes /\ v \notin Pending /\ v \notin Popped
      /\ \A u \in Pending : index'[u] = index[u] /\ index[u] <= counter /\ index[u] \in Nat
  BY <1>1, <1>2, PendingAreNodes DEF TInv, VisitedOnce, Numbered, TarjanTyped
<1>5. \A k \in 1..Len(frames) :
        /\ frames[k].node \in Pending /\ frames[k].node \in Nodes
        /\ index'[frames[k].node] = index[frames[k].node] /\ low'[frames[k].node] = low[frames[k].node]
  BY <1>2, <1>4 DEF TInv, Called
<1>6. \A u, w : Reaches(u, w)' = Reaches(u, w)
  BY <1>2, SameEdgesSameReach
<1>7. TarjanTyped'
  <2>1. /\ index' \in [Nodes -> Nat] /\ low' \in [Nodes -> Nat] /\ stack' \in Seq(Nodes)
        /\ frames' \in Seq(Frame)
    BY <1>1, EnterSteps
  <2>2. adj \in [Nodes -> SUBSET Nodes] /\ counter + 1 \in Nat /\ sccs \in Seq(SUBSET Nodes)
    BY <1>1 DEF TarjanTyped
  <2> QED
    BY ONLY <1>2, <2>1, <2>2 DEF TarjanTyped
<1>8. Numbered'
  <2>1. \A u \in Nodes : index'[u] <= counter'
    <3>1. \A u \in Nodes : index[u] \in Nat /\ index[u] <= counter
      BY DEF TInv, Numbered, TarjanTyped
    <3> QED
      BY ONLY <1>1, <1>2, <3>1
  <2>2. ASSUME NEW i \in 1..Len(stack'), NEW j \in 1..Len(stack'), i < j
        PROVE  index'[stack'[j]] < index'[stack'[i]]
    <3>1. j \in 2..Len(stack') /\ j - 1 \in 1..Len(stack) /\ stack'[j] = stack[j - 1] /\ stack[j - 1] \in Pending
      BY <1>1, <1>3, <2>2, PendingAreNodes
    <3>2. CASE i = 1
      BY <1>1, <1>2, <1>3, <1>4, <3>1, <3>2
    <3>3. CASE i # 1
      <4>1. i - 1 \in 1..Len(stack) /\ stack'[i] = stack[i - 1] /\ stack[i - 1] \in Pending /\ i - 1 < j - 1
        BY <1>1, <1>3, <2>2, <3>3, PendingAreNodes
      <4> QED
        BY <1>4, <3>1, <4>1 DEF TInv, Numbered
    <3> QED
      BY <3>2, <3>3
  <2>3. ASSUME NEW i \in 1..Len(frames'), NEW j \in 1..Len(frames'), i < j
        PROVE  index'[frames'[j].node] < index'[frames'[i].node]
    <3>1. j \in 2..Len(frames') /\ j - 1 \in 1..Len(frames) /\ frames'[j] = frames[j - 1]
      BY <1>1, <1>3, <2>3
    <3>2. CASE i = 1
      BY <1>1, <1>2, <1>3, <1>4, <1>5, <3>1, <3>2
    <3>3. CASE i # 1
      <4>1. i - 1 \in 1..Len(frames) /\ frames'[i] = frames[i - 1] /\ i - 1 < j - 1
        BY <1>1, <1>3, <2>3, <3>3
      <4>2. index[frames[j - 1].node] < index[frames[i - 1].node]
        BY <3>1, <4>1 DEF TInv, Numbered
      <4> QED
        BY <1>5, <3>1, <4>1, <4>2
    <3> QED
      BY <3>2, <3>3
  <2> QED
    BY <2>1, <2>2, <2>3 DEF Numbered
<1>9. VisitedOnce'
  BY <1>1, <1>2, <1>4 DEF TInv, VisitedOnce
<1>10. Called'
  <2> SUFFICES ASSUME NEW k \in 1..Len(frames')
               PROVE  /\ frames'[k].node \in Pending' /\ frames'[k].todo \subseteq adj[frames'[k].node]
                      /\ k > 1 => frames'[k - 1].node \in frames'[k].todo
    BY <1>2 DEF Called
  <2>1. CASE k = 1
    BY <1>2, <1>3, <2>1
  <2>2. CASE k = 2
    <3>1. frames'[2] = frames[1] /\ 1 \in 1..Len(frames) /\ Len(frames) > 0 /\ k - 1 = 1
      BY <1>1, <1>3, <2>2
    <3> QED
      BY <1>2, <1>3, <2>2, <3>1 DEF TInv, Called
  <2>3. CASE k # 1 /\ k # 2
    <3>1. k - 1 \in 1..Len(frames) /\ frames'[k] = frames[k - 1] /\ k - 1 > 1
          /\ frames'[k - 1] = frames[(k - 1) - 1]
      BY <1>1, <1>3, <2>3
    <3> QED
      BY <1>2, <3>1 DEF TInv, Called
  <2> QED
    BY <2>1, <2>2, <2>3
<1>11. Explored'
  <2> SUFFICES ASSUME NEW u \in Nodes, index'[u] # 0, NEW w \in adj[u]
               PROVE  index'[w] # 0 \/ \E k \in 1..Len(frames') : frames'[k].node = u /\ w \in frames'[k].todo
    BY <1>2 DEF Explored
  <2>1. w \in Nodes
    BY <1>1 DEF TarjanTyped
  <2>2. CASE u = v
    <3>1. 1 \in 1..Len(frames')
      BY <1>1, <1>3
    <3> QED
      BY <1>3, <2>2, <3>1
  <2>3. CASE u # v
    <3>1. index[w] # 0 \/ \E k \in 1..Len(frames) : frames[k].node = u /\ w \in frames[k].todo
      BY <1>2, <2>3 DEF TInv, Explored
    <3>2. CASE index[w] # 0
      BY <1>1, <1>2, <2>1, <3>2
    <3>3. ASSUME NEW k \in 1..Len(frames), frames[k].node = u, w \in frames[k].todo
          PROVE  \E m \in 1..Len(frames') : frames'[m].node = u /\ w \in frames'[m].todo
      <4>1. k + 1 \in 1..Len(frames') /\ frames'[k + 1] = frames[k]
        BY <1>1, <1>3
      <4> QED
        BY <3>3, <4>1
    <3> QED
      BY <3>1, <3>2, <3>3
  <2> QED
    BY <2>2, <2>3
<1>12. LowIsReached'
  <2> SUFFICES ASSUME NEW k \in 1..Len(frames')
               PROVE  /\ low'[frames'[k].node] <= index'[frames'[k].node]
                      /\ \E w \in Pending' : index'[w] = low'[frames'[k].node] /\ Reaches(frames'[k].node, w)
    BY <1>6 DEF LowIsReached
  <2>1. CASE k = 1
    BY <1>1, <1>2, <1>3, <2>1, ReachesItself
  <2>2. CASE k # 1
    <3>1. k - 1 \in 1..Len(frames) /\ frames'[k] = frames[k - 1]
      BY <1>1, <1>3, <2>2
    <3> QED
      BY <1>2, <1>4, <1>5, <3>1 DEF TInv, LowIsReached
  <2> QED
    BY <2>1, <2>2
<1>13. ReachedFromCalls'
  <2> SUFFICES ASSUME NEW k \in 1..Len(frames'), NEW u \in Pending', index'[frames'[k].node] <= index'[u]
               PROVE  Reaches(frames'[k].node, u)
    BY <1>6 DEF ReachedFromCalls
  <2>1. CASE k = 1
    <3>1. u = v
      BY <1>1, <1>2, <1>3, <1>4, <2>1
    <3> QED
      BY <1>3, <2>1, <3>1, ReachesItself
  <2>2. CASE k # 1
    <3>1. k - 1 \in 1..Len(frames) /\ frames'[k] = frames[k - 1]
      BY <1>1, <1>3, <2>2
    <3>2. CASE u \in Pending
      BY <1>4, <1>5, <3>1, <3>2 DEF TInv, ReachedFromCalls
    <3>3. CASE u = v
      <4>1. 1 \in 1..Len(frames) /\ frames[1].node \in Pending /\ v \in adj[frames[1].node]
        BY <1>1, <1>5, <3>1 DEF TInv, Called
      <4>2. index[frames[k - 1].node] <= index[frames[1].node]
        <5>1. CASE k - 1 = 1
          BY <1>4, <1>5, <3>1, <5>1
        <5>2. CASE k - 1 # 1
          <6>1. 1 < k - 1
            BY <3>1, <5>2
          <6>2. index[frames[k - 1].node] < index[frames[1].node]
            BY <3>1, <4>1, <6>1 DEF TInv, Numbered
          <6> QED
            BY <1>4, <1>5, <3>1, <4>1, <6>2
        <5> QED
          BY <5>1, <5>2
      <4>3. Reaches(frames[k - 1].node, frames[1].node)
        BY <3>1, <4>1, <4>2 DEF TInv, ReachedFromCalls
      <4>4. Reaches(frames[1].node, v)
        BY <4>1, ReachesByEdge
      <4> QED
        BY <3>1, <3>3, <4>3, <4>4, ReachesOn
    <3> QED
      BY <1>2, <3>2, <3>3
  <2> QED
    BY <2>1, <2>2
<1>14. LeadsToACall'
  <2> SUFFICES ASSUME NEW u \in Pending'
               PROVE  \E k \in 1..Len(frames') :
                        index'[frames'[k].node] <= index'[u] /\ Reaches(u, frames'[k].node)
    BY <1>6 DEF LeadsToACall
  <2>1. CASE u = v
    <3>1. 1 \in 1..Len(frames') /\ index'[v] <= index'[v]
      BY <1>1, <1>2, <1>3
    <3> QED
      BY <1>3, <2>1, <3>1, ReachesItself
  <2>2. CASE u \in Pending
    <3>1. PICK k \in 1..Len(frames) : index[frames[k].node] <= index[u] /\ Reaches(u, frames[k].node)
      BY <2>2 DEF TInv, LeadsToACall
    <3>2. k + 1 \in 1..Len(frames') /\ frames'[k + 1] = frames[k]
      <4>1. k + 1 \in 2..Len(frames') /\ frames'[k + 1] = frames[k]
        BY ONLY <1>3, k \in 1..Len(frames)
      <4>2. Len(frames') \in Nat
        BY ONLY <1>1, <1>3
      <4> QED
        BY ONLY <4>1, <4>2
    <3>3. index'[u] = index[u] /\ index'[frames[k].node] = index[frames[k].node]
      BY <1>4, <1>5, <2>2
    <3>4. index'[frames'[k + 1].node] <= index'[u] /\ Reaches(u, frames'[k + 1].node)
      BY ONLY <3>1, <3>2, <3>3
    <3> QED
      BY ONLY <3>2, <3>4
  <2> QED
    BY <1>2, <2>1, <2>2
<1>15. LowBounds'
  <2> SUFFICES ASSUME NEW k \in 1..Len(frames'), NEW u \in Pending', index'[frames'[k].node] <= index'[u],
                      k > 1 => index'[u] < index'[frames'[k - 1].node],
                      NEW w \in adj[u] \cap Pending', u = frames'[k].node => w \notin frames'[k].todo
               PROVE  low'[frames'[k].node] <= index'[w]
    BY <1>2 DEF LowBounds
  <2>1. CASE k = 1
    <3>1. u = v
      BY <1>1, <1>2, <1>3, <1>4, <2>1
    <3> QED
      BY <1>3, <2>1, <3>1
  <2>2. CASE k # 1
    <3>1. k - 1 \in 1..Len(frames) /\ frames'[k] = frames[k - 1] /\ frames[k - 1].node \in Pending
      BY <1>1, <1>3, <1>5, <2>2
    <3>2. u \in Pending
      <4>1. CASE k = 2
        BY <1>2, <1>3, <1>4, <2>2, <4>1, <1>1
      <4>2. CASE k # 2
        <5>1. (k - 1) - 1 \in 1..Len(frames) /\ frames'[k - 1] = frames[(k - 1) - 1]
          BY <1>1, <1>3, <2>2, <4>2
        <5>2. index'[u] < index'[frames[(k - 1) - 1].node] /\ index'[frames[(k - 1) - 1].node] <= counter
          BY <1>1, <1>4, <1>5, <2>2, <5>1
        <5>3. index'[v] = counter + 1 /\ index'[frames[(k - 1) - 1].node] \in Nat
          BY <1>2, <1>4, <1>5, <5>1
        <5>4. u # v
          BY <1>1, <5>2, <5>3
        <5> QED
          BY <1>2, <5>4
      <4> QED
        BY <4>1, <4>2
    <3>3. CASE w = v
      <4>1. low[frames[k - 1].node] <= counter /\ low[frames[k - 1].node] \in Nat
        BY <1>1, <1>4, <1>5, <3>1 DEF TInv, LowIsReached, TarjanTyped
      <4> QED
        BY <1>1, <1>2, <1>5, <3>1, <3>3, <4>1
    <3>4. CASE w \in Pending
      <4>1. k - 1 > 1 => index[u] < index[frames[(k - 1) - 1].node]
        <5> HAVE k - 1 > 1
        <5>1. (k - 1) - 1 \in 1..Len(frames) /\ frames'[k - 1] = frames[(k - 1) - 1] /\ k > 1
          BY <1>1, <1>3
        <5> QED
          BY <1>4, <1>5, <3>2, <5>1
      <4>2. index[frames[k - 1].node] <= index[u] /\ (u = frames[k - 1].node => w \notin frames[k - 1].todo)
        BY <1>4, <1>5, <3>1, <3>2
      <4>3. low[frames[k - 1].node] <= index[w]
        BY <3>1, <3>2, <3>4, <4>1, <4>2 DEF TInv, LowBounds
      <4> QED
        BY <1>4, <1>5, <3>1, <3>4, <4>3
    <3> QED
      BY <1>2, <3>3, <3>4
  <2> QED
    BY <2>1, <2>2
<1>16. SccsAreComponents' /\ FoundInOrder' /\ FoundOnce'
  BY <1>2, <1>6 DEF TInv, SccsAreComponents, FoundInOrder, FoundOnce
<1>17. AllFinite'
  BY <1>2, FS_AddElement DEF TInv, AllFinite
<1> QED
  BY <1>7, <1>8, <1>9, <1>10, <1>11, <1>12, <1>13, <1>14, <1>15, <1>16, <1>17 DEF TInv

-----------------------------------------------------------------------------
(* A neighbour that was visited before.                                    *)

LEMMA TickedOff ==
  ASSUME TarjanTyped, NEW v, Len(frames) > 0, frames' = [frames EXCEPT ![1].todo = @ \ {v}]
  PROVE  /\ frames' \in Seq(Frame) /\ Len(frames') = Len(frames)
         /\ \A k \in 1..Len(frames) :
              /\ frames'[k].node = frames[k].node
              /\ frames'[k].todo = IF k = 1 THEN frames[k].todo \ {v} ELSE frames[k].todo
<1> DEFINE c == [frames[1] EXCEPT !.todo = @ \ {v}]
<1>1. frames \in Seq(Frame) /\ 1 \in 1..Len(frames) /\ Len(frames) \in Nat
  BY PendingAreNodes DEF TarjanTyped
<1>2. frames[1] \in Frame
  BY <1>1
<1>3. c \in Frame /\ c.node = frames[1].node /\ c.todo = frames[1].todo \ {v}
  BY <1>2 DEF Frame
<1>4. frames' = [frames EXCEPT ![1] = c]
  OBVIOUS
<1> HIDE DEF c
<1>5. /\ frames' \in Seq(Frame) /\ Len(frames') = Len(frames)
      /\ \A k \in 1..Len(frames) : frames'[k] = IF k = 1 THEN c ELSE frames[k]
  BY ONLY <1>1, <1>3, <1>4
<1>6. ASSUME NEW k \in 1..Len(frames)
      PROVE  /\ frames'[k].node = frames[k].node
             /\ frames'[k].todo = IF k = 1 THEN frames[k].todo \ {v} ELSE frames[k].todo
  <2>1. CASE k = 1
    BY <1>3, <1>5, <2>1
  <2>2. CASE k # 1
    BY <1>5, <2>2
  <2> QED
    BY <2>1, <2>2
<1> QED
  BY <1>5, <1>6

LEMMA VisitOldKeeps ==
  ASSUME TInv, VisitOld
  PROVE  TInv'
<1> PICK v, w : v = Top.node /\ w = NextNeighbour
  OBVIOUS
<1>1. TarjanTyped /\ Len(frames) \in Nat /\ Len(frames) > 0 /\ frames # <<>> /\ 1 \in 1..Len(frames)
  BY PendingAreNodes DEF TInv, TarjanTyped, VisitOld
<1>2. Top = frames[1] /\ frames[1].node \in Nodes /\ frames[1].todo \subseteq Nodes /\ frames[1].todo # {}
  <2>1. Top = frames[1] /\ Top.todo # {}
    BY <1>1 DEF Top, VisitOld, TarjanTyped
  <2> QED
    BY <1>1, <2>1, PendingAreNodes
<1>3. v = frames[1].node /\ v \in Nodes /\ w \in frames[1].todo /\ w \in Nodes /\ v \in Pending
  <2>1. frames[1].todo \subseteq Nat
    BY <1>2, TarjanAssumption
  <2>2. w \in frames[1].todo
    BY <1>2, <2>1, LeastIsLeast DEF NextNeighbour
  <2> QED
    BY <1>1, <1>2, <2>2 DEF TInv, Called
<1>4. /\ adj' = adj /\ index' = index /\ counter' = counter /\ stack' = stack /\ sccs' = sccs
      /\ index[w] # 0
      /\ low' = IF Counts(w) THEN [low EXCEPT ![v] = Smaller(@, index[w])] ELSE low
      /\ frames' = [frames EXCEPT ![1].todo = @ \ {w}]
  BY DEF VisitOld
<1>5. /\ frames' \in Seq(Frame) /\ Len(frames') = Len(frames)
      /\ \A k \in 1..Len(frames) :
           /\ frames'[k].node = frames[k].node
           /\ frames'[k].todo = IF k = 1 THEN frames[k].todo \ {w} ELSE frames[k].todo
  <2>1. frames' = [frames EXCEPT ![1].todo = @ \ {w}]
    BY <1>4
  <2> QED
    BY ONLY <1>1, <2>1, TickedOff
<1>6. Pending' = Pending /\ Popped' = Popped /\ Pending \subseteq Nodes
  <2>1. Pending' = Pending
    BY <1>4 DEF Pending
  <2>2. Popped' = Popped
    BY <1>4 DEF Popped
  <2> QED
    BY <1>1, <2>1, <2>2, PendingAreNodes
<1>7. \A a, b : Reaches(a, b)' = Reaches(a, b)
  BY <1>4, SameEdgesSameReach
<1>8. /\ low' \in [Nodes -> Nat] /\ \A u \in Nodes : low'[u] <= low[u]
      /\ \A u \in Nodes \ {v} : low'[u] = low[u]
      /\ low'[v] # low[v] => w \in Pending /\ low'[v] = index[w]
      /\ w \in Pending => low'[v] <= index[w]
  <2>1. low \in [Nodes -> Nat] /\ index \in [Nodes -> Nat]
    BY <1>1 DEF TarjanTyped
  <2> PICK m : m = Smaller(low[v], index[w])
    OBVIOUS
  <2>2. m \in Nat /\ m <= low[v] /\ m <= index[w] /\ (m # low[v] => m = index[w])
    BY <1>3, <2>1 DEF Smaller
  <2>3. low' = IF w \in Pending THEN [low EXCEPT ![v] = m] ELSE low
    BY <1>4 DEF Counts, OnStack, Pending
  <2>4. CASE w \in Pending
    <3>1. low' = [low EXCEPT ![v] = m]
      BY <2>3, <2>4
    <3>2. low' \in [Nodes -> Nat] /\ low'[v] = m /\ \A u \in Nodes \ {v} : low'[u] = low[u]
      BY ONLY <1>3, <2>1, <2>2, <3>1
    <3>3. ASSUME NEW u \in Nodes
          PROVE  low'[u] <= low[u]
      <4>1. low[u] \in Nat /\ low'[u] = IF u = v THEN m ELSE low[u]
        BY <2>1, <3>2
      <4> QED
        BY <2>2, <4>1
    <3> QED
      BY <2>2, <2>4, <3>2, <3>3
  <2>5. CASE w \notin Pending
    BY <1>3, <2>1, <2>3, <2>5
  <2> QED
    BY <2>4, <2>5
<1>9. TarjanTyped'
  <2>1. adj \in [Nodes -> SUBSET Nodes] /\ index \in [Nodes -> Nat] /\ counter \in Nat
        /\ stack \in Seq(Nodes) /\ sccs \in Seq(SUBSET Nodes)
    BY <1>1 DEF TarjanTyped
  <2> QED
    BY ONLY <1>4, <1>5, <1>8, <2>1 DEF TarjanTyped
<1>10. \A k \in 1..Len(frames) : frames[k].node \in Pending /\ frames[k].node \in Nodes
  BY <1>6 DEF TInv, Called
<1>11. Numbered'
  BY <1>4, <1>5 DEF TInv, Numbered
<1>12. VisitedOnce'
  BY <1>4, <1>6 DEF TInv, VisitedOnce
<1>13. Called'
  <2> SUFFICES ASSUME NEW k \in 1..Len(frames)
               PROVE  /\ frames'[k].node \in Pending /\ frames'[k].todo \subseteq adj[frames'[k].node]
                      /\ k > 1 => frames'[k - 1].node \in frames'[k].todo
    BY <1>4, <1>5, <1>6 DEF Called
  <2>1. frames'[k].todo \subseteq frames[k].todo /\ (k > 1 => frames'[k].todo = frames[k].todo)
    <3>1. CASE k = 1
      <4>1. frames'[k].todo = frames[k].todo \ {w}
        BY <1>5, <3>1
      <4> QED
        BY <3>1, <4>1
    <3>2. CASE k # 1
      <4>1. frames'[k].todo = frames[k].todo
        BY <1>5, <3>2
      <4> QED
        BY <4>1
    <3> QED
      BY <3>1, <3>2
  <2>2. k > 1 => k - 1 \in 1..Len(frames)
    BY <1>1
  <2> QED
    BY <1>5, <2>1, <2>2 DEF TInv, Called
<1>14. Explored'
  <2> SUFFICES ASSUME NEW u \in Nodes, index[u] # 0, NEW x \in adj[u]
               PROVE  index[x] # 0 \/ \E k \in 1..Len(frames) : frames'[k].node = u /\ x \in frames'[k].todo
    BY <1>4, <1>5 DEF Explored
  <2>1. CASE x = w
    BY <1>4, <2>1
  <2>2. CASE x # w
    <3>1. CASE index[x] # 0
      BY <3>1
    <3>2. ASSUME NEW k \in 1..Len(frames), frames[k].node = u, x \in frames[k].todo
          PROVE  \E m \in 1..Len(frames) : frames'[m].node = u /\ x \in frames'[m].todo
      BY <1>5, <2>2, <3>2
    <3> QED
      BY <3>1, <3>2 DEF TInv, Explored
  <2> QED
    BY <2>1, <2>2
<1>15. LowIsReached'
  <2> SUFFICES ASSUME NEW k \in 1..Len(frames)
               PROVE  /\ low'[frames[k].node] <= index[frames[k].node]
                      /\ \E x \in Pending : index[x] = low'[frames[k].node] /\ Reaches(frames[k].node, x)
    BY <1>4, <1>5, <1>6, <1>7 DEF LowIsReached
  <2> PICK g : g = frames[k].node
    OBVIOUS
  <2>1. g \in Nodes /\ low[g] <= index[g] /\ \E x \in Pending : index[x] = low[g] /\ Reaches(g, x)
    BY <1>10 DEF TInv, LowIsReached
  <2>2. low'[g] <= index[g]
    <3>1. low[g] \in Nat /\ low'[g] \in Nat /\ index[g] \in Nat /\ low'[g] <= low[g]
      BY <1>1, <1>8, <2>1 DEF TarjanTyped
    <3> QED
      BY <2>1, <3>1
  <2>3. CASE low'[g] = low[g]
    BY <2>1, <2>2, <2>3
  <2>4. CASE low'[g] # low[g]
    <3>1. g = v /\ w \in Pending /\ low'[g] = index[w]
      BY <1>8, <2>1, <2>4
    <3>2. w \in adj[v]
      BY <1>1, <1>3 DEF TInv, Called
    <3> QED
      BY <2>2, <3>1, <3>2, ReachesByEdge
  <2> QED
    BY <2>3, <2>4
<1>16. ReachedFromCalls'
  BY <1>4, <1>5, <1>6, <1>7 DEF TInv, ReachedFromCalls
<1>17. LeadsToACall'
  BY <1>4, <1>5, <1>6, <1>7 DEF TInv, LeadsToACall
<1>18. LowBounds'
  <2> SUFFICES ASSUME NEW k \in 1..Len(frames), NEW u \in Pending, index[frames[k].node] <= index[u],
                      k > 1 => index[u] < index[frames'[k - 1].node],
                      NEW x \in adj[u] \cap Pending, u = frames[k].node => x \notin frames'[k].todo
               PROVE  low'[frames[k].node] <= index[x]
    BY <1>4, <1>5, <1>6 DEF LowBounds
  <2>1. k > 1 => index[u] < index[frames[k - 1].node]
    <3> HAVE k > 1
    <3>1. k - 1 \in 1..Len(frames)
      BY <1>1
    <3>2. frames'[k - 1].node = frames[k - 1].node
      BY <1>5, <3>1
    <3> QED
      BY <3>2
  <2>2. low[frames[k].node] \in Nat /\ low'[frames[k].node] \in Nat /\ index[x] \in Nat
        /\ low'[frames[k].node] <= low[frames[k].node]
    <3>1. x \in Nodes /\ frames[k].node \in Nodes /\ low \in [Nodes -> Nat] /\ index \in [Nodes -> Nat]
      BY <1>1, <1>6, <1>10 DEF TarjanTyped
    <3> QED
      BY ONLY <1>8, <3>1
  <2>3. CASE u = frames[k].node /\ x \in frames[k].todo
    <3>1. k = 1 /\ x = w
      BY <1>5, <2>3
    <3> QED
      BY <1>3, <1>8, <3>1
  <2>4. CASE u = frames[k].node => x \notin frames[k].todo
    <3>1. low[frames[k].node] <= index[x]
      BY <2>1, <2>4 DEF TInv, LowBounds
    <3> QED
      BY <2>2, <3>1
  <2> QED
    BY <2>3, <2>4
<1>19. SccsAreComponents' /\ FoundInOrder' /\ FoundOnce'
  BY <1>4, <1>7 DEF TInv, SccsAreComponents, FoundInOrder, FoundOnce
<1>20. AllFinite'
  BY <1>4, <1>6 DEF TInv, AllFinite
<1> QED
  BY <1>9, <1>11, <1>12, <1>13, <1>14, <1>15, <1>16, <1>17, <1>18, <1>19, <1>20 DEF TInv

-----------------------------------------------------------------------------
(* A return.                                                               *)

\* The frames below the first, after the return of the call for v.
LEMMA CallerGoesOn ==
  ASSUME TarjanTyped, NEW v, Len(frames) > 0,
         frames' = IF Tail(frames) = <<>> THEN <<>> ELSE [Tail(frames) EXCEPT ![1].todo = @ \ {v}]
  PROVE  /\ frames' \in Seq(Frame) /\ Len(frames') = Len(frames) - 1
         /\ \A k \in 1..Len(frames') :
              /\ k + 1 \in 1..Len(frames)
              /\ frames'[k].node = frames[k + 1].node
              /\ frames'[k].todo = IF k = 1 THEN frames[k + 1].todo \ {v} ELSE frames[k + 1].todo
<1> PICK rest : rest = Tail(frames)
  OBVIOUS
<1>1. frames \in Seq(Frame) /\ frames # <<>> /\ Len(frames) \in Nat
  BY DEF TarjanTyped
<1>2. /\ rest \in Seq(Frame) /\ Len(rest) = Len(frames) - 1 /\ Len(rest) \in Nat
      /\ \A k \in 1..Len(rest) : k + 1 \in 1..Len(frames) /\ rest[k] = frames[k + 1]
  BY <1>1, HeadTailProperties
<1>3. CASE rest = <<>>
  <2>1. frames' = <<>> /\ Len(rest) = 0
    BY <1>3
  <2> QED
    BY <1>2, <2>1
<1>4. CASE rest # <<>>
  <2> DEFINE c == [rest[1] EXCEPT !.todo = @ \ {v}]
  <2>1. 1 \in 1..Len(rest)
    BY <1>2, <1>4
  <2>2. rest[1] \in Frame
    BY <1>2, <2>1
  <2>3. c \in Frame /\ c.node = rest[1].node /\ c.todo = rest[1].todo \ {v}
    BY <2>2 DEF Frame
  <2>4. frames' = [rest EXCEPT ![1] = c]
    BY <1>4
  <2> HIDE DEF c
  <2>5. /\ frames' \in Seq(Frame) /\ Len(frames') = Len(rest)
        /\ \A k \in 1..Len(rest) : frames'[k] = IF k = 1 THEN c ELSE rest[k]
    BY ONLY <1>2, <2>1, <2>3, <2>4
  <2>6. ASSUME NEW k \in 1..Len(rest)
        PROVE  /\ frames'[k].node = frames[k + 1].node
               /\ frames'[k].todo = IF k = 1 THEN frames[k + 1].todo \ {v} ELSE frames[k + 1].todo
    <3>1. CASE k = 1
      BY <1>2, <2>3, <2>5, <3>1
    <3>2. CASE k # 1
      BY ONLY <1>2, <2>5, <3>2, k \in 1..Len(rest)
    <3> QED
      BY <3>1, <3>2
  <2> QED
    BY <1>2, <2>5, <2>6
<1> QED
  BY <1>3, <1>4

\* The pending nodes that were not met before v.
MetSince(v) == {u \in Pending : index[v] <= index[u]}

LEMMA WhereOnStack ==
  ASSUME TarjanTyped, NEW v \in Pending
  PROVE  LET at == SelectInSeq(stack, LAMBDA w : w = v) IN at \in 1..Len(stack) /\ stack[at] = v
<1> DEFINE I == {i \in 1..Len(stack) : stack[i] = v}
<1>1. I \subseteq Nat /\ I # {}
  BY PendingAreNodes
<1>2. \E m \in I : \A i \in I : m <= i
  BY <1>1, LeastNatural
<1>3. Min(I) \in I
  BY <1>2 DEF Min
<1>4. SelectInSeq(stack, LAMBDA w : w = v) = Min(I)
  BY <1>1 DEF SelectInSeq
<1> QED
  BY <1>3, <1>4

\* Popping the stack down to v takes what was met since v.
LEMMA PopsWhatWasMetSince ==
  ASSUME TarjanTyped, Numbered, NEW at \in 1..Len(stack)
  PROVE  /\ ToSet(SubSeq(stack, 1, at)) = MetSince(stack[at])
         /\ Below(at) \in Seq(Nodes)
         /\ ToSet(Below(at)) = Pending \ MetSince(stack[at])
         /\ \A i, j \in 1..Len(Below(at)) : i < j => index[Below(at)[j]] < index[Below(at)[i]]
<1> PICK n : n = Len(stack)
  OBVIOUS
<1>1. /\ n \in Nat /\ at \in Nat /\ at <= n /\ stack \in Seq(Nodes)
      /\ \A i \in 1..n : stack[i] \in Nodes /\ stack[i] \in Pending
      /\ \A u \in Pending : \E i \in 1..n : stack[i] = u
  <2>1. n \in Nat /\ at \in Nat /\ at <= n /\ stack \in Seq(Nodes)
    BY DEF TarjanTyped
  <2> QED
    BY <2>1, PendingAreNodes
<1>2. /\ \A i \in 1..n : index[stack[i]] \in Nat
      /\ \A i, j \in 1..n : i < j => index[stack[j]] < index[stack[i]]
  BY <1>1 DEF TarjanTyped, Numbered
<1>3. \A i \in 1..n : index[stack[at]] <= index[stack[i]] <=> i <= at
  <2> SUFFICES ASSUME NEW i \in 1..n
               PROVE  index[stack[at]] <= index[stack[i]] <=> i <= at
    OBVIOUS
  <2>1. CASE i < at
    BY ONLY <1>1, <1>2, <2>1, i \in 1..n
  <2>2. CASE i = at
    BY <1>2, <2>2
  <2>3. CASE at < i
    <3>1. index[stack[i]] < index[stack[at]]
      BY <1>1, <1>2, <2>3
    <3> QED
      BY <1>1, <1>2, <2>3, <3>1
  <2> QED
    BY <1>1, <2>1, <2>2, <2>3
<1>4. \A i \in 1..n : stack[i] \in MetSince(stack[at]) <=> i <= at
  BY <1>1, <1>3 DEF MetSince
<1> PICK top, below : top = SubSeq(stack, 1, at) /\ below = Below(at)
  OBVIOUS
<1>5. top \in Seq(Nodes) /\ Len(top) = at /\ \A i \in 1..at : top[i] = stack[i]
  BY <1>1, SubSeqProperties
<1>6. /\ below \in Seq(Nodes) /\ Len(below) = n - at
      /\ \A i \in 1..n - at : below[i] = stack[i + at] /\ i + at \in 1..n /\ i + at > at
  <2>1. below = SubSeq(stack, at + 1, n)
    BY DEF Below
  <2>2. at + 1 \in Int /\ n \in Int /\ \A i \in at + 1..n : stack[i] \in Nodes
    BY <1>1
  <2>3. /\ below \in Seq(Nodes)
        /\ Len(below) = IF at + 1 <= n THEN n - (at + 1) + 1 ELSE 0
        /\ \A i \in 1..n - (at + 1) + 1 : below[i] = stack[(at + 1) + i - 1]
    BY ONLY <2>1, <2>2, SubSeqProperties
  <2>4. n - (at + 1) + 1 = n - at
    BY <1>1
  <2>5. Len(below) = n - at
    BY ONLY <1>1, <2>3
  <2>6. \A i \in 1..n - at : (at + 1) + i - 1 = i + at /\ i + at \in 1..n /\ i + at > at
    BY ONLY <1>1
  <2> QED
    BY ONLY <2>3, <2>4, <2>5, <2>6
<1>7. ToSet(top) = MetSince(stack[at])
  <2>1. ToSet(top) = {top[i] : i \in 1..at}
    <3>1. DOMAIN top = 1..at
      BY <1>5
    <3> QED
      BY <3>1 DEF ToSet
  <2>2. \A i \in 1..at : top[i] \in MetSince(stack[at])
    <3>1. \A i \in 1..at : i \in 1..n /\ i <= at
      BY <1>1
    <3> QED
      BY <1>4, <1>5, <3>1
  <2>3. \A u \in MetSince(stack[at]) : \E i \in 1..at : top[i] = u
    <3>1. \A u \in MetSince(stack[at]) : \E i \in 1..n : stack[i] = u /\ i <= at
      BY <1>1, <1>4 DEF MetSince
    <3>2. \A i \in 1..n : i <= at => i \in 1..at
      BY <1>1
    <3> QED
      BY <1>5, <3>1, <3>2
  <2> QED
    BY <2>1, <2>2, <2>3
<1>8. ToSet(below) = Pending \ MetSince(stack[at])
  <2>1. ToSet(below) = {below[i] : i \in 1..n - at}
    <3>1. DOMAIN below = 1..n - at
      BY <1>6
    <3> QED
      BY <3>1 DEF ToSet
  <2>2. ASSUME NEW u \in Pending \ MetSince(stack[at])
        PROVE  \E i \in 1..n - at : below[i] = u
    <3>1. PICK j \in 1..n : stack[j] = u
      BY <1>1
    <3>2. ~(j <= at)
      BY <1>4, <3>1
    <3>3. j - at \in 1..n - at /\ (j - at) + at = j
      BY <1>1, <3>2
    <3>4. below[j - at] = stack[(j - at) + at]
      BY <1>6, <3>3
    <3> QED
      BY <3>1, <3>3, <3>4
  <2>3. ASSUME NEW i \in 1..n - at
        PROVE  below[i] \in Pending /\ below[i] \notin MetSince(stack[at])
    <3>1. below[i] = stack[i + at] /\ i + at \in 1..n /\ ~(i + at <= at)
      BY <1>1, <1>6
    <3> QED
      BY <1>1, <1>4, <3>1
  <2> QED
    BY <2>1, <2>2, <2>3
<1>9. ASSUME NEW i \in 1..Len(below), NEW j \in 1..Len(below), i < j
      PROVE  index[below[j]] < index[below[i]]
  <2>1. i \in 1..n - at /\ j \in 1..n - at /\ i + at < j + at
    BY <1>1, <1>6, <1>9
  <2>2. below[i] = stack[i + at] /\ i + at \in 1..n /\ below[j] = stack[j + at] /\ j + at \in 1..n
    BY <1>6, <2>1
  <2> QED
    BY <1>2, <2>1, <2>2
<1> QED
  BY <1>6, <1>7, <1>8, <1>9

\* What a return from the call for v leaves, whether or not it pops the stack.
ReturnLeaves(v) ==
  /\ adj' = adj /\ index' = index /\ counter' = counter
  /\ Len(frames) \in Nat /\ Len(frames) > 0 /\ frames[1].todo = {} /\ v \in Pending
  /\ frames' \in Seq(Frame) /\ Len(frames') = Len(frames) - 1
  /\ \A k \in 1..Len(frames') :
       /\ k + 1 \in 1..Len(frames)
       /\ frames'[k].node = frames[k + 1].node
       /\ frames'[k].todo = IF k = 1 THEN frames[k + 1].todo \ {v} ELSE frames[k + 1].todo
  /\ low' = IF Len(frames) = 1 THEN low
            ELSE [low EXCEPT ![frames[2].node] = Smaller(low[frames[2].node], low[v])]
  /\ stack' \in Seq(Nodes)
  /\ \A i, j \in 1..Len(stack') : i < j => index[stack'[j]] < index[stack'[i]]
  /\ \/ /\ low[v] = index[v]
        /\ sccs' = Append(sccs, MetSince(v)) /\ Pending' = Pending \ MetSince(v)
     \/ /\ low[v] # index[v]
        /\ sccs' = sccs /\ Pending' = Pending

LEMMA ReturnSteps ==
  ASSUME TInv, Return, NEW v, v = frames[1].node
  PROVE  ReturnLeaves(v)
<1>1. TarjanTyped /\ Len(frames) \in Nat /\ Len(frames) > 0 /\ frames # <<>> /\ 1 \in 1..Len(frames)
  <2>1. frames # <<>> /\ TarjanTyped
    BY DEF Return, TInv
  <2> QED
    BY <2>1 DEF TarjanTyped
<1>2. Top = frames[1] /\ v = Top.node /\ v \in Pending
  BY <1>1 DEF Top, TarjanTyped, TInv, Called
<1> PICK rest, at : rest = Tail(frames) /\ at = SelectInSeq(stack, LAMBDA w : w = v)
  OBVIOUS
<1>3. /\ adj' = adj /\ index' = index /\ counter' = counter
      /\ frames[1].todo = {}
      /\ IF low[v] = index[v]
           THEN sccs' = Append(sccs, ToSet(SubSeq(stack, 1, at))) /\ stack' = Below(at)
           ELSE sccs' = sccs /\ stack' = stack
      /\ IF rest = <<>>
           THEN frames' = <<>> /\ low' = low
           ELSE /\ frames' = [rest EXCEPT ![1].todo = @ \ {v}]
                /\ low' = [low EXCEPT ![rest[1].node] = LowWith(rest[1].node, v)]
  BY <1>2 DEF Return
<1>4. /\ frames' \in Seq(Frame) /\ Len(frames') = Len(frames) - 1
      /\ \A k \in 1..Len(frames') :
           /\ k + 1 \in 1..Len(frames)
           /\ frames'[k].node = frames[k + 1].node
           /\ frames'[k].todo = IF k = 1 THEN frames[k + 1].todo \ {v} ELSE frames[k + 1].todo
  <2>1. frames' = IF rest = <<>> THEN <<>> ELSE [rest EXCEPT ![1].todo = @ \ {v}]
    BY <1>3
  <2>2. frames' = IF Tail(frames) = <<>> THEN <<>> ELSE [Tail(frames) EXCEPT ![1].todo = @ \ {v}]
    BY <2>1
  <2> QED
    BY ONLY <1>1, <2>2, CallerGoesOn
<1>5. low' = IF Len(frames) = 1 THEN low
             ELSE [low EXCEPT ![frames[2].node] = Smaller(low[frames[2].node], low[v])]
  <2>1. rest \in Seq(Frame) /\ Len(rest) = Len(frames) - 1 /\ (rest # <<>> => rest[1] = frames[2])
    BY <1>1 DEF TarjanTyped
  <2>2. rest = <<>> <=> Len(frames) = 1
    <3>1. rest = <<>> <=> Len(rest) = 0
      BY <2>1, EmptySeq
    <3> QED
      BY <1>1, <2>1, <3>1
  <2> QED
    BY <1>3, <2>1, <2>2 DEF LowWith
<1>6. at \in 1..Len(stack) /\ stack[at] = v
  BY <1>1, <1>2, WhereOnStack
<1>7. CASE low[v] = index[v]
  <2>1. sccs' = Append(sccs, ToSet(SubSeq(stack, 1, at))) /\ stack' = Below(at)
    BY <1>3, <1>7
  <2>2. /\ ToSet(SubSeq(stack, 1, at)) = MetSince(v)
        /\ Below(at) \in Seq(Nodes)
        /\ ToSet(Below(at)) = Pending \ MetSince(v)
        /\ \A i, j \in 1..Len(Below(at)) : i < j => index[Below(at)[j]] < index[Below(at)[i]]
    BY <1>1, <1>6, PopsWhatWasMetSince DEF TInv
  <2>3. Pending' = ToSet(stack')
    BY DEF Pending
  <2> QED
    BY <1>1, <1>2, <1>3, <1>4, <1>5, <1>7, <2>1, <2>2, <2>3 DEF ReturnLeaves
<1>8. CASE low[v] # index[v]
  <2>1. sccs' = sccs /\ stack' = stack
    BY <1>3, <1>8
  <2>2. Pending' = Pending
    BY <2>1 DEF Pending
  <2>3. stack \in Seq(Nodes) /\ \A i, j \in 1..Len(stack) : i < j => index[stack[j]] < index[stack[i]]
    BY DEF TInv, Numbered, TarjanTyped
  <2> QED
    BY <1>1, <1>2, <1>3, <1>4, <1>5, <1>8, <2>1, <2>2, <2>3 DEF ReturnLeaves
<1> QED
  BY <1>7, <1>8

LEMMA ReturnKeeps ==
  ASSUME TInv, Return
  PROVE  TInv'
<1> PICK v : v = frames[1].node
  OBVIOUS
<1>1. /\ adj' = adj /\ index' = index /\ counter' = counter
      /\ Len(frames) \in Nat /\ Len(frames) > 0 /\ frames[1].todo = {} /\ v \in Pending
      /\ frames' \in Seq(Frame) /\ Len(frames') = Len(frames) - 1
      /\ \A k \in 1..Len(frames') :
           /\ k + 1 \in 1..Len(frames)
           /\ frames'[k].node = frames[k + 1].node
           /\ frames'[k].todo = IF k = 1 THEN frames[k + 1].todo \ {v} ELSE frames[k + 1].todo
      /\ low' = IF Len(frames) = 1 THEN low
                ELSE [low EXCEPT ![frames[2].node] = Smaller(low[frames[2].node], low[v])]
      /\ stack' \in Seq(Nodes)
      /\ \A i, j \in 1..Len(stack') : i < j => index[stack'[j]] < index[stack'[i]]
      /\ \/ /\ low[v] = index[v]
            /\ sccs' = Append(sccs, MetSince(v)) /\ Pending' = Pending \ MetSince(v)
         \/ /\ low[v] # index[v]
            /\ sccs' = sccs /\ Pending' = Pending
  <2>1. ReturnLeaves(v)
    BY ReturnSteps
  <2> QED
    BY <2>1 DEF ReturnLeaves
<1>2. /\ TarjanTyped /\ Pending \subseteq Nodes /\ index \in [Nodes -> Nat] /\ low \in [Nodes -> Nat]
      /\ adj \in [Nodes -> SUBSET Nodes] /\ counter \in Nat /\ sccs \in Seq(SUBSET Nodes)
      /\ 1 \in 1..Len(frames) /\ v = frames[1].node
  <2>1. TarjanTyped /\ 1 \in 1..Len(frames)
    BY <1>1 DEF TInv
  <2>2. Pending \subseteq Nodes
    BY <2>1, PendingAreNodes
  <2> QED
    BY <2>1, <2>2 DEF TarjanTyped
<1>3. \A k \in 1..Len(frames) : frames[k].node \in Pending /\ frames[k].node \in Nodes
  BY <1>2 DEF TInv, Called
<1>4. ASSUME NEW k \in 1..Len(frames), k # 1
      PROVE  index[frames[k].node] < index[v]
  <2>1. 1 < k
    BY <1>1, <1>4
  <2> QED
    BY <1>2, <2>1 DEF TInv, Numbered
<1>5. low[v] <= index[v] /\ \E x \in Pending : index[x] = low[v] /\ Reaches(v, x)
  BY <1>2 DEF TInv, LowIsReached
\* Whoever was met before v is still pending, and only a pop takes the others.
<1>6. /\ Pending' \subseteq Pending
      /\ \A u \in Pending : index[u] < index[v] => u \in Pending'
      /\ \A u \in Pending' : ~(index[u] < index[v]) => low[v] < index[v]
  <2>1. v \in Nodes /\ low[v] \in Nat /\ index[v] \in Nat /\ \A u \in Pending : index[u] \in Nat
    BY <1>1, <1>2
  <2>2. CASE low[v] = index[v] /\ Pending' = Pending \ MetSince(v)
    BY <2>1, <2>2 DEF MetSince
  <2>3. CASE low[v] # index[v] /\ Pending' = Pending
    BY <1>5, <2>1, <2>3
  <2> QED
    BY <1>1, <2>2, <2>3
<1>7. /\ low' \in [Nodes -> Nat] /\ \A u \in Nodes : low'[u] <= low[u]
      /\ \A k \in 2..Len(frames) :
           /\ k = 2 => low'[frames[k].node] <= low[v]
           /\ low'[frames[k].node] # low[frames[k].node] => k = 2 /\ low'[frames[k].node] = low[v]
  <2>1. CASE Len(frames) = 1
    <3>1. low' = low
      BY <1>1, <2>1
    <3>2. 2..Len(frames) = {}
      BY <2>1
    <3> QED
      BY <1>2, <3>1, <3>2
  <2>2. CASE Len(frames) # 1
    <3> PICK g, m : g = frames[2].node /\ m = Smaller(low[g], low[v])
      OBVIOUS
    <3>1. 2 \in 1..Len(frames) /\ g \in Nodes /\ v \in Nodes
      BY <1>1, <1>2, <1>3, <2>2
    <3>2. m \in Nat /\ m <= low[g] /\ m <= low[v] /\ (m # low[g] => m = low[v])
      BY <1>2, <3>1 DEF Smaller
    <3>3. low' = [low EXCEPT ![g] = m]
      BY <1>1, <2>2
    <3>4. low' \in [Nodes -> Nat] /\ \A u \in Nodes : low'[u] = IF u = g THEN m ELSE low[u]
      BY ONLY <1>2, <3>1, <3>2, <3>3
    <3>5. \A u \in Nodes : low'[u] <= low[u]
      <4> SUFFICES ASSUME NEW u \in Nodes PROVE low'[u] <= low[u]
        OBVIOUS
      <4>1. low[u] \in Nat
        BY <1>2
      <4> QED
        BY <3>2, <3>4, <4>1
    <3>6. ASSUME NEW k \in 2..Len(frames)
          PROVE  /\ k = 2 => low'[frames[k].node] <= low[v]
                 /\ low'[frames[k].node] # low[frames[k].node] => k = 2 /\ low'[frames[k].node] = low[v]
      <4>1. CASE k = 2
        BY <3>1, <3>2, <3>4, <4>1
      <4>2. CASE k # 2
        <5>1. k \in 1..Len(frames) /\ 2 < k
          BY <1>1, <4>2
        <5>2. index[frames[k].node] < index[g]
          BY <3>1, <5>1 DEF TInv, Numbered
        <5>3. frames[k].node # g
          BY <1>2, <3>1, <5>2
        <5> QED
          BY <1>3, <3>4, <4>2, <5>1, <5>3
      <4> QED
        BY <4>1, <4>2
    <3> QED
      BY <3>4, <3>5, <3>6
  <2> QED
    BY <2>1, <2>2
<1>8. \A a, b : Reaches(a, b)' = Reaches(a, b)
  BY <1>1, SameEdgesSameReach
\* The calls that remain.
<1>9. ASSUME NEW k \in 1..Len(frames')
      PROVE  /\ k + 1 \in 2..Len(frames) /\ k + 1 \in 1..Len(frames)
             /\ frames'[k].node = frames[k + 1].node
             /\ frames'[k].todo \subseteq frames[k + 1].todo
             /\ frames[k + 1].todo \subseteq frames'[k].todo \cup {v}
             /\ k # 1 => frames'[k].todo = frames[k + 1].todo
             /\ frames[k + 1].node \in Pending /\ frames[k + 1].node \in Nodes
             /\ index[frames[k + 1].node] < index[v]
  <2>1. k + 1 \in 1..Len(frames) /\ k + 1 # 1 /\ k + 1 \in 2..Len(frames)
    BY <1>1
  <2>2. /\ frames'[k].todo \subseteq frames[k + 1].todo
        /\ frames[k + 1].todo \subseteq frames'[k].todo \cup {v}
        /\ k # 1 => frames'[k].todo = frames[k + 1].todo
    <3>1. CASE k = 1
      <4>1. frames'[k].todo = frames[k + 1].todo \ {v}
        BY <1>1, <3>1
      <4> QED
        BY <3>1, <4>1
    <3>2. CASE k # 1
      <4>1. frames'[k].todo = frames[k + 1].todo
        BY <1>1, <3>2
      <4> QED
        BY <4>1
    <3> QED
      BY <3>1, <3>2
  <2> QED
    BY <1>1, <1>3, <1>4, <2>1, <2>2
<1>10. \A k \in 2..Len(frames) : k - 1 \in 1..Len(frames') /\ (k - 1) + 1 = k
  BY <1>1
<1>11. Numbered'
  <2>1. ASSUME NEW i \in 1..Len(frames'), NEW j \in 1..Len(frames'), i < j
        PROVE  index[frames'[j].node] < index[frames'[i].node]
    <3>1. i + 1 < j + 1
      BY <1>1, <2>1
    <3>2. index[frames[j + 1].node] < index[frames[i + 1].node]
      BY <1>9, <3>1 DEF TInv, Numbered
    <3> QED
      BY <1>9, <3>2
  <2>2. \A u \in Nodes : index[u] <= counter
    BY DEF TInv, Numbered
  <2> QED
    BY <1>1, <2>1, <2>2 DEF Numbered
<1>12. Called'
  <2> SUFFICES ASSUME NEW k \in 1..Len(frames')
               PROVE  /\ frames'[k].node \in Pending' /\ frames'[k].todo \subseteq adj[frames'[k].node]
                      /\ k > 1 => frames'[k - 1].node \in frames'[k].todo
    BY <1>1 DEF Called
  <2>1. frames[k + 1].todo \subseteq adj[frames[k + 1].node] /\ frames[k].node \in frames[k + 1].todo
    <3>1. k + 1 > 1 /\ (k + 1) - 1 = k
      BY <1>1
    <3>2. k + 1 > 1 => frames[(k + 1) - 1].node \in frames[k + 1].todo
      BY <1>9 DEF TInv, Called
    <3> QED
      BY <1>9, <3>1, <3>2 DEF TInv, Called
  <2>2. k > 1 => frames'[k - 1].node = frames[k].node /\ frames'[k].todo = frames[k + 1].todo
    <3> HAVE k > 1
    <3>1. k - 1 \in 1..Len(frames') /\ (k - 1) + 1 = k /\ k # 1
      BY <1>1
    <3>2. frames'[k - 1].node = frames[(k - 1) + 1].node
      BY <1>9, <3>1
    <3> QED
      BY <1>9, <3>1, <3>2
  <2> QED
    BY <1>6, <1>9, <2>1, <2>2
<1>13. Explored'
  <2> SUFFICES ASSUME NEW u \in Nodes, index[u] # 0, NEW w \in adj[u]
               PROVE  index[w] # 0 \/ \E k \in 1..Len(frames') : frames'[k].node = u /\ w \in frames'[k].todo
    BY <1>1 DEF Explored
  <2>1. CASE index[w] # 0
    BY <2>1
  <2>2. ASSUME NEW k \in 1..Len(frames), frames[k].node = u, w \in frames[k].todo
        PROVE  index[w] # 0 \/ \E m \in 1..Len(frames') : frames'[m].node = u /\ w \in frames'[m].todo
    <3>1. k \in 2..Len(frames)
      <4>1. k # 1
        BY <1>1, <2>2
      <4> QED
        BY <1>1, <4>1
    <3>2. k - 1 \in 1..Len(frames') /\ (k - 1) + 1 = k
      BY <1>10, <3>1
    <3>3. frames'[k - 1].node = u /\ w \in frames'[k - 1].todo \cup {v}
      BY <1>9, <2>2, <3>2
    <3>4. index[v] # 0
      BY <1>1, <1>2 DEF TInv, VisitedOnce
    <3> QED
      BY <3>2, <3>3, <3>4
  <2>3. index[w] # 0 \/ \E k \in 1..Len(frames) : frames[k].node = u /\ w \in frames[k].todo
    BY DEF TInv, Explored
  <2> QED
    BY <2>1, <2>2, <2>3
<1>14. LowIsReached'
  <2> SUFFICES ASSUME NEW k \in 1..Len(frames')
               PROVE  /\ low'[frames'[k].node] <= index[frames'[k].node]
                      /\ \E x \in Pending' : index[x] = low'[frames'[k].node] /\ Reaches(frames'[k].node, x)
    BY <1>1, <1>8 DEF LowIsReached
  <2> PICK g : g = frames[k + 1].node
    OBVIOUS
  <2>1. /\ g = frames'[k].node /\ g \in Nodes /\ index[g] < index[v] /\ v \in Nodes
        /\ low[g] <= index[g] /\ \E x \in Pending : index[x] = low[g] /\ Reaches(g, x)
    BY <1>1, <1>2, <1>9 DEF TInv, LowIsReached
  <2>2. low'[g] <= index[g] /\ low'[g] < index[v] /\ low[g] \in Nat /\ low'[g] \in Nat
    <3>1. low[g] \in Nat /\ low'[g] \in Nat /\ index[g] \in Nat /\ index[v] \in Nat /\ low'[g] <= low[g]
      BY <1>2, <1>7, <2>1
    <3> QED
      BY <2>1, <3>1
  <2>3. CASE low'[g] = low[g]
    BY <1>6, <2>1, <2>2, <2>3
  <2>4. CASE low'[g] # low[g]
    <3>1. k + 1 = 2 /\ low'[g] = low[v]
      BY <1>7, <1>9, <2>4
    <3>2. PICK x \in Pending : index[x] = low[v] /\ Reaches(v, x)
      BY <1>5
    <3>3. v \in adj[g]
      <4>1. 2 \in 1..Len(frames) /\ g = frames[2].node
        BY <1>9, <3>1
      <4>2. frames[2 - 1].node \in frames[2].todo /\ frames[2].todo \subseteq adj[g]
        BY <4>1 DEF TInv, Called
      <4> QED
        BY <4>2
    <3>4. Reaches(g, x)
      BY <3>2, <3>3, ReachesByEdge, ReachesOn
    <3>5. x \in Pending'
      BY <1>6, <2>2, <3>1, <3>2
    <3> QED
      BY <2>1, <2>2, <3>1, <3>2, <3>4, <3>5
  <2> QED
    BY <2>3, <2>4
<1>15. ReachedFromCalls'
  <2> SUFFICES ASSUME NEW k \in 1..Len(frames'), NEW u \in Pending', index[frames'[k].node] <= index[u]
               PROVE  Reaches(frames'[k].node, u)
    BY <1>1, <1>8 DEF ReachedFromCalls
  <2> QED
    BY <1>6, <1>9 DEF TInv, ReachedFromCalls
<1>16. LeadsToACall'
  <2> SUFFICES ASSUME NEW u \in Pending'
               PROVE  \E k \in 1..Len(frames') : index[frames'[k].node] <= index[u] /\ Reaches(u, frames'[k].node)
    BY <1>1, <1>8 DEF LeadsToACall
  <2>1. PICK k \in 1..Len(frames) : index[frames[k].node] <= index[u] /\ Reaches(u, frames[k].node)
    BY <1>6 DEF TInv, LeadsToACall
  <2>2. ASSUME NEW m \in 1..Len(frames), m # 1, index[frames[m].node] <= index[u], Reaches(u, frames[m].node)
        PROVE  \E j \in 1..Len(frames') : index[frames'[j].node] <= index[u] /\ Reaches(u, frames'[j].node)
    <3>1. m \in 2..Len(frames)
      BY <1>1, <2>2
    <3>2. m - 1 \in 1..Len(frames') /\ (m - 1) + 1 = m
      BY <1>10, <3>1
    <3>3. frames'[m - 1].node = frames[m].node
      BY <1>9, <3>2
    <3> QED
      BY <2>2, <3>2, <3>3
  <2>3. CASE k # 1
    BY <2>1, <2>2, <2>3
  <2>4. CASE k = 1
    <3>1. index[v] <= index[u] /\ Reaches(u, v) /\ u \in Nodes /\ v \in Nodes
      BY <1>1, <1>2, <1>6, <2>1, <2>4
    <3>2. low[v] < index[v]
      BY <1>2, <1>6, <3>1
    <3>3. PICK x \in Pending : index[x] = low[v] /\ Reaches(v, x)
      BY <1>5
    <3>4. PICK m \in 1..Len(frames) : index[frames[m].node] <= index[x] /\ Reaches(x, frames[m].node)
      BY DEF TInv, LeadsToACall
    <3>5. frames[m].node \in Nodes /\ x \in Nodes
      BY <1>2, <1>3
    <3>6. index[frames[m].node] < index[v] /\ index[frames[m].node] <= index[u]
      BY <1>2, <3>1, <3>2, <3>3, <3>4, <3>5
    <3>7. m # 1
      BY <1>2, <3>1, <3>6
    <3>8. Reaches(u, frames[m].node)
      BY <3>1, <3>3, <3>4, ReachesOn
    <3> QED
      BY <2>2, <3>6, <3>7, <3>8
  <2> QED
    BY <2>3, <2>4
<1>17. LowBounds'
  <2> SUFFICES ASSUME NEW k \in 1..Len(frames'), NEW u \in Pending', index[frames'[k].node] <= index[u],
                      k > 1 => index[u] < index[frames'[k - 1].node],
                      NEW w \in adj[u] \cap Pending', u = frames'[k].node => w \notin frames'[k].todo
               PROVE  low'[frames'[k].node] <= index[w]
    BY <1>1 DEF LowBounds
  <2> PICK g : g = frames[k + 1].node
    OBVIOUS
  <2>1. /\ g = frames'[k].node /\ g \in Nodes /\ index[g] < index[v] /\ v \in Nodes
        /\ u \in Pending /\ w \in Pending /\ u \in Nodes /\ w \in Nodes /\ w \in adj[u]
    BY <1>1, <1>2, <1>6, <1>9
  <2>2. /\ low'[g] \in Nat /\ low[g] \in Nat /\ low[v] \in Nat /\ index[w] \in Nat /\ index[u] \in Nat
        /\ index[v] \in Nat /\ index[g] \in Nat
        /\ low'[g] <= low[g]
    BY <1>2, <1>7, <2>1
  <2>3. low[g] <= index[g]
    BY <1>9 DEF TInv, LowIsReached
  <2>4. ASSUME index[u] < index[frames[k].node]
        PROVE  low'[g] <= index[w]
    <3>1. (k + 1) - 1 = k
      BY <1>1
    <3>2. CASE u = g /\ w \in frames[k + 1].todo
      <4>1. w = v
        BY <1>9, <2>1, <3>2
      <4> QED
        BY <2>1, <2>2, <2>3, <4>1
    <3>3. CASE u = g => w \notin frames[k + 1].todo
      <4>1. index[frames[k + 1].node] <= index[u] /\ index[u] < index[frames[(k + 1) - 1].node]
        BY <2>1, <2>4, <3>1
      <4>2. low[g] <= index[w]
        BY <1>9, <2>1, <3>3, <4>1 DEF TInv, LowBounds
      <4> QED
        BY <2>2, <4>2
    <3> QED
      BY <3>2, <3>3
  <2>5. CASE k = 1
    <3>1. CASE index[u] < index[v]
      <4>1. index[u] < index[frames[k].node]
        BY <1>2, <2>5, <3>1
      <4> QED
        BY <2>1, <2>4, <4>1
    <3>2. CASE ~(index[u] < index[v])
      <4>1. low[v] <= index[w]
        <5>1. index[frames[1].node] <= index[u] /\ (1 > 1 => index[u] < index[frames[1 - 1].node])
          BY <1>2, <2>2, <3>2
        <5>2. w \notin frames[1].todo
          BY <1>1
        <5> QED
          BY <1>2, <2>1, <5>1, <5>2 DEF TInv, LowBounds
      <4>2. low'[g] <= low[v]
        <5>1. k + 1 \in 2..Len(frames) /\ k + 1 = 2
          BY <1>9, <2>5
        <5>2. k + 1 = 2 => low'[frames[k + 1].node] <= low[v]
          BY <1>7, <5>1
        <5> QED
          BY <5>1, <5>2
      <4> QED
        BY <2>1, <2>2, <4>1, <4>2
    <3> QED
      BY <3>1, <3>2
  <2>6. CASE k # 1
    <3>1. k > 1 /\ k - 1 \in 1..Len(frames') /\ (k - 1) + 1 = k
      BY <1>1, <2>6
    <3>2. frames'[k - 1].node = frames[(k - 1) + 1].node
      BY <1>9, <3>1
    <3>3. index[u] < index[frames[k].node]
      BY <3>1, <3>2
    <3> QED
      BY <2>1, <2>4, <3>3
  <2> QED
    BY <2>1, <2>5, <2>6
<1>18. TarjanTyped' /\ VisitedOnce' /\ SccsAreComponents' /\ FoundInOrder' /\ FoundOnce' /\ AllFinite'
  <2>1. TarjanTyped' <=> sccs' \in Seq(SUBSET Nodes)
    BY ONLY <1>1, <1>2, <1>7 DEF TarjanTyped
  <2>2. CASE sccs' = sccs /\ Pending' = Pending
    <3>1. Popped' = Popped
      BY <2>2 DEF Popped
    <3> QED
      BY <1>1, <1>2, <1>8, <2>1, <2>2, <3>1 DEF TInv, VisitedOnce, SccsAreComponents, FoundInOrder, FoundOnce, AllFinite
  <2>3. CASE low[v] = index[v] /\ sccs' = Append(sccs, MetSince(v)) /\ Pending' = Pending \ MetSince(v)
    <3>1. MetSince(v) \subseteq Pending /\ MetSince(v) \subseteq Nodes /\ Len(sccs) \in Nat
      BY <1>2 DEF MetSince
    <3>2. /\ sccs' \in Seq(SUBSET Nodes) /\ Len(sccs') = Len(sccs) + 1
          /\ \A i \in 1..Len(sccs) : sccs'[i] = sccs[i]
          /\ sccs'[Len(sccs) + 1] = MetSince(v)
      BY ONLY <1>2, <2>3, <3>1, AppendProperties
    <3>3. \A i : i \in 1..Len(sccs') <=> i \in 1..Len(sccs) \/ i = Len(sccs) + 1
      BY ONLY <3>1, <3>2
    <3>4. Popped' = Popped \cup MetSince(v)
      BY <3>2, <3>3 DEF Popped
    <3>5. VisitedOnce'
      BY <1>1, <2>3, <3>1, <3>4 DEF TInv, VisitedOnce
    <3>6. \A i \in 1..Len(sccs) : sccs[i] \subseteq Popped /\ sccs[i] \cap MetSince(v) = {}
      BY <3>1 DEF TInv, VisitedOnce, Popped
    <3>7. FoundOnce'
      BY <3>2, <3>3, <3>6 DEF TInv, FoundOnce
    <3>8. ASSUME NEW u \in MetSince(v), NEW w \in adj[u]
          PROVE  w \in Popped \cup MetSince(v)
      <4>1. u \in Pending /\ u \in Nodes /\ index[v] <= index[u] /\ w \in Nodes /\ v \in Nodes
            /\ index[u] \in Nat /\ index[v] \in Nat /\ index[w] \in Nat
        BY <1>1, <1>2 DEF MetSince
      <4>2. ASSUME NEW k \in 1..Len(frames), frames[k].node = u, w \in frames[k].todo
            PROVE  FALSE
        <5>1. k # 1
          BY <1>1, <4>2
        <5>2. index[u] < index[v]
          BY <1>4, <4>2, <5>1
        <5> QED
          BY <4>1, <5>2
      <4>3. index[u] # 0
        BY <4>1 DEF TInv, VisitedOnce
      <4>4. index[w] # 0
        BY <4>1, <4>2, <4>3 DEF TInv, Explored
      <4>5. w \in Pending \cup Popped
        BY <4>1, <4>4 DEF TInv, VisitedOnce
      <4>6. ASSUME w \in Pending
            PROVE  index[v] <= index[w]
        <5>1. index[frames[1].node] <= index[u] /\ (1 > 1 => index[u] < index[frames[1 - 1].node])
          BY <1>2, <4>1
        <5>2. w \notin frames[1].todo
          BY <1>1
        <5>3. low[v] <= index[w]
          BY <1>2, <4>1, <4>6, <5>1, <5>2 DEF TInv, LowBounds
        <5> QED
          BY <2>3, <5>3
      <4> QED
        BY <4>5, <4>6 DEF MetSince
    <3>9. FoundInOrder'
      <4> SUFFICES ASSUME NEW i \in 1..Len(sccs'), NEW u \in sccs'[i], NEW w \in adj[u]
                   PROVE  \E j \in 1..i : w \in sccs'[j]
        BY <1>1 DEF FoundInOrder
      <4>1. CASE i \in 1..Len(sccs)
        <5>1. PICK j \in 1..i : w \in sccs[j]
          BY <3>2, <4>1 DEF TInv, FoundInOrder
        <5>2. j \in 1..Len(sccs)
          BY <3>1, <4>1
        <5> QED
          BY <3>2, <5>1, <5>2
      <4>2. CASE i = Len(sccs) + 1
        <5>1. w \in Popped \cup MetSince(v)
          BY <3>2, <3>8, <4>2
        <5>2. ASSUME NEW j \in 1..Len(sccs), w \in sccs[j]
              PROVE  \E m \in 1..i : w \in sccs'[m]
          <6>1. j \in 1..i
            BY <3>1, <4>2
          <6> QED
            BY <3>2, <5>2, <6>1
        <5>3. i \in 1..i
          BY <3>1, <4>2
        <5> QED
          BY <3>2, <4>2, <5>1, <5>2, <5>3 DEF Popped
      <4> QED
        BY <3>3, <4>1, <4>2
    <3>10. ASSUME NEW u \in MetSince(v)
           PROVE  MetSince(v) = {w \in Nodes : Reaches(u, w) /\ Reaches(w, u)}
      <4>1. \A w \in MetSince(v) : Reaches(v, w)
        BY <1>2 DEF TInv, ReachedFromCalls, MetSince
      <4>2. ASSUME NEW w \in MetSince(v)
            PROVE  Reaches(w, v)
        <5>1. PICK k \in 1..Len(frames) : index[frames[k].node] <= index[w] /\ Reaches(w, frames[k].node)
          BY <3>1 DEF TInv, LeadsToACall
        <5>2. index[frames[k].node] <= index[v]
          <6>1. CASE k = 1
            BY <1>1, <1>2, <6>1
          <6>2. CASE k # 1
            <7>1. index[frames[k].node] < index[v] /\ index[frames[k].node] \in Nat /\ index[v] \in Nat
              BY <1>1, <1>2, <1>3, <1>4, <6>2
            <7> QED
              BY <7>1
          <6> QED
            BY <6>1, <6>2
        <5>3. Reaches(frames[k].node, v)
          BY <1>1, <5>2 DEF TInv, ReachedFromCalls
        <5> QED
          BY <5>1, <5>3, ReachesOn
      <4>3. ASSUME NEW w \in Nodes, Reaches(u, w), Reaches(w, u)
            PROVE  w \in MetSince(v)
        <5>1. Popped \in SUBSET Nodes /\ MetSince(v) \in SUBSET Nodes
          BY <1>2, <3>1, PendingAreNodes
        <5>2. \A x \in Popped : adj[x] \subseteq Popped
          <6> SUFFICES ASSUME NEW i \in 1..Len(sccs), NEW x \in sccs[i], NEW y \in adj[x]
                       PROVE  y \in Popped
            BY DEF Popped
          <6>1. PICK j \in 1..i : y \in sccs[j]
            BY DEF TInv, FoundInOrder
          <6>2. j \in 1..Len(sccs)
            BY <3>1
          <6> QED
            BY <6>1, <6>2 DEF Popped
        <5>3. \A x \in Popped \cup MetSince(v) : adj[x] \subseteq Popped \cup MetSince(v)
          BY <3>8, <5>2
        <5>4. w \in Popped \cup MetSince(v)
          BY <4>3, <5>1, <5>3, ClosedHolds
        <5>5. w \notin Popped
          <6> SUFFICES ASSUME w \in Popped PROVE FALSE
            OBVIOUS
          <6>1. u \in Popped
            BY <4>3, <5>1, <5>2, ClosedHolds
          <6> QED
            BY <3>1, <6>1 DEF TInv, VisitedOnce
        <5> QED
          BY <5>4, <5>5
      <4>4. \A w \in MetSince(v) : w \in Nodes /\ Reaches(u, w) /\ Reaches(w, u)
        BY <3>1, <4>1, <4>2, ReachesOn
      <4> QED
        BY <4>3, <4>4
    <3>11. SccsAreComponents'
      <4> SUFFICES ASSUME NEW i \in 1..Len(sccs'), NEW u \in sccs'[i]
                   PROVE  sccs'[i] = {w \in Nodes : Reaches(u, w) /\ Reaches(w, u)}
        BY <1>8 DEF SccsAreComponents
      <4>1. CASE i \in 1..Len(sccs)
        BY <3>2, <4>1 DEF TInv, SccsAreComponents
      <4>2. CASE i = Len(sccs) + 1
        BY <3>2, <3>10, <4>2
      <4> QED
        BY <3>3, <4>1, <4>2
    <3>12. AllFinite'
      <4>1. IsFiniteSet(MetSince(v)) /\ IsFiniteSet(Pending \ MetSince(v))
        BY <3>1, FS_Subset DEF TInv, AllFinite
      <4> QED
        BY <2>3, <3>2, <3>3, <4>1 DEF TInv, AllFinite
    <3> QED
      BY <2>1, <3>2, <3>5, <3>7, <3>9, <3>11, <3>12
  <2> QED
    BY <1>1, <2>2, <2>3
<1> QED
  BY <1>11, <1>12, <1>13, <1>14, <1>15, <1>16, <1>17, <1>18 DEF TInv

-----------------------------------------------------------------------------
(* Every step.                                                             *)

LEMMA TarjanStarts == Init(Graphs) => TInv
<1> SUFFICES ASSUME Init(Graphs) PROVE TInv
  OBVIOUS
<1>1. /\ adj \in [Nodes -> SUBSET Nodes] /\ counter = 0 /\ stack = <<>> /\ frames = <<>> /\ sccs = <<>>
      /\ index = [v \in Nodes |-> 0] /\ low = [v \in Nodes |-> 0]
  BY TarjanAssumption DEF Init
<1>2. 1..Len(stack) = {} /\ 1..Len(frames) = {} /\ 1..Len(sccs) = {}
  BY <1>1
<1>3. Pending = {} /\ Popped = {}
  BY <1>1, <1>2 DEF Pending, Popped, ToSet
<1>4. TarjanTyped
  BY <1>1 DEF TarjanTyped
<1>5. Numbered /\ VisitedOnce /\ Called /\ Explored
  BY <1>1, <1>2, <1>3 DEF Numbered, VisitedOnce, Called, Explored
<1>6. LowIsReached /\ ReachedFromCalls /\ LeadsToACall /\ LowBounds
  BY <1>2, <1>3 DEF LowIsReached, ReachedFromCalls, LeadsToACall, LowBounds
<1>7. SccsAreComponents /\ FoundInOrder /\ FoundOnce /\ AllFinite
  BY <1>2, <1>3, FS_EmptySet DEF SccsAreComponents, FoundInOrder, FoundOnce, AllFinite
<1> QED
  BY <1>4, <1>5, <1>6, <1>7 DEF TInv

LEMMA TarjanStepKeeps == TInv /\ [Next]_vars => TInv'
<1> SUFFICES ASSUME TInv, [Next]_vars
             PROVE  TInv'
  OBVIOUS
<1>1. CASE UNCHANGED vars
  <2>1. /\ adj' = adj /\ index' = index /\ low' = low /\ counter' = counter
        /\ stack' = stack /\ frames' = frames /\ sccs' = sccs
    BY <1>1 DEF vars
  <2>2. Pending' = Pending /\ Popped' = Popped
    BY <2>1 DEF Pending, Popped
  <2>3. \A a, b : Reaches(a, b)' = Reaches(a, b)
    BY <2>1, SameEdgesSameReach
  <2>4. TarjanTyped' /\ Numbered' /\ VisitedOnce' /\ Called' /\ Explored'
    BY <2>1, <2>2 DEF TInv, TarjanTyped, Numbered, VisitedOnce, Called, Explored
  <2>5. LowIsReached' /\ ReachedFromCalls' /\ LeadsToACall' /\ LowBounds'
    BY <2>1, <2>2, <2>3 DEF TInv, LowIsReached, ReachedFromCalls, LeadsToACall, LowBounds
  <2>6. SccsAreComponents' /\ FoundInOrder' /\ FoundOnce' /\ AllFinite'
    BY <2>1, <2>2, <2>3 DEF TInv, SccsAreComponents, FoundInOrder, FoundOnce, AllFinite
  <2> QED
    BY <2>4, <2>5, <2>6 DEF TInv
<1>2. CASE NextRoot
  <2> PICK v : v = Least(Unvisited)
    OBVIOUS
  <2>1. v \in Nodes /\ index[v] = 0
    <3>1. Unvisited \subseteq Nat /\ Unvisited # {}
      BY <1>2, TarjanAssumption DEF NextRoot, Unvisited
    <3>2. v \in Unvisited
      BY <3>1, LeastIsLeast
    <3> QED
      BY <3>2 DEF Unvisited
  <2>2. Enter(v) /\ ~(Len(frames) > 0)
    BY <1>2 DEF NextRoot
  <2> QED
    BY <2>1, <2>2, EnterKeeps
<1>3. CASE VisitNew
  <2> PICK w : w = NextNeighbour
    OBVIOUS
  <2>1. Enter(w) /\ index[w] = 0 /\ frames # <<>> /\ Top.todo # {}
    BY <1>3 DEF VisitNew
  <2>2. TarjanTyped /\ Len(frames) \in Nat /\ Len(frames) > 0 /\ 1 \in 1..Len(frames) /\ Top = frames[1]
    BY <2>1 DEF Top, TInv, TarjanTyped
  <2>3. frames[1].todo \subseteq Nodes /\ frames[1].todo # {}
    BY <2>1, <2>2, PendingAreNodes
  <2>4. w \in frames[1].todo
    <3>1. frames[1].todo \subseteq Nat
      BY <2>3, TarjanAssumption
    <3> QED
      BY <2>2, <2>3, <3>1, LeastIsLeast DEF NextNeighbour
  <2> QED
    BY <2>1, <2>3, <2>4, EnterKeeps
<1>4. CASE VisitOld
  BY <1>4, VisitOldKeeps
<1>5. CASE Return
  BY <1>5, ReturnKeeps
<1> QED
  BY <1>1, <1>2, <1>3, <1>4, <1>5 DEF Next

\* Tarjan's components, in the words of the model.
LEMMA ComponentIs ==
  ASSUME NEW v \in Nodes
  PROVE  Component(v) = {w \in Nodes : Reaches(v, w) /\ Reaches(w, v)}
<1>1. ASSUME NEW u \in Nodes, NEW w \in Nodes
      PROVE  w \in Reachable[u] <=> Reaches(u, w)
  BY DEF Reachable, ClosedSets, Reaches
<1>2. Reachable[v] \subseteq Nodes
  BY DEF Reachable
<1>3. Component(v) = {w \in Reachable[v] : v \in Reachable[w]}
  BY DEF Component
<1> QED
  BY <1>1, <1>2, <1>3

LEMMA TInvPopsComponents == TInv => PoppedAreComponents
<1> SUFFICES ASSUME TInv PROVE PoppedAreComponents
  OBVIOUS
<1>1. \A i \in 1..Len(sccs) : \A v \in sccs[i] : sccs[i] = Component(v)
  <2> SUFFICES ASSUME NEW i \in 1..Len(sccs), NEW v \in sccs[i]
               PROVE  sccs[i] = Component(v)
    OBVIOUS
  <2>1. v \in Nodes
    BY DEF TInv, TarjanTyped
  <2> QED
    BY <2>1, ComponentIs DEF TInv, SccsAreComponents
<1>2. ASSUME Done, NEW v \in Nodes
      PROVE  \E i \in 1..Len(sccs) : v \in sccs[i] /\ \A j \in 1..Len(sccs) : v \in sccs[j] => j = i
  <2>1. 1..Len(frames) = {}
    BY <1>2 DEF Done
  <2>2. Pending = {}
    BY <2>1 DEF TInv, LeadsToACall
  <2>3. v \in Popped
    BY <1>2, <2>2 DEF Done, Unvisited, TInv, VisitedOnce
  <2>4. PICK i \in 1..Len(sccs) : v \in sccs[i]
    BY <2>3 DEF Popped
  <2>5. \A j \in 1..Len(sccs) : v \in sccs[j] => j = i
    BY <2>4 DEF TInv, FoundOnce
  <2> QED
    BY <2>4, <2>5
<1> QED
  BY <1>1, <1>2 DEF PoppedAreComponents

-----------------------------------------------------------------------------
(* Kahn's layers (graph.go:285-343) over those components.                 *)

Placed == UNION {layers[k] : k \in 1..Len(layers)}
Left(j) == {i \in Components \ Placed : j \in OutEdges(i)}

LayersTyped ==
  /\ layers \in Seq(SUBSET Components) /\ queue \subseteq Components
  /\ incount \in [Components -> Nat]

\* A component has a layer after those of all its predecessors, one of which is
\* in the layer before; the next layer is of those that have lost all theirs.
PredecessorsFirst ==
  \A k \in 1..Len(layers) : \A j \in layers[k] : \A i \in Components :
    j \in OutEdges(i) => \E m \in 1..k - 1 : i \in layers[m]

NoSooner ==
  /\ \A k \in 1..Len(layers) : k > 1 => \A j \in layers[k] : \E i \in layers[k - 1] : j \in OutEdges(i)
  /\ layers # <<>> => \A j \in queue : \E i \in layers[Len(layers)] : j \in OutEdges(i)

PlacedOnce == \A k, m \in 1..Len(layers) : k # m => layers[k] \cap layers[m] = {}

CountsWhatIsLeft == \A j \in Components : incount[j] = Cardinality(Left(j))
QueueIsFree == queue = {j \in Components \ Placed : incount[j] = 0}

Layering ==
  LayersTyped /\ PredecessorsFirst /\ NoSooner /\ PlacedOnce /\ CountsWhatIsLeft /\ QueueIsFree

KInv ==
  /\ TInv /\ phase \in {"tarjan", "layers", "end"}
  /\ phase = "tarjan" => layers = <<>>
  /\ phase # "tarjan" => Done /\ Layering
  /\ phase = "end" => queue = {}
-----------------------------------------------------------------------------
(* Cycles.                                                                 *)

\* Whatever else v leads to, it leads to through an edge.
LEMMA ReachesThroughAnEdge ==
  ASSUME TarjanTyped, NEW v \in Nodes, NEW x \in Nodes, v # x, Reaches(v, x)
  PROVE  \E w \in adj[v] : Reaches(w, x)
<1> DEFINE S == {v} \cup {y \in Nodes : \E w \in adj[v] : Reaches(w, y)}
<1>1. S \in SUBSET Nodes /\ v \in S
  OBVIOUS
<1>2. ASSUME NEW y \in S, NEW z \in adj[y]
      PROVE  z \in S
  <2>1. z \in Nodes
    BY DEF TarjanTyped
  <2>2. CASE y = v
    BY <2>1, <2>2, ReachesItself
  <2>3. CASE y # v
    <3>1. PICK w \in adj[v] : Reaches(w, y)
      BY <2>3
    <3>2. Reaches(w, z)
      BY <3>1, ReachesByEdge, ReachesOn
    <3> QED
      BY <2>1, <3>2
  <2> QED
    BY <2>2, <2>3
<1> HIDE DEF S
<1>3. x \in S
  BY <1>1, <1>2, ClosedHolds
<1> QED
  BY <1>3 DEF S

LEMMA ReachableIs ==
  ASSUME NEW v \in Nodes, NEW w \in Nodes
  PROVE  w \in Reachable[v] <=> Reaches(v, w)
BY DEF Reachable, ClosedSets, Reaches

LEMMA TInvNamesTheCycles == TInv => CyclesAreTheNodesOnCycles
<1> SUFFICES ASSUME TInv, Done
             PROVE  Cycles = {Component(v) : v \in {u \in Nodes : \E w \in adj[u] : u \in Reachable[w]}}
  BY DEF CyclesAreTheNodesOnCycles
<1>1. PoppedAreComponents /\ TarjanTyped /\ adj \in [Nodes -> SUBSET Nodes]
  BY TInvPopsComponents DEF TInv, TarjanTyped
<1>2. ASSUME NEW i \in Components
      PROVE  /\ sccs[i] \subseteq Nodes /\ IsFiniteSet(sccs[i])
             /\ \A v \in sccs[i] : sccs[i] = Component(v)
  BY <1>1 DEF Components, TInv, TarjanTyped, AllFinite, PoppedAreComponents
<1>3. ASSUME NEW i \in Cyclic
      PROVE  \E v \in sccs[i] : \E w \in adj[v] : v \in Reachable[w]
  <2>1. i \in Components
    BY DEF Cyclic
  <2>2. CASE \E v \in sccs[i] : v \in adj[v]
    BY <1>1, <1>2, <2>1, <2>2, ReachableIs, ReachesItself
  <2>3. CASE Cardinality(sccs[i]) > 1
    <3>1. \E v, x \in sccs[i] : v # x
      <4> SUFFICES ASSUME \A v, x \in sccs[i] : v = x
                   PROVE  FALSE
        OBVIOUS
      <4>1. CASE sccs[i] = {}
        BY <2>3, <4>1, FS_EmptySet
      <4>2. CASE sccs[i] # {}
        <5>1. PICK v : sccs[i] = {v}
          BY <4>2
        <5> QED
          BY <2>3, <5>1, FS_Singleton
      <4> QED
        BY <4>1, <4>2
    <3>2. PICK v \in sccs[i], x \in sccs[i] : v # x
      BY <3>1
    <3>3. v \in Nodes /\ x \in Nodes /\ Reaches(v, x) /\ Reaches(x, v)
      BY <1>2, <2>1 DEF TInv, SccsAreComponents, Components
    <3>4. PICK w \in adj[v] : Reaches(w, x)
      BY <1>1, <3>2, <3>3, ReachesThroughAnEdge
    <3>5. w \in Nodes /\ Reaches(w, v)
      BY <1>1, <3>3, <3>4, ReachesOn
    <3> QED
      BY <3>3, <3>5, ReachableIs
  <2> QED
    BY <2>2, <2>3 DEF Cyclic
<1>4. ASSUME NEW v \in Nodes, NEW w \in adj[v], v \in Reachable[w]
      PROVE  \E i \in Cyclic : sccs[i] = Component(v)
  <2>1. PICK i \in Components : v \in sccs[i]
    BY <1>1 DEF PoppedAreComponents, Components
  <2>2. sccs[i] = Component(v)
    BY <1>2, <2>1
  <2>3. w \in sccs[i]
    <3>1. w \in Nodes /\ Reaches(v, w) /\ Reaches(w, v)
      BY <1>1, <1>4, ReachableIs, ReachesByEdge
    <3> QED
      BY <2>2, <3>1, ComponentIs
  <2>4. CASE v = w
    BY <2>1, <2>2, <2>4 DEF Cyclic
  <2>5. CASE v # w
    <3>1. IsFiniteSet({v, w}) /\ Cardinality({v, w}) = 2
      <4>1. IsFiniteSet({v}) /\ Cardinality({v}) = 1 /\ {v, w} = {v} \cup {w} /\ w \notin {v}
        BY <2>5, FS_Singleton
      <4> QED
        BY <4>1, FS_AddElement
    <3>2. {v, w} \in SUBSET sccs[i] /\ IsFiniteSet(sccs[i])
      BY <1>2, <2>1, <2>3
    <3>3. Cardinality({v, w}) <= Cardinality(sccs[i]) /\ Cardinality(sccs[i]) \in Nat
      BY <3>2, FS_Subset, FS_CardinalityType
    <3> QED
      BY <2>1, <2>2, <3>1, <3>3 DEF Cyclic
  <2> QED
    BY <2>4, <2>5
<1>5. ASSUME NEW c \in Cycles
      PROVE  \E v \in Nodes : c = Component(v) /\ \E w \in adj[v] : v \in Reachable[w]
  <2>1. PICK i \in Cyclic : c = sccs[i]
    BY DEF Cycles
  <2>2. i \in Components
    BY DEF Cyclic
  <2>3. PICK v \in sccs[i] : \E w \in adj[v] : v \in Reachable[w]
    BY <1>3
  <2> QED
    BY <1>2, <2>1, <2>2, <2>3
<1> QED
  BY <1>4, <1>5 DEF Cycles

-----------------------------------------------------------------------------
(* Layers.                                                                 *)

\* The components do not change while they are layered.
LEMMA SameComponents ==
  ASSUME adj' = adj, sccs' = sccs
  PROVE  Components' = Components /\ \A i : OutEdges(i)' = OutEdges(i)
BY DEF Components, OutEdges, Leads

LEMMA ComponentsAreFinite ==
  ASSUME TInv
  PROVE  /\ Len(sccs) \in Nat /\ Components \subseteq Nat /\ IsFiniteSet(Components)
         /\ \A S \in SUBSET Components : IsFiniteSet(S) /\ Cardinality(S) \in Nat
<1>1. Len(sccs) \in Nat
  BY DEF TInv, TarjanTyped
<1>2. IsFiniteSet(Components) /\ Components \subseteq Nat
  BY <1>1, FS_Interval DEF Components
<1> QED
  BY <1>1, <1>2, FS_Subset, FS_CardinalityType

\* An edge leads to a component that was found before.
LEMMA EdgesLeadBack ==
  ASSUME TInv, NEW i \in Components, NEW j \in Components, j \in OutEdges(i)
  PROVE  j < i
<1>1. PICK v \in sccs[i] : adj[v] \cap sccs[j] # {} /\ i # j
  BY DEF OutEdges, Leads
<1> PICK w \in adj[v] : w \in sccs[j]
  BY <1>1
<1>2. PICK m \in 1..i : w \in sccs[m]
  BY <1>1 DEF TInv, FoundInOrder, Components
<1>3. i \in Nat /\ j \in Nat /\ i \in 1..Len(sccs) /\ j \in 1..Len(sccs) /\ Len(sccs) \in Nat
  BY ComponentsAreFinite DEF Components
<1>4. m \in 1..Len(sccs)
  BY <1>3
<1>5. m = j
  BY <1>1, <1>2, <1>3, <1>4 DEF TInv, FoundOnce
<1> QED
  BY <1>1, <1>3, <1>5

\* While a component has no layer, one can be given the next.
LEMMA SomeIsFree ==
  ASSUME TInv, Layering, queue = {}
  PROVE  Components \subseteq Placed
<1> DEFINE U == Components \ Placed
           T == {Len(sccs) - i : i \in U}
<1> SUFFICES ASSUME U # {} PROVE FALSE
  OBVIOUS
<1>1. Len(sccs) \in Nat /\ Components \subseteq Nat /\ \A i \in Components : i <= Len(sccs)
  BY ComponentsAreFinite DEF Components
<1>2. T \subseteq Nat /\ T # {}
  <2>1. \A i \in U : Len(sccs) - i \in Nat
    <3> SUFFICES ASSUME NEW i \in Components PROVE Len(sccs) - i \in Nat
      OBVIOUS
    <3>1. i \in Nat /\ i <= Len(sccs)
      BY <1>1
    <3> QED
      BY <1>1, <3>1
  <2> QED
    BY <2>1
<1> HIDE DEF T
<1>3. PICK m \in T : \A k \in T : m <= k
  BY <1>2, LeastNatural
<1>4. PICK j \in U : m = Len(sccs) - j
  BY <1>3 DEF T
<1>5. \A i \in U : i <= j
  <2> SUFFICES ASSUME NEW i \in U PROVE i <= j
    OBVIOUS
  <2>1. m <= Len(sccs) - i
    BY <1>3 DEF T
  <2> QED
    BY <1>1, <1>4, <2>1
<1>6. Left(j) = {}
  <2> SUFFICES ASSUME NEW i \in Left(j) PROVE FALSE
    OBVIOUS
  <2>1. i \in U /\ i \in Components /\ j \in Components /\ j \in OutEdges(i)
    BY DEF Left
  <2>2. j < i
    BY <2>1, EdgesLeadBack
  <2> QED
    BY <1>1, <1>5, <2>1, <2>2
<1>7. incount[j] = 0
  BY <1>6, FS_EmptySet DEF Layering, CountsWhatIsLeft
<1> QED
  BY <1>7 DEF Layering, QueueIsFree

LEMMA StartLayersKeeps ==
  ASSUME TInv, layers = <<>>, StartLayers
  PROVE  Layering'
<1>1. /\ incount' = [j \in Components |-> ComponentsInto(j)]
      /\ queue' = {j \in Components : ComponentsInto(j) = 0}
      /\ layers' = <<>> /\ adj' = adj /\ sccs' = sccs
  BY DEF StartLayers, vars
<1>2. Components' = Components /\ \A i : OutEdges(i)' = OutEdges(i)
  BY <1>1, SameComponents
<1>3. 1..Len(layers') = {} /\ Placed' = {}
  BY <1>1 DEF Placed
<1>4. \A j \in Components : ComponentsInto(j) \in Nat
  BY ComponentsAreFinite DEF ComponentsInto
<1>5. LayersTyped'
  BY <1>1, <1>2, <1>4 DEF LayersTyped
<1>6. PredecessorsFirst' /\ NoSooner' /\ PlacedOnce'
  BY <1>1, <1>3 DEF PredecessorsFirst, NoSooner, PlacedOnce
<1>7. \A j \in Components : Left(j)' = {i \in Components : j \in OutEdges(i)}
  BY <1>2, <1>3 DEF Left
<1>8. CountsWhatIsLeft'
  BY <1>1, <1>2, <1>7 DEF CountsWhatIsLeft, ComponentsInto
<1>9. QueueIsFree'
  BY <1>1, <1>2, <1>3 DEF QueueIsFree
<1> QED
  BY <1>5, <1>6, <1>8, <1>9 DEF Layering

LEMMA NextLayerKeeps ==
  ASSUME TInv, Layering, NextLayer
  PROVE  Layering'
<1> PICK n, placed : n = Len(layers) /\ placed = Placed
  OBVIOUS
<1> DEFINE spent(j) == {i \in queue : j \in OutEdges(i)}
           left == [j \in Components |-> incount[j] - Cardinality(spent(j))]
<1>1. /\ layers' = Append(layers, queue) /\ incount' = left /\ queue' = FreeAfter(queue, left)
      /\ queue # {} /\ adj' = adj /\ sccs' = sccs
  BY DEF NextLayer, vars
<1> HIDE DEF left
<1>2. Components' = Components /\ \A i : OutEdges(i)' = OutEdges(i)
  BY <1>1, SameComponents
<1>3. /\ n \in Nat /\ queue \subseteq Components /\ layers \in Seq(SUBSET Components)
      /\ incount \in [Components -> Nat] /\ queue = {j \in Components \ placed : incount[j] = 0}
  BY DEF Layering, LayersTyped, QueueIsFree
<1>4. /\ layers' \in Seq(SUBSET Components) /\ Len(layers') = n + 1
      /\ \A k \in 1..n : layers'[k] = layers[k]
      /\ layers'[n + 1] = queue
  BY <1>1, <1>3, AppendProperties
<1>5. \A k : k \in 1..Len(layers') <=> k \in 1..n \/ k = n + 1
  BY ONLY <1>3, <1>4
<1>6. Placed' = placed \cup queue /\ placed \cap queue = {}
  BY <1>3, <1>4, <1>5 DEF Placed
\* The ones counted out are those of the layer.
<1>7. ASSUME NEW j \in Components
      PROVE  /\ Left(j)' = Left(j) \ spent(j) /\ spent(j) \subseteq Left(j)
             /\ left[j] = Cardinality(Left(j) \ spent(j)) /\ left[j] \in Nat
  <2>1. spent(j) \subseteq Left(j)
    BY <1>3 DEF Left
  <2>2. Left(j)' = Left(j) \ spent(j)
    BY <1>2, <1>6 DEF Left
  <2>3. IsFiniteSet(Left(j)) /\ Left(j) \cap spent(j) = spent(j)
    BY <2>1, ComponentsAreFinite DEF Left
  <2>4. Cardinality(Left(j) \ spent(j)) = Cardinality(Left(j)) - Cardinality(spent(j))
        /\ Cardinality(Left(j) \ spent(j)) \in Nat
    BY <2>3, FS_Difference, FS_CardinalityType
  <2>5. left[j] = incount[j] - Cardinality(spent(j)) /\ incount[j] = Cardinality(Left(j))
    BY DEF left, Layering, CountsWhatIsLeft
  <2> QED
    BY <2>1, <2>2, <2>4, <2>5
<1>8. \A j \in Components : left[j] = 0 <=> Left(j) = spent(j)
  <2> SUFFICES ASSUME NEW j \in Components
               PROVE  left[j] = 0 <=> Left(j) = spent(j)
    OBVIOUS
  <2>1. IsFiniteSet(Left(j) \ spent(j))
    BY ComponentsAreFinite DEF Left
  <2>2. left[j] = 0 <=> Left(j) \ spent(j) = {}
    BY <1>7, <2>1, FS_EmptySet
  <2> QED
    BY <1>7, <2>2
<1>9. \A j \in queue' : j \in Components /\ left[j] = 0 /\ \E i \in queue : j \in OutEdges(i)
  BY <1>1 DEF FreeAfter
<1>10. LayersTyped'
  <2>1. left \in [Components -> Nat]
    BY <1>7 DEF left
  <2> QED
    BY <1>1, <1>2, <1>4, <1>9, <2>1 DEF LayersTyped
<1>11. PredecessorsFirst'
  <2> SUFFICES ASSUME NEW k \in 1..Len(layers'), NEW j \in layers'[k], NEW i \in Components, j \in OutEdges(i)
               PROVE  \E m \in 1..k - 1 : i \in layers'[m]
    BY <1>2 DEF PredecessorsFirst
  <2>1. CASE k \in 1..n
    <3>1. PICK m \in 1..k - 1 : i \in layers[m]
      BY <1>4, <2>1 DEF Layering, PredecessorsFirst
    <3>2. m \in 1..n
      BY <1>3, <2>1
    <3> QED
      BY <1>4, <3>1, <3>2
  <2>2. CASE k = n + 1
    <3>1. j \in queue /\ j \in Components /\ incount[j] = 0
      BY <1>3, <1>4, <2>2
    <3>2. Left(j) = {}
      <4>1. IsFiniteSet(Left(j)) /\ Cardinality(Left(j)) = 0
        BY <3>1, ComponentsAreFinite DEF Layering, CountsWhatIsLeft, Left
      <4> QED
        BY <4>1, FS_EmptySet
    <3>3. i \in Placed
      BY <3>2 DEF Left
    <3>4. PICK m \in 1..n : i \in layers[m]
      BY <3>3 DEF Placed
    <3>5. m \in 1..k - 1
      BY <1>3, <2>2
    <3> QED
      BY <1>4, <3>4, <3>5
  <2> QED
    BY <1>5, <2>1, <2>2
<1>12. NoSooner'
  <2>1. ASSUME NEW k \in 1..Len(layers'), k > 1, NEW j \in layers'[k]
        PROVE  \E i \in layers'[k - 1] : j \in OutEdges(i)
    <3>1. CASE k \in 1..n
      <4>1. k - 1 \in 1..n
        BY <1>3, <2>1, <3>1
      <4> QED
        BY <1>4, <2>1, <3>1, <4>1 DEF Layering, NoSooner
    <3>2. CASE k = n + 1
      <4>1. n \in 1..n /\ k - 1 = n /\ j \in queue
        BY <1>3, <1>4, <2>1, <3>2
      <4>2. layers # <<>>
        BY <4>1
      <4>3. \E i \in layers[n] : j \in OutEdges(i)
        BY <4>1, <4>2 DEF Layering, NoSooner
      <4> QED
        BY <1>4, <4>1, <4>3
    <3> QED
      BY <1>5, <3>1, <3>2
  <2>2. ASSUME NEW j \in queue'
        PROVE  \E i \in layers'[Len(layers')] : j \in OutEdges(i)
    BY <1>4, <1>9
  <2> QED
    BY <1>2, <2>1, <2>2 DEF NoSooner
<1>13. PlacedOnce'
  <2>1. \A k \in 1..n : layers[k] \cap queue = {}
    BY <1>3 DEF Placed
  <2> QED
    BY <1>4, <1>5, <2>1 DEF Layering, PlacedOnce
<1>14. CountsWhatIsLeft'
  BY <1>1, <1>2, <1>7 DEF CountsWhatIsLeft
<1>15. QueueIsFree'
  <2>1. ASSUME NEW j \in queue'
        PROVE  j \notin placed /\ j \notin queue
    <3>1. PICK i \in queue : j \in OutEdges(i)
      BY <1>9
    <3>2. i \in Components /\ i \notin placed /\ j \in Components
      BY <1>3, <1>9
    <3>3. j \notin placed
      <4> SUFFICES ASSUME NEW k \in 1..n, j \in layers[k] PROVE FALSE
        BY DEF Placed
      <4>1. PICK m \in 1..k - 1 : i \in layers[m]
        BY <3>1, <3>2 DEF Layering, PredecessorsFirst
      <4>2. m \in 1..n
        BY <1>3
      <4> QED
        BY <3>2, <4>1, <4>2 DEF Placed
    <3>4. j \notin queue
      <4> SUFFICES ASSUME j \in queue PROVE FALSE
        OBVIOUS
      <4>1. IsFiniteSet(Left(j)) /\ Cardinality(Left(j)) = 0
        BY <1>3, <3>2, ComponentsAreFinite DEF Layering, CountsWhatIsLeft, Left
      <4>2. i \in Left(j)
        BY <3>1, <3>2 DEF Left
      <4> QED
        BY <4>1, <4>2, FS_EmptySet
    <3> QED
      BY <3>3, <3>4
  <2>2. ASSUME NEW j \in Components \ (placed \cup queue), left[j] = 0
        PROVE  j \in queue'
    <3>1. Left(j) = spent(j)
      BY <1>8, <2>2
    <3>2. Left(j) # {}
      <4>1. incount[j] # 0 /\ incount[j] = Cardinality(Left(j))
        BY <1>3, <2>2 DEF Layering, CountsWhatIsLeft
      <4> QED
        BY <4>1, FS_EmptySet
    <3> QED
      BY <1>1, <2>2, <3>1, <3>2 DEF FreeAfter
  <2> QED
    BY <1>1, <1>2, <1>6, <1>9, <2>1, <2>2 DEF QueueIsFree
<1> QED
  BY <1>10, <1>11, <1>12, <1>13, <1>14, <1>15 DEF Layering

LEMMA SameLayering ==
  ASSUME Layering, adj' = adj, sccs' = sccs, UNCHANGED <<incount, queue, layers>>
  PROVE  Layering'
<1>1. Components' = Components /\ \A i : OutEdges(i)' = OutEdges(i)
  BY SameComponents
<1>2. Placed' = Placed
  BY DEF Placed
<1>3. \A j : Left(j)' = Left(j)
  BY <1>1, <1>2 DEF Left
<1> QED
  BY <1>1, <1>2, <1>3
  DEF Layering, LayersTyped, PredecessorsFirst, NoSooner, PlacedOnce, CountsWhatIsLeft, QueueIsFree

LEMMA TopologyStarts == TopologyInit(Graphs) => KInv
BY TarjanStarts DEF TopologyInit, KInv

LEMMA TopologyStepKeeps == KInv /\ [TopologyNext]_topologyVars => KInv'
<1> SUFFICES ASSUME KInv, [TopologyNext]_topologyVars
             PROVE  KInv'
  OBVIOUS
<1>1. CASE Next /\ UNCHANGED kahn
  <2>1. phase' = phase /\ queue' = queue /\ layers' = layers /\ TInv'
    BY <1>1, TarjanStepKeeps DEF kahn, KInv
  <2>2. ~Done
    BY <1>1 DEF Done, Next, NextRoot, VisitNew, VisitOld, Return
  <2> QED
    BY <2>1, <2>2 DEF KInv
<1>2. CASE UNCHANGED topologyVars
  <2>1. UNCHANGED vars /\ UNCHANGED <<phase, incount, queue, layers>>
    BY <1>2 DEF topologyVars, kahn
  <2>2. TInv' /\ adj' = adj /\ sccs' = sccs /\ Done' = Done
    BY <2>1, TarjanStepKeeps DEF KInv, vars, Done, Unvisited
  <2>3. Layering => Layering'
    BY <2>1, <2>2, SameLayering
  <2> QED
    BY <2>1, <2>2, <2>3 DEF KInv
<1>3. CASE StartLayers
  <2>1. /\ Done /\ phase = "tarjan" /\ phase' = "layers" /\ UNCHANGED vars
    BY <1>3 DEF StartLayers
  <2>2. TInv' /\ Done'
    BY <2>1, TarjanStepKeeps DEF KInv, vars, Done, Unvisited
  <2>3. Layering'
    BY <1>3, <2>1, StartLayersKeeps DEF KInv
  <2> QED
    BY <2>1, <2>2, <2>3 DEF KInv
<1>4. CASE NextLayer
  <2>1. phase = "layers" /\ phase' = "layers" /\ UNCHANGED vars
    BY <1>4 DEF NextLayer
  <2>2. TInv' /\ Done' /\ Layering
    BY <2>1, TarjanStepKeeps DEF KInv, vars, Done, Unvisited
  <2>3. Layering'
    BY <1>4, <2>2, NextLayerKeeps DEF KInv
  <2> QED
    BY <2>1, <2>2, <2>3 DEF KInv
<1>5. CASE EndLayers
  <2>1. /\ phase = "layers" /\ phase' = "end" /\ UNCHANGED vars /\ queue = {}
        /\ UNCHANGED <<incount, queue, layers>>
    BY <1>5 DEF EndLayers
  <2>2. TInv' /\ Done' /\ Layering /\ adj' = adj /\ sccs' = sccs
    BY <2>1, TarjanStepKeeps DEF KInv, vars, Done, Unvisited
  <2>3. Layering'
    BY <2>1, <2>2, SameLayering
  <2> QED
    BY <2>1, <2>2, <2>3 DEF KInv
<1> QED
  BY <1>1, <1>2, <1>3, <1>4, <1>5 DEF TopologyNext

LEMMA KInvLayersEarliest == KInv => LayersAreEarliest
<1> SUFFICES ASSUME KInv PROVE LayersAreEarliest
  OBVIOUS
<1>1. CASE phase = "tarjan"
  <2>1. 1..Len(layers) = {}
    BY <1>1 DEF KInv
  <2> QED
    BY <1>1, <2>1 DEF LayersAreEarliest
<1>2. CASE phase # "tarjan"
  <2>1. TInv /\ Layering /\ Done
    BY <1>2 DEF KInv
  <2>2. ASSUME phase = "end"
        PROVE  /\ ~Fallback
               /\ \A i \in Components : \E k \in 1..Len(layers) :
                    i \in layers[k] /\ \A m \in 1..Len(layers) : i \in layers[m] => m = k
    <3>1. Components \subseteq Placed
      BY <2>1, <2>2, SomeIsFree DEF KInv
    <3>2. ASSUME NEW i \in Components
          PROVE  \E k \in 1..Len(layers) :
                   i \in layers[k] /\ \A m \in 1..Len(layers) : i \in layers[m] => m = k
      BY <2>1, <3>1 DEF Placed, Layering, PlacedOnce
    <3>3. ASSUME NEW v \in Nodes, layers = <<>>
          PROVE  FALSE
      <4>1. \E i \in Components : v \in sccs[i]
        BY <2>1, TInvPopsComponents DEF PoppedAreComponents, Components
      <4>2. 1..Len(layers) = {}
        BY <3>3
      <4> QED
        BY <3>2, <4>1, <4>2
    <3> QED
      BY <3>2, <3>3 DEF Fallback
  <2>3. ASSUME NEW k \in 1..Len(layers), NEW j \in layers[k]
        PROVE  /\ \A m \in k..Len(layers), i \in Components : j \in OutEdges(i) => i \notin layers[m]
               /\ k > 1 => \E i \in layers[k - 1] : j \in OutEdges(i)
    <3>1. ASSUME NEW m \in k..Len(layers), NEW i \in Components, j \in OutEdges(i), i \in layers[m]
          PROVE  FALSE
      <4>1. PICK l \in 1..k - 1 : i \in layers[l]
        BY <2>1, <3>1 DEF Layering, PredecessorsFirst
      <4>2. Len(layers) \in Nat /\ l \in 1..Len(layers) /\ m \in 1..Len(layers) /\ l # m
        BY <2>1 DEF Layering, LayersTyped
      <4> QED
        BY <2>1, <3>1, <4>1, <4>2 DEF Layering, PlacedOnce
    <3>2. k > 1 => \E i \in layers[k - 1] : j \in OutEdges(i)
      BY <2>1 DEF Layering, NoSooner
    <3> QED
      BY <3>1, <3>2
  <2> QED
    BY <2>2, <2>3 DEF LayersAreEarliest
<1> QED
  BY <1>1, <1>2

-----------------------------------------------------------------------------
(* The search of repo_impact (graph.go:207-259), for any graph: sorts first. *)

\* How many of S are before x in R.
RankIn(S, R, x) == Cardinality({y \in S : <<y, x>> \in R})

IsOrder(S, R) ==
  /\ \A x \in S : <<x, x>> \notin R
  /\ \A x, y, z \in S : <<x, y>> \in R /\ <<y, z>> \in R => <<x, z>> \in R
  /\ \A x, y \in S : x # y => <<x, y>> \in R \/ <<y, x>> \in R

\* In a finite ordered set every place is taken once.
LEMMA PlacesAreTakenOnce ==
  ASSUME NEW S, IsFiniteSet(S), NEW R, IsOrder(S, R)
  PROVE  /\ \A x \in S : RankIn(S, R, x) \in 0..Cardinality(S) - 1
         /\ \A x, y \in S : RankIn(S, R, x) = RankIn(S, R, y) => x = y
         /\ \A i \in 1..Cardinality(S) : \E x \in S : RankIn(S, R, x) = i - 1
<1> DEFINE below(x) == {y \in S : <<y, x>> \in R}
           n == Cardinality(S)
<1>1. n \in Nat
  BY FS_CardinalityType
<1>2. ASSUME NEW x \in S
      PROVE  IsFiniteSet(below(x)) /\ RankIn(S, R, x) = Cardinality(below(x))
  <2>1. below(x) \in SUBSET S
    OBVIOUS
  <2> QED
    BY <2>1, FS_Subset DEF RankIn
<1>3. ASSUME NEW x \in S
      PROVE  RankIn(S, R, x) \in 0..n - 1
  <2>1. below(x) \in SUBSET (S \ {x})
    BY DEF IsOrder
  <2>2. IsFiniteSet(S \ {x}) /\ Cardinality(S \ {x}) = n - 1
    BY FS_RemoveElement
  <2>3. Cardinality(below(x)) <= Cardinality(S \ {x}) /\ IsFiniteSet(below(x))
    BY ONLY <2>1, <2>2, FS_Subset
  <2>4. Cardinality(below(x)) \in Nat
    BY ONLY <2>3, FS_CardinalityType
  <2> QED
    BY <1>1, <1>2, <2>2, <2>3, <2>4
<1>4. ASSUME NEW x \in S, NEW y \in S, <<x, y>> \in R
      PROVE  RankIn(S, R, x) # RankIn(S, R, y)
  <2>1. below(x) \in SUBSET below(y) /\ x \in below(y) /\ x \notin below(x)
    BY <1>4 DEF IsOrder
  <2>2. below(x) # below(y)
    BY <2>1
  <2>3. Cardinality(below(x)) # Cardinality(below(y))
    BY <1>2, <2>1, <2>2, FS_Subset
  <2> QED
    BY <1>2, <2>3
<1>5. \A x, y \in S : RankIn(S, R, x) = RankIn(S, R, y) => x = y
  BY <1>4 DEF IsOrder
<1> DEFINE place == [x \in S |-> RankIn(S, R, x) + 1]
<1>6. place \in Injection(S, 1..n)
  <2>1. \A x \in S : RankIn(S, R, x) \in Nat /\ RankIn(S, R, x) + 1 \in 1..n
    BY <1>1, <1>3
  <2>2. place \in [S -> 1..n]
    BY <2>1
  <2>3. \A x, y \in S : place[x] = place[y] => x = y
    BY <1>5, <2>1
  <2> HIDE DEF place
  <2> QED
    BY ONLY <2>2, <2>3 DEF Injection, IsInjective
<1>7. place \in Surjection(S, 1..n)
  <2>1. IsFiniteSet(1..n) /\ Cardinality(1..n) = n
    BY <1>1, FS_Interval
  <2> QED
    BY <1>6, <2>1, FS_Injection
<1>8. ASSUME NEW i \in 1..n
      PROVE  \E x \in S : RankIn(S, R, x) = i - 1
  <2>1. PICK x \in S : place[x] = i
    BY <1>7 DEF Surjection
  <2>2. RankIn(S, R, x) \in Nat /\ i = RankIn(S, R, x) + 1
    BY <1>1, <1>3, <2>1
  <2> QED
    BY <2>2
<1> QED
  BY <1>3, <1>5, <1>8

\* Names in their order.
LEMMA AscendingIs ==
  ASSUME NEW S, S \subseteq Nat, IsFiniteSet(S)
  PROVE  /\ Ascending(S) \in Seq(S) /\ Len(Ascending(S)) = Cardinality(S)
         /\ DOMAIN Ascending(S) = 1..Cardinality(S)
         /\ \A v \in S : \E i \in 1..Cardinality(S) : Ascending(S)[i] = v
         /\ \A i, j \in 1..Cardinality(S) : Ascending(S)[i] = Ascending(S)[j] => i = j
<1> DEFINE R == {p \in S \X S : p[1] < p[2]}
           n == Cardinality(S)
<1>1. n \in Nat
  BY FS_CardinalityType
<1>2. IsOrder(S, R)
  BY DEF IsOrder
<1>3. \A v \in S : RankIn(S, R, v) = Cardinality({w \in S : w < v})
  <2> SUFFICES ASSUME NEW v \in S
               PROVE  {y \in S : <<y, v>> \in R} = {w \in S : w < v}
    BY DEF RankIn
  <2> QED
    OBVIOUS
<1> HIDE DEF R
<1>4. Ascending(S) = [i \in 1..n |-> CHOOSE v \in S : Cardinality({w \in S : w < v}) = i - 1]
  BY DEF Ascending
<1>5. ASSUME NEW i \in 1..n
      PROVE  Ascending(S)[i] \in S /\ RankIn(S, R, Ascending(S)[i]) = i - 1
  <2>1. \E v \in S : Cardinality({w \in S : w < v}) = i - 1
    <3>1. \A k \in 1..n : \E v \in S : RankIn(S, R, v) = k - 1
      BY ONLY <1>2, IsFiniteSet(S), PlacesAreTakenOnce
    <3> QED
      BY <1>3, <3>1
  <2>2. Ascending(S)[i] = CHOOSE v \in S : Cardinality({w \in S : w < v}) = i - 1
    BY <1>4
  <2>3. Ascending(S)[i] \in S /\ Cardinality({w \in S : w < Ascending(S)[i]}) = i - 1
    BY <2>1, <2>2
  <2> QED
    BY <1>3, <2>3
<1>6. Ascending(S) \in Seq(S) /\ Len(Ascending(S)) = n /\ DOMAIN Ascending(S) = 1..n
  <2>1. DOMAIN Ascending(S) = 1..n /\ Ascending(S) \in [1..n -> S]
    BY <1>4, <1>5
  <2> QED
    BY <1>1, <2>1
<1>7. ASSUME NEW v \in S
      PROVE  \E i \in 1..n : Ascending(S)[i] = v
  <2>1. RankIn(S, R, v) \in 0..n - 1
    BY <1>2, PlacesAreTakenOnce
  <2> PICK i : i = RankIn(S, R, v) + 1
    OBVIOUS
  <2>2. i \in 1..n /\ i - 1 = RankIn(S, R, v)
    BY <1>1, <2>1
  <2>3. Ascending(S)[i] = v
    BY <1>2, <1>5, <2>2, PlacesAreTakenOnce
  <2> QED
    BY <2>2, <2>3
<1>8. \A i, j \in 1..n : Ascending(S)[i] = Ascending(S)[j] => i = j
  <2> SUFFICES ASSUME NEW i \in 1..n, NEW j \in 1..n, Ascending(S)[i] = Ascending(S)[j]
               PROVE  i = j
    OBVIOUS
  <2>1. i - 1 = j - 1
    BY <1>5
  <2> QED
    BY <1>1, <2>1
<1> QED
  BY <1>6, <1>7, <1>8

\* A sequence that repeats nothing has its elements at as many places.
LEMMA CountsItsPlaces ==
  ASSUME NEW T, NEW s \in Seq(T), \A i, j \in 1..Len(s) : i # j => s[i] # s[j],
         NEW B, B \subseteq ToSet(s)
  PROVE  /\ IsFiniteSet(B)
         /\ Cardinality({j \in 1..Len(s) : s[j] \in B}) = Cardinality(B)
<1> DEFINE J == {j \in 1..Len(s) : s[j] \in B}
           f == [j \in J |-> s[j]]
<1>1. IsFiniteSet(J)
  <2>1. IsFiniteSet(1..Len(s)) /\ J \in SUBSET (1..Len(s))
    BY FS_Interval
  <2> QED
    BY <2>1, FS_Subset
<1>2. f \in [J -> B]
  OBVIOUS
<1>3. \A i, j \in J : f[i] = f[j] => i = j
  OBVIOUS
<1>4. \A b \in B : \E j \in J : f[j] = b
  <2> SUFFICES ASSUME NEW b \in B PROVE \E j \in J : f[j] = b
    OBVIOUS
  <2>1. PICK j \in 1..Len(s) : s[j] = b
    BY DEF ToSet
  <2> QED
    BY <2>1
<1> HIDE DEF f
<1>5. f \in Bijection(J, B)
  BY ONLY <1>2, <1>3, <1>4 DEF Bijection, Injection, IsInjective, Surjection
<1>6. ExistsBijection(J, B)
  BY <1>5 DEF ExistsBijection
<1> QED
  BY <1>1, <1>6, FS_Bijection

Entry == [name : Nodes, distance : Nat]

\* all, without repetition.
ListedOnce ==
  /\ all \in Seq(Entry)
  /\ \A i, j \in 1..Len(all) : i # j => all[i] # all[j]

PlaceOf(n) == Cardinality({m \in ToSet(all) : Nearest(m, n)})

\* The sort puts every node at the place that the nearer ones leave it.
LEMMA SortedIs ==
  ASSUME ListedOnce
  PROVE  /\ IsFiniteSet(ToSet(all)) /\ Cardinality(ToSet(all)) = Len(all)
         /\ Sorted \in Seq(ToSet(all)) /\ Len(Sorted) = Len(all)
         /\ \A i \in 1..Len(all) : Sorted[i] \in ToSet(all) /\ PlaceOf(Sorted[i]) = i - 1
         /\ \A n \in ToSet(all) : PlaceOf(n) \in 0..Len(all) - 1
         /\ \A m, n \in ToSet(all) : PlaceOf(m) = PlaceOf(n) => m = n
<1> PICK A, l : A = ToSet(all) /\ l = Len(all)
  OBVIOUS
<1> DEFINE R == {p \in A \X A : Nearer(p[1], p[2])}
           before(n) == {m \in A : Nearer(m, n)}
<1>1. /\ l \in Nat /\ DOMAIN all = 1..l /\ A \subseteq Entry
      /\ \A j \in 1..l : all[j] \in A
  BY DEF ListedOnce, ToSet
<1>2. IsFiniteSet(A) /\ Cardinality(A) = l
  <2>1. {j \in 1..l : all[j] \in A} = 1..l
    BY <1>1
  <2>2. IsFiniteSet(A) /\ Cardinality({j \in 1..l : all[j] \in A}) = Cardinality(A)
    <3>1. \A B : B \subseteq ToSet(all) =>
            /\ IsFiniteSet(B)
            /\ Cardinality({j \in 1..Len(all) : all[j] \in B}) = Cardinality(B)
      BY CountsItsPlaces DEF ListedOnce
    <3>2. A \subseteq ToSet(all) /\ l = Len(all)
      OBVIOUS
    <3> QED
      BY ONLY <3>1, <3>2
  <2>3. Cardinality(1..l) = l
    <3>1. l \in Nat
      BY <1>1
    <3> QED
      BY ONLY <3>1, FS_Interval
  <2> QED
    BY <2>1, <2>2, <2>3
<1>3. \A m, n \in A : Nearer(m, n) <=> Nearest(m, n)
  BY DEF Nearer, Nearest
<1>4. /\ \A n \in A : ~Nearer(n, n)
      /\ \A k, m, n \in A : Nearer(k, m) /\ Nearer(m, n) => Nearer(k, n)
      /\ \A m, n \in A : m # n => Nearer(m, n) \/ Nearer(n, m)
  <2>1. \A n \in A : n.name \in Nat /\ n.distance \in Nat
    BY <1>1, TarjanAssumption DEF Entry
  <2>2. \A m, n \in A : m # n => m.name # n.name \/ m.distance # n.distance
    BY <1>1 DEF Entry
  <2> QED
    BY ONLY <2>1, <2>2 DEF Nearer
<1>5. IsOrder(A, R)
  BY <1>4 DEF IsOrder
<1>6. \A n \in A : RankIn(A, R, n) = PlaceOf(n) /\ PlaceOf(n) = Cardinality(before(n))
  <2> SUFFICES ASSUME NEW n \in A
               PROVE  /\ {m \in A : <<m, n>> \in R} = before(n)
                      /\ {m \in A : Nearest(m, n)} = before(n)
    BY DEF RankIn, PlaceOf
  <2> QED
    BY <1>3
<1> HIDE DEF R, before
<1>7. /\ \A n \in A : PlaceOf(n) \in 0..l - 1
      /\ \A m, n \in A : PlaceOf(m) = PlaceOf(n) => m = n
      /\ \A i \in 1..l : \E n \in A : PlaceOf(n) = i - 1
  <2>1. /\ \A n \in A : RankIn(A, R, n) \in 0..l - 1
        /\ \A m, n \in A : RankIn(A, R, m) = RankIn(A, R, n) => m = n
        /\ \A i \in 1..l : \E n \in A : RankIn(A, R, n) = i - 1
    BY ONLY <1>2, <1>5, PlacesAreTakenOnce
  <2> QED
    BY ONLY <1>6, <2>1
<1>8. ASSUME NEW n \in A
      PROVE  /\ Cardinality({j \in 1..l : Nearer(all[j], n)}) = PlaceOf(n)
             /\ Cardinality({j \in 1..l : ~Nearer(n, all[j])}) = PlaceOf(n) + 1
  <2>1. {j \in 1..l : Nearer(all[j], n)} = {j \in 1..l : all[j] \in before(n)}
    BY <1>1 DEF before
  <2>2. {j \in 1..l : ~Nearer(n, all[j])} = {j \in 1..l : all[j] \in before(n) \cup {n}}
    BY <1>1, <1>4 DEF before
  <2>3. before(n) \subseteq A /\ before(n) \cup {n} \subseteq A /\ n \notin before(n)
    BY <1>4 DEF before
  <2>4. /\ IsFiniteSet(before(n))
        /\ Cardinality({j \in 1..l : all[j] \in before(n)}) = Cardinality(before(n))
    BY <2>3, CountsItsPlaces DEF ListedOnce
  <2>5. Cardinality({j \in 1..l : all[j] \in before(n) \cup {n}}) = Cardinality(before(n) \cup {n})
    BY <2>3, CountsItsPlaces DEF ListedOnce
  <2>6. Cardinality(before(n) \cup {n}) = Cardinality(before(n)) + 1
    BY <2>3, <2>4, FS_AddElement
  <2> QED
    BY <1>6, <2>1, <2>2, <2>4, <2>5, <2>6
<1>9. ASSUME NEW i \in 1..l
      PROVE  Sorted[i] \in A /\ PlaceOf(Sorted[i]) = i - 1
  <2> DEFINE Fits(n) == /\ Cardinality({j \in 1..l : Nearer(all[j], n)}) < i
                        /\ Cardinality({j \in 1..l : ~Nearer(n, all[j])}) >= i
  <2>1. Sorted[i] = CHOOSE n \in A : Fits(n)
    BY <1>1 DEF Sorted
  <2>2. \A n \in A : Fits(n) <=> PlaceOf(n) = i - 1
    <3> SUFFICES ASSUME NEW n \in A PROVE Fits(n) <=> PlaceOf(n) = i - 1
      OBVIOUS
    <3>1. PlaceOf(n) \in Nat /\ i \in Nat
      BY <1>1, <1>7
    <3> QED
      BY <1>8, <3>1
  <2>3. \E n \in A : PlaceOf(n) = i - 1
    BY <1>7
  <2> HIDE DEF Fits
  <2> QED
    BY <2>1, <2>2, <2>3
<1>10. Sorted \in Seq(A) /\ Len(Sorted) = l
  <2>1. Sorted \in [1..l -> A]
    BY <1>1, <1>9 DEF Sorted
  <2> QED
    BY <1>1, <2>1
<1> QED
  BY <1>2, <1>7, <1>9, <1>10

\* What ImpactIsExact asks of a page, when the dependants are those in S.
IsPageOf(page, S) ==
  /\ ToSet(page.nodes) =
       {n \in S : Cardinality({m \in S : Nearest(m, n)}) \in page.offset..(page.offset + page.limit) - 1}
  /\ Len(page.nodes) = Cardinality(ToSet(page.nodes))
  /\ page.truncated <=> page.offset + page.limit < Cardinality(S)

\* A page has the nodes whose places it asks for, and knows whether any follow.
LEMMA PageIsOfItsPlaces ==
  ASSUME ListedOnce, NEW limit \in Nat, NEW offset \in Nat,
         NEW page, page = Page(limit, offset)
  PROVE  IsPageOf(page, ToSet(all))
<1> PICK A, l, size, from, to :
      /\ A = ToSet(all) /\ l = Len(all)
      /\ size = (IF limit = 0 THEN 512 ELSE limit)
      /\ from = Smaller(offset, l) /\ to = Smaller(from + size, l)
  OBVIOUS
<1>1. l \in Nat /\ size \in Nat
  BY DEF ListedOnce
<1>2. /\ from \in Nat /\ to \in Nat /\ from <= to /\ to <= l
      /\ \A k \in Nat : k < l => (from <= k /\ k < to <=> offset <= k /\ k < offset + size)
      /\ from + size < l <=> offset + size < l
  <2>1. /\ from = (IF offset < l THEN offset ELSE l)
        /\ to = (IF from + size < l THEN from + size ELSE l)
    BY DEF Smaller
  <2>2. CASE offset < l
    <3>1. from = offset
      BY <2>1, <2>2
    <3> QED
      BY ONLY <1>1, <2>1, <2>2, <3>1, offset \in Nat
  <2>3. CASE ~(offset < l)
    <3>1. from = l /\ to = l
      BY <1>1, <2>1, <2>3
    <3> QED
      BY ONLY <1>1, <2>3, <3>1, offset \in Nat
  <2> QED
    BY <2>2, <2>3
<1>3. /\ page.nodes = SubSeq(Sorted, from + 1, to) /\ page.limit = size /\ page.offset = offset
      /\ page.truncated <=> from + size < l
  <2>1. page = [nodes |-> SubSeq(Sorted, from + 1, to), limit |-> size, offset |-> offset,
                truncated |-> from + size < l, given |-> TRUE]
    BY DEF Page
  <2> QED
    BY ONLY <2>1
<1>4. /\ Cardinality(A) = l
      /\ Sorted \in Seq(A) /\ Len(Sorted) = l
      /\ \A i \in 1..l : Sorted[i] \in A /\ PlaceOf(Sorted[i]) = i - 1
      /\ \A n \in A : PlaceOf(n) \in 0..l - 1
      /\ \A m, n \in A : PlaceOf(m) = PlaceOf(n) => m = n
  BY SortedIs
<1> PICK nodes : nodes = page.nodes
  OBVIOUS
<1>5. /\ nodes \in Seq(A) /\ Len(nodes) = to - from
      /\ \A i \in 1..to - from : nodes[i] = Sorted[from + i] /\ nodes[i] \in A
  <2>1. \A i \in from + 1..to : i \in 1..l
    BY ONLY <1>1, <1>2
  <2>2. \A i \in from + 1..to : Sorted[i] \in A
    BY <1>4, <2>1
  <2>3. from + 1 \in Int /\ to \in Int /\ (to - (from + 1)) + 1 = to - from
    BY ONLY <1>2
  <2>4. nodes = SubSeq(Sorted, from + 1, to)
    BY <1>3
  <2>5. /\ nodes \in Seq(A)
        /\ Len(nodes) = IF from + 1 <= to THEN (to - (from + 1)) + 1 ELSE 0
        /\ \A i \in 1..(to - (from + 1)) + 1 : nodes[i] = Sorted[(from + 1) + i - 1]
    BY ONLY <2>2, <2>3, <2>4, SubSeqProperties
  <2>6. Len(nodes) = to - from
    BY ONLY <1>2, <2>3, <2>5
  <2>7. ASSUME NEW i \in 1..to - from
        PROVE  nodes[i] = Sorted[from + i] /\ nodes[i] \in A
    <3>1. (from + 1) + i - 1 = from + i /\ from + i \in from + 1..to
      BY ONLY <1>2, i \in 1..to - from
    <3> QED
      BY ONLY <2>2, <2>3, <2>5, <3>1, i \in 1..to - from
  <2> QED
    BY ONLY <2>5, <2>6, <2>7
<1>6. \A i \in 1..to - from : PlaceOf(nodes[i]) = (from + i) - 1
  <2> SUFFICES ASSUME NEW i \in 1..to - from
               PROVE  PlaceOf(nodes[i]) = (from + i) - 1
    OBVIOUS
  <2>1. from + i \in 1..l
    BY ONLY <1>1, <1>2, i \in 1..to - from
  <2> QED
    BY <1>4, <1>5, <2>1
<1>7. DOMAIN nodes = 1..to - from
  BY <1>2, <1>5
<1>8. ToSet(nodes) = {n \in A : PlaceOf(n) \in offset..offset + size - 1}
  <2>1. ASSUME NEW n \in ToSet(nodes)
        PROVE  n \in A /\ PlaceOf(n) \in offset..offset + size - 1
    <3>1. PICK i \in 1..to - from : nodes[i] = n
      BY <1>7 DEF ToSet
    <3>2. n \in A /\ PlaceOf(n) = (from + i) - 1
      BY <1>5, <1>6, <3>1
    <3>3. PlaceOf(n) \in Nat /\ from <= PlaceOf(n) /\ PlaceOf(n) < to /\ PlaceOf(n) < l
      BY ONLY <1>1, <1>2, <3>2, i \in 1..to - from
    <3>4. offset <= PlaceOf(n) /\ PlaceOf(n) < offset + size
      BY ONLY <1>2, <3>3
    <3> QED
      BY <1>1, <3>2, <3>3, <3>4
  <2>2. ASSUME NEW n \in A, PlaceOf(n) \in offset..offset + size - 1
        PROVE  n \in ToSet(nodes)
    <3>1. PlaceOf(n) \in Nat /\ PlaceOf(n) < l
      BY <1>1, <1>4
    <3>2. offset <= PlaceOf(n) /\ PlaceOf(n) < offset + size
      BY <1>1, <2>2, <3>1
    <3>3. from <= PlaceOf(n) /\ PlaceOf(n) < to
      BY ONLY <1>2, <3>1, <3>2
    <3> PICK i : i = (PlaceOf(n) + 1) - from
      OBVIOUS
    <3>4. i \in 1..to - from /\ PlaceOf(n) = (from + i) - 1
      BY <1>2, <3>1, <3>3
    <3>5. nodes[i] \in A /\ PlaceOf(nodes[i]) = PlaceOf(n)
      BY ONLY <1>5, <1>6, <3>4
    <3>6. nodes[i] = n
      BY ONLY <1>4, <2>2, <3>5
    <3> QED
      BY <1>7, <3>4, <3>6 DEF ToSet
  <2> QED
    BY <2>1, <2>2
<1>9. Cardinality(ToSet(nodes)) = to - from
  <2>1. \A i, j \in 1..to - from : i # j => nodes[i] # nodes[j]
    <3> SUFFICES ASSUME NEW i \in 1..to - from, NEW j \in 1..to - from, nodes[i] = nodes[j]
                 PROVE  i = j
      OBVIOUS
    <3>1. (from + i) - 1 = (from + j) - 1
      BY <1>6
    <3> QED
      BY ONLY <1>2, <3>1, i \in 1..to - from, j \in 1..to - from
  <2>2. \A B : B \subseteq ToSet(nodes) =>
          Cardinality({j \in 1..Len(nodes) : nodes[j] \in B}) = Cardinality(B)
    <3>1. nodes \in Seq(A) /\ \A i, j \in 1..Len(nodes) : i # j => nodes[i] # nodes[j]
      BY ONLY <1>5, <2>1
    <3> QED
      BY ONLY <3>1, CountsItsPlaces
  <2>3. {j \in 1..Len(nodes) : nodes[j] \in ToSet(nodes)} = 1..to - from
    BY <1>5, <1>7 DEF ToSet
  <2>4. to - from \in Nat /\ Cardinality(1..to - from) = to - from
    <3>1. to - from \in Nat
      BY ONLY <1>2
    <3> QED
      BY ONLY <3>1, FS_Interval
  <2> QED
    BY ONLY <2>2, <2>3, <2>4
<1>10. page.truncated <=> page.offset + page.limit < Cardinality(A)
  BY <1>2, <1>3, <1>4
<1>11. ToSet(page.nodes) = {n \in A : PlaceOf(n) \in page.offset..(page.offset + page.limit) - 1}
  BY <1>3, <1>8
<1> QED
  BY <1>5, <1>9, <1>10, <1>11 DEF IsPageOf, PlaceOf

-----------------------------------------------------------------------------
(* The balls around the target.                                            *)

Bound == Cardinality(Nodes)

\* What Ball is, up to n edges.
IsBalls(n, ball) ==
  ball = [k \in 0..n |-> IF k = 0 THEN {target}
                         ELSE ball[k - 1] \cup UNION {adj[v] : v \in ball[k - 1]}]

WithNeighbours(S) == S \cup UNION {adj[v] : v \in S}

LEMMA BallsRun ==
  ASSUME NEW N \in Nat
  PROVE  \E ball : IsBalls(N, ball)
<1> DEFINE T == {n \in Nat : ~\E ball : IsBalls(n, ball)}
<1> SUFFICES ASSUME T # {} PROVE FALSE
  OBVIOUS
<1>1. PICK n \in T : \A k \in T : n <= k
  BY LeastNatural
<1>2. n \in Nat /\ ~\E ball : IsBalls(n, ball)
  OBVIOUS
<1>3. n # 0
  <2> SUFFICES ASSUME n = 0 PROVE FALSE
    OBVIOUS
  <2> PICK ball : ball = [k \in 0..0 |-> {target}]
    OBVIOUS
  <2>1. \A k \in 0..0 : k = 0
    OBVIOUS
  <2>2. IsBalls(0, ball)
    BY <2>1 DEF IsBalls
  <2> QED
    BY <1>2, <2>2
<1>4. n - 1 \in Nat /\ n - 1 \notin T
  BY <1>1, <1>2, <1>3
<1>5. PICK before : IsBalls(n - 1, before)
  BY <1>4
<1> PICK ball : ball = [k \in 0..n |-> IF k = n THEN WithNeighbours(before[n - 1]) ELSE before[k]]
  OBVIOUS
<1>6. ASSUME NEW k \in 0..n
      PROVE  ball[k] = IF k = 0 THEN {target} ELSE WithNeighbours(ball[k - 1])
  <2>1. CASE k = n
    <3>1. n - 1 \in 0..n /\ n - 1 # n
      BY <1>2, <1>4
    <3>2. ball[n - 1] = before[n - 1] /\ ball[n] = WithNeighbours(before[n - 1])
      BY <1>2, <3>1
    <3> QED
      BY <1>3, <2>1, <3>2
  <2>2. CASE k # n
    <3>1. k \in 0..n - 1 /\ k \in 0..n
      BY <1>2, <2>2
    <3>2. ball[k] = before[k]
      BY <2>2, <3>1
    <3>3. before[k] = IF k = 0 THEN {target} ELSE WithNeighbours(before[k - 1])
      BY <1>5, <3>1 DEF IsBalls, WithNeighbours
    <3>4. CASE k = 0
      BY <3>2, <3>3, <3>4
    <3>5. CASE k # 0
      <4>1. k - 1 \in 0..n /\ k - 1 # n
        BY <1>2, <3>1, <3>5
      <4>2. ball[k - 1] = before[k - 1]
        BY <4>1
      <4> QED
        BY <3>2, <3>3, <3>5, <4>2
    <3> QED
      BY <3>4, <3>5
  <2> QED
    BY <2>1, <2>2
<1>7. ball = [k \in 0..n |-> ball[k]]
  OBVIOUS
<1>8. IsBalls(n, ball)
  BY <1>6, <1>7 DEF IsBalls, WithNeighbours
<1> QED
  BY <1>2, <1>8

LEMMA BoundIsNatural == Bound \in Nat
BY ImpactAssumption, FS_CardinalityType DEF Bound

LEMMA BallIs ==
  /\ DOMAIN Ball = 0..Bound
  /\ Ball[0] = {target}
  /\ \A k \in 1..Bound : Ball[k] = WithNeighbours(Ball[k - 1])
<1>1. Ball = CHOOSE ball : IsBalls(Bound, ball)
  BY DEF Ball, IsBalls, Bound
<1>2. IsBalls(Bound, Ball)
  BY <1>1, BallsRun, BoundIsNatural
<1> PICK ball : ball = Ball
  OBVIOUS
<1>3. ball = [k \in 0..Bound |-> IF k = 0 THEN {target} ELSE WithNeighbours(ball[k - 1])]
  BY <1>2 DEF IsBalls, WithNeighbours
<1>4. /\ DOMAIN ball = 0..Bound
      /\ \A k \in 0..Bound : ball[k] = IF k = 0 THEN {target} ELSE WithNeighbours(ball[k - 1])
  BY <1>3
<1>5. 0 \in 0..Bound /\ \A k \in 1..Bound : k \in 0..Bound /\ k # 0
  BY BoundIsNatural
<1> QED
  BY <1>4, <1>5

\* What a ball is closed under, the later ones are.
LEMMA BallsGrow ==
  ASSUME NEW j \in 0..Bound, NEW k \in 0..Bound, j <= k
  PROVE  /\ Ball[j] \subseteq Ball[k]
         /\ (\A v \in Ball[j] : adj[v] \subseteq Ball[j]) => Ball[k] = Ball[j]
<1> DEFINE Kept(m) == /\ Ball[j] \subseteq Ball[m]
                      /\ (\A v \in Ball[j] : adj[v] \subseteq Ball[j]) => Ball[m] = Ball[j]
           T == {m \in j..Bound : ~Kept(m)}
<1> SUFFICES ASSUME T # {} PROVE FALSE
  BY BoundIsNatural
<1>1. T \subseteq Nat
  BY BoundIsNatural
<1>2. PICK m \in T : \A i \in T : m <= i
  BY <1>1, LeastNatural
<1>3. m \in j..Bound /\ ~Kept(m) /\ m # j
  OBVIOUS
<1>4. m - 1 \in j..Bound /\ m - 1 < m /\ m \in 1..Bound
  BY <1>3, BoundIsNatural
<1>5. Kept(m - 1)
  <2>1. m - 1 \notin T
    BY <1>1, <1>2, <1>4
  <2> QED
    BY <1>4, <2>1
<1>6. Ball[m] = WithNeighbours(Ball[m - 1])
  BY <1>4, BallIs
<1>7. Kept(m)
  BY <1>5, <1>6 DEF WithNeighbours
<1> QED
  BY <1>3, <1>7

\* The balls are of the target and the graph alone.
LEMMA SameBalls ==
  ASSUME target' = target, adj' = adj
  PROVE  Ball' = Ball
BY DEF Ball

-----------------------------------------------------------------------------
(* The search.                                                             *)

Seen == {v \in Nodes : seen[v] # NotSeen}
At(k) == {v \in Nodes : seen[v] = k}
SeenWithin(k) == {v \in Seen : seen[v] <= k}

SearchTyped ==
  /\ adj \in [Nodes -> SUBSET Nodes] /\ target \in Nodes /\ depth \in Nat
  /\ seen \in [Nodes -> Nat \cup {NotSeen}]
  /\ distance \in Nat \ {0}
  /\ level \in Seq(Nodes) /\ next \in Seq(Nodes)

\* level has what is left of the nodes of one distance, next all of the next
\* one, and no distance is without a node.
Levels ==
  /\ At(0) = {target}
  /\ ToSet(level) \subseteq At(distance - 1) /\ ToSet(next) = At(distance)
  /\ \A v \in Seen : seen[v] <= distance
  /\ \A k \in 0..distance - 1 : At(k) # {}

\* The balls that are full are those of the nodes seen.
Shortest ==
  /\ \A k \in 0..Bound : k < distance => Ball[k] = SeenWithin(k)
  /\ \A v \in At(distance) : \E u \in At(distance - 1) : v \in adj[u]

NoneSkipped ==
  \A u \in Seen : seen[u] < distance => u \in ToSet(level) \/ adj[u] \subseteq Seen

WithinDepth ==
  depth > 0 => distance <= depth \/ (distance = depth + 1 /\ next = <<>>)

ListsTheSeen ==
  /\ ListedOnce
  /\ ToSet(all) = {[name |-> v, distance |-> seen[v]] : v \in Seen \ {target}}

BInv == SearchTyped /\ Levels /\ Shortest /\ NoneSkipped /\ WithinDepth /\ ListsTheSeen

LEMMA SeenAreCounted ==
  ASSUME SearchTyped
  PROVE  /\ \A v \in Seen : v \in Nodes /\ seen[v] \in Nat
         /\ \A v \in Nodes, k \in Nat : v \in At(k) <=> v \in Seen /\ seen[v] = k
         /\ \A v \in Nodes : v \notin Seen <=> seen[v] = NotSeen
         /\ \A v \in Seen : adj[v] \subseteq Nodes
BY ImpactAssumption DEF SearchTyped, Seen, At

\* Every distance has a node of its own.
LEMMA DistancesAreBounded ==
  ASSUME SearchTyped, Levels
  PROVE  distance <= Bound
<1> PICK D : D = distance
  OBVIOUS
<1>1. D \in Nat /\ Bound \in Nat /\ \A k \in 0..D - 1 : \E v \in Nodes : seen[v] = k
  BY BoundIsNatural DEF SearchTyped, Levels, At
<1> DEFINE f == [k \in 0..D - 1 |-> CHOOSE v \in Nodes : seen[v] = k]
<1>2. ASSUME NEW k \in 0..D - 1
      PROVE  f[k] \in Nodes /\ seen[f[k]] = k
  <2>1. f[k] = CHOOSE v \in Nodes : seen[v] = k
    OBVIOUS
  <2> QED
    BY <1>1, <2>1
<1>3. f \in [0..D - 1 -> Nodes]
  BY <1>2
<1> HIDE DEF f
<1>4. f \in Injection(0..D - 1, Nodes)
  BY ONLY <1>2, <1>3 DEF Injection, IsInjective
<1>5. Cardinality(0..D - 1) = D
  <2>1. D - 1 \in Int /\ 0 \in Int
    BY <1>1
  <2> QED
    BY <1>1, <2>1, FS_Interval
<1>6. Cardinality(0..D - 1) <= Bound
  BY <1>4, ImpactAssumption, FS_Injection DEF Bound
<1> QED
  BY <1>5, <1>6

LEMMA SearchStarts ==
  ASSUME GraphInit(Graphs)
  PROVE  BInv
<1>1. /\ target \in Nodes /\ depth \in Nat /\ adj \in [Nodes -> SUBSET Nodes]
      /\ distance = 1 /\ level = <<target>> /\ next = <<>> /\ all = <<>>
      /\ seen = [v \in Nodes |-> IF v = target THEN 0 ELSE NotSeen]
  BY ImpactAssumption, TarjanAssumption DEF GraphInit, ImpactInit, TopologyInit, Init
<1>2. SearchTyped
  BY <1>1 DEF SearchTyped
<1>3. Seen = {target} /\ seen[target] = 0 /\ At(0) = {target} /\ At(1) = {}
  BY <1>1, ImpactAssumption DEF Seen, At
<1>4. ToSet(level) = {target} /\ ToSet(next) = {} /\ ToSet(all) = {}
  BY <1>1 DEF ToSet
<1>5. Levels
  <2>1. 0..distance - 1 = {0}
    BY <1>1
  <2> QED
    BY <1>1, <1>3, <1>4, <2>1 DEF Levels
<1>6. Shortest
  <2>1. \A k \in 0..Bound : k < distance => k = 0
    BY <1>1, BoundIsNatural
  <2>2. SeenWithin(0) = {target}
    BY <1>3 DEF SeenWithin
  <2> QED
    BY <1>1, <1>3, <2>1, <2>2, BallIs DEF Shortest
<1>7. NoneSkipped
  BY <1>3, <1>4 DEF NoneSkipped
<1>8. WithinDepth
  BY <1>1 DEF WithinDepth
<1>9. ListsTheSeen
  BY <1>1, <1>3, <1>4 DEF ListsTheSeen, ListedOnce
<1> QED
  BY <1>2, <1>5, <1>6, <1>7, <1>8, <1>9 DEF BInv

LEMMA NextLevelKeeps ==
  ASSUME BInv, NextLevel, adj' = adj
  PROVE  BInv'
<1> PICK D : D = distance
  OBVIOUS
<1>1. /\ level = <<>> /\ next # <<>> /\ level' = next /\ next' = <<>> /\ D \in Nat \ {0}
      /\ distance' = D + 1 /\ target' = target /\ depth' = depth /\ seen' = seen /\ all' = all
      /\ ~DepthReached
  BY DEF NextLevel, Searching, BInv, SearchTyped
<1>2. /\ Seen' = Seen /\ \A k : At(k)' = At(k) /\ SeenWithin(k)' = SeenWithin(k)
      /\ Ball' = Ball
  BY <1>1, SameBalls DEF Seen, At, SeenWithin
<1>3. SearchTyped'
  BY <1>1 DEF BInv, SearchTyped
<1>4. ToSet(level) = {} /\ ToSet(next) # {} /\ ToSet(next)' = {} /\ ToSet(level)' = ToSet(next)
  <2>1. 1 \in DOMAIN next
    BY <1>1 DEF BInv, SearchTyped
  <2> QED
    BY <1>1, <2>1 DEF ToSet
<1>5. /\ \A v \in Seen : v \in Nodes /\ seen[v] \in Nat /\ adj[v] \subseteq Nodes
      /\ \A v \in Nodes, k \in Nat : v \in At(k) <=> v \in Seen /\ seen[v] = k
  BY SeenAreCounted DEF BInv
<1>6. /\ \A v \in Seen : seen[v] <= D
      /\ ToSet(next) = At(D)
  BY DEF BInv, Levels
<1>7. At(D + 1) = {}
  <2> SUFFICES ASSUME NEW v \in At(D + 1) PROVE FALSE
    OBVIOUS
  <2>1. v \in Nodes /\ D + 1 \in Nat
    BY <1>1 DEF At
  <2>2. v \in Seen /\ seen[v] = D + 1
    BY <1>5, <2>1
  <2> QED
    BY <1>1, <1>6, <2>2
<1>8. Levels'
  <2>1. At(0) = {target} /\ \A k \in 0..D - 1 : At(k) # {}
    BY DEF BInv, Levels
  <2>2. (D + 1) - 1 = D /\ \A k \in 0..D : k \in 0..D - 1 \/ k = D
    BY <1>1
  <2>3. \A v \in Seen : seen[v] <= D + 1
    BY <1>1, <1>5, <1>6
  <2> QED
    BY <1>1, <1>2, <1>4, <1>6, <1>7, <2>1, <2>2, <2>3 DEF Levels
<1>9. Shortest'
  <2>1. ASSUME NEW k \in 0..Bound, k < D + 1
        PROVE  Ball[k] = SeenWithin(k)
    <3>1. CASE k < D
      BY <3>1 DEF BInv, Shortest
    <3>2. CASE k = D
      <4>1. D \in 1..Bound /\ D - 1 \in 0..Bound /\ D - 1 < D
        BY <1>1, <2>1, <3>2, BoundIsNatural
      <4>2. Ball[D] = WithNeighbours(Ball[D - 1]) /\ Ball[D - 1] = SeenWithin(D - 1)
        BY <4>1, BallIs DEF BInv, Shortest
      <4>3. ASSUME NEW v \in Ball[D]
            PROVE  v \in SeenWithin(D)
        <5>1. CASE v \in SeenWithin(D - 1)
          BY <1>1, <1>5, <5>1 DEF SeenWithin
        <5>2. CASE \E u \in SeenWithin(D - 1) : v \in adj[u]
          <6>1. PICK u \in SeenWithin(D - 1) : v \in adj[u]
            BY <5>2
          <6>2. u \in Seen /\ seen[u] < D
            BY <1>1, <1>5 DEF SeenWithin
          <6>3. adj[u] \subseteq Seen
            BY <1>4, <6>2 DEF BInv, NoneSkipped
          <6> QED
            BY <1>6, <6>1, <6>3 DEF SeenWithin
        <5> QED
          BY <4>2, <4>3, <5>1, <5>2 DEF WithNeighbours
      <4>4. ASSUME NEW v \in SeenWithin(D)
            PROVE  v \in Ball[D]
        <5>1. v \in Seen /\ seen[v] \in Nat /\ seen[v] <= D /\ v \in Nodes
          BY <1>5 DEF SeenWithin
        <5>2. CASE seen[v] <= D - 1
          BY <4>2, <5>1, <5>2 DEF SeenWithin, WithNeighbours
        <5>3. CASE seen[v] = D
          <6>1. v \in At(D)
            BY <1>1, <1>5, <5>1, <5>3
          <6>2. PICK u \in At(D - 1) : v \in adj[u]
            BY <6>1 DEF BInv, Shortest
          <6>3. u \in Nodes /\ D - 1 \in Nat
            BY <1>1 DEF At
          <6>4. u \in SeenWithin(D - 1)
            BY <1>5, <6>2, <6>3 DEF SeenWithin
          <6> QED
            BY <4>2, <6>2, <6>4 DEF WithNeighbours
        <5>4. seen[v] <= D - 1 \/ seen[v] = D
          BY ONLY <1>1, <5>1
        <5> QED
          BY <5>2, <5>3, <5>4
      <4>5. Ball[D] = SeenWithin(D)
        BY ONLY <4>3, <4>4
      <4> QED
        BY ONLY <3>2, <4>5
    <3>3. k < D \/ k = D
      BY <1>1, <2>1, BoundIsNatural
    <3> QED
      BY <3>1, <3>2, <3>3
  <2>2. \A v \in At(D + 1) : \E u \in At((D + 1) - 1) : v \in adj[u]
    BY <1>7
  <2> QED
    BY <1>1, <1>2, <2>1, <2>2 DEF Shortest
<1>10. NoneSkipped'
  <2> SUFFICES ASSUME NEW u \in Seen, seen[u] < D + 1
               PROVE  u \in ToSet(next) \/ adj[u] \subseteq Seen
    BY <1>1, <1>2, <1>4 DEF NoneSkipped
  <2>1. u \in Nodes /\ seen[u] \in Nat
    BY <1>5
  <2>2. CASE seen[u] = D
    BY <1>1, <1>5, <1>6, <2>1, <2>2
  <2>3. CASE seen[u] < D
    BY <1>4, <2>3 DEF BInv, NoneSkipped
  <2> QED
    BY <1>1, <2>1, <2>2, <2>3
<1>11. WithinDepth'
  BY <1>1 DEF BInv, SearchTyped, WithinDepth, DepthReached
<1>12. ListsTheSeen'
  BY <1>1, <1>2 DEF BInv, ListsTheSeen, ListedOnce
<1> QED
  BY <1>3, <1>8, <1>9, <1>10, <1>11, <1>12 DEF BInv

\* What one node of the level adds.
LEMMA ExpandSteps ==
  ASSUME BInv, Expand, adj' = adj, NEW v, v = Head(level), NEW F, F = Found(v)
  PROVE  /\ v \in At(distance - 1) /\ v \in Seen
         /\ \A u \in ToSet(level) : u = v \/ u \in ToSet(level')
         /\ ToSet(level') \subseteq ToSet(level) /\ level' \in Seq(Nodes)
         /\ F \subseteq Nodes /\ F = adj[v] \ Seen
         /\ next' \in Seq(Nodes) /\ ToSet(next') = ToSet(next) \cup F
         /\ \A w \in Nodes : seen'[w] = IF w \in F THEN distance ELSE seen[w]
         /\ ListedOnce'
         /\ ToSet(all') = ToSet(all) \cup {[name |-> w, distance |-> distance] : w \in F}
<1> PICK D : D = distance
  OBVIOUS
<1>1. /\ level # <<>> /\ level' = Tail(level) /\ D \in Nat
      /\ next' = next \o Ascending(F)
      /\ seen' = [w \in Nodes |-> IF w \in F THEN D ELSE seen[w]]
      /\ all' = all \o [i \in DOMAIN Ascending(F) |-> [name |-> Ascending(F)[i], distance |-> D]]
  BY DEF Expand, BInv, SearchTyped
<1>2. /\ level \in Seq(Nodes) /\ next \in Seq(Nodes) /\ all \in Seq(Entry)
      /\ adj \in [Nodes -> SUBSET Nodes]
  BY DEF BInv, SearchTyped, ListsTheSeen, ListedOnce
<1>3. /\ v \in ToSet(level) /\ level' \in Seq(Nodes) /\ ToSet(level') \subseteq ToSet(level)
      /\ \A u \in ToSet(level) : u = v \/ u \in ToSet(level')
  <2>1. /\ v = level[1] /\ Len(level) \in Nat \ {0} /\ DOMAIN level = 1..Len(level)
        /\ level' \in Seq(Nodes) /\ Len(level') = Len(level) - 1 /\ DOMAIN level' = 1..Len(level) - 1
        /\ \A i \in 1..Len(level) - 1 : level'[i] = level[i + 1]
    BY <1>1, <1>2
  <2>2. v \in ToSet(level)
    BY <2>1 DEF ToSet
  <2>3. ASSUME NEW u \in ToSet(level') PROVE u \in ToSet(level)
    <3>1. PICK i \in 1..Len(level) - 1 : level[i + 1] = u
      BY <2>1 DEF ToSet
    <3>2. i + 1 \in 1..Len(level)
      BY <2>1
    <3> QED
      BY <2>1, <3>1, <3>2 DEF ToSet
  <2>4. ASSUME NEW u \in ToSet(level), u # v PROVE u \in ToSet(level')
    <3>1. PICK i \in 1..Len(level) : level[i] = u
      BY <2>1 DEF ToSet
    <3>2. i # 1
      BY <2>1, <2>4, <3>1
    <3>3. i - 1 \in 1..Len(level) - 1 /\ (i - 1) + 1 = i
      BY <2>1, <3>2
    <3>4. level'[i - 1] = u
      BY <2>1, <3>1, <3>3
    <3> QED
      BY <2>1, <3>3, <3>4 DEF ToSet
  <2> QED
    BY <2>1, <2>2, <2>3, <2>4
<1>4. v \in At(D - 1) /\ v \in Nodes /\ v \in Seen
  <2>1. v \in At(D - 1) /\ D - 1 \in Nat
    BY <1>3 DEF BInv, Levels, SearchTyped
  <2> QED
    BY <2>1, SeenAreCounted DEF BInv, At
<1>5. F \subseteq Nodes /\ F = adj[v] \ Seen
  BY <1>2, <1>4 DEF Found, Seen
<1>6. F \subseteq Nat /\ IsFiniteSet(F)
  <2>1. F \in SUBSET Nodes /\ Nodes \subseteq Nat /\ IsFiniteSet(Nodes)
    BY <1>5, TarjanAssumption, ImpactAssumption
  <2> QED
    BY ONLY <2>1, FS_Subset
<1> PICK f, n : f = Ascending(F) /\ n = Cardinality(F)
  OBVIOUS
<1>7. /\ f \in Seq(F) /\ Len(f) = n /\ DOMAIN f = 1..n /\ n \in Nat
      /\ \A w \in F : \E i \in 1..n : f[i] = w
      /\ \A i, j \in 1..n : f[i] = f[j] => i = j
      /\ \A i \in 1..n : f[i] \in F
  <2>1. /\ f \in Seq(F) /\ Len(f) = n /\ DOMAIN f = 1..n
        /\ \A w \in F : \E i \in 1..n : f[i] = w
        /\ \A i, j \in 1..n : f[i] = f[j] => i = j
    <3>1. f = Ascending(F) /\ n = Cardinality(F)
      OBVIOUS
    <3> QED
      BY ONLY <1>6, <3>1, AscendingIs
  <2>2. n \in Nat
    BY <1>6, FS_CardinalityType
  <2> QED
    BY ONLY <2>1, <2>2
<1>8. next' \in Seq(Nodes) /\ ToSet(next') = ToSet(next) \cup F
  <2>1. f \in Seq(Nodes)
    BY <1>5, <1>7
  <2> PICK m : m = Len(next)
    OBVIOUS
  <2>2. /\ next' \in Seq(Nodes) /\ Len(next') = m + n /\ m \in Nat
        /\ \A i \in 1..m + n : next'[i] = IF i <= m THEN next[i] ELSE f[i - m]
    BY <1>1, <1>2, <1>7, <2>1, ConcatProperties
  <2>3. DOMAIN next = 1..m /\ DOMAIN next' = 1..m + n
    BY <1>2, <2>2
  <2>4. ASSUME NEW w \in ToSet(next') PROVE w \in ToSet(next) \cup F
    <3>1. PICK i \in 1..m + n : next'[i] = w
      BY <2>3 DEF ToSet
    <3>2. CASE i <= m
      <4>1. i \in 1..m /\ next[i] = w
        BY <2>2, <3>1, <3>2
      <4> QED
        BY <2>3, <4>1 DEF ToSet
    <3>3. CASE ~(i <= m)
      <4>1. i - m \in 1..n /\ f[i - m] = w
        BY <1>7, <2>2, <3>1, <3>3
      <4> QED
        BY <1>7, <4>1
    <3> QED
      BY <3>2, <3>3
  <2>5. ASSUME NEW w \in ToSet(next) PROVE w \in ToSet(next')
    <3>1. PICK i \in 1..m : next[i] = w
      BY <2>3 DEF ToSet
    <3>2. i \in 1..m + n /\ next'[i] = w
      BY <1>7, <2>2, <3>1
    <3> QED
      BY <2>3, <3>2 DEF ToSet
  <2>6. ASSUME NEW w \in F PROVE w \in ToSet(next')
    <3>1. PICK i \in 1..n : f[i] = w
      BY <1>7
    <3>2. m + i \in 1..m + n /\ ~(m + i <= m) /\ (m + i) - m = i
      BY <1>7, <2>2
    <3>3. next'[m + i] = w
      BY <2>2, <3>1, <3>2
    <3> QED
      BY <2>3, <3>2, <3>3 DEF ToSet
  <2> QED
    BY <2>2, <2>4, <2>5, <2>6
<1> DEFINE New(w) == [name |-> w, distance |-> D]
<1> PICK g : g = [i \in 1..n |-> New(f[i])]
  OBVIOUS
<1>9. /\ g \in Seq(Entry) /\ Len(g) = n
      /\ \A i \in 1..n : g[i] = New(f[i]) /\ f[i] \in F
  <2>1. \A i \in 1..n : g[i] = New(f[i]) /\ f[i] \in F /\ g[i] \in Entry
    BY <1>1, <1>5, <1>7 DEF Entry
  <2>2. g \in [1..n -> Entry]
    BY <2>1
  <2> QED
    BY <1>7, <2>1, <2>2
<1>10. all' = all \o g
  BY <1>1, <1>7
<1> PICK m : m = Len(all)
  OBVIOUS
<1>11. /\ all' \in Seq(Entry) /\ Len(all') = m + n /\ m \in Nat
       /\ \A i \in 1..m + n : all'[i] = IF i <= m THEN all[i] ELSE g[i - m]
       /\ DOMAIN all = 1..m /\ DOMAIN all' = 1..m + n
  <2>1. /\ all' \in Seq(Entry) /\ Len(all') = m + n
        /\ \A i \in 1..m + n : all'[i] = IF i <= m THEN all[i] ELSE g[i - m]
    <3>1. all \in Seq(Entry) /\ g \in Seq(Entry) /\ Len(g) = n /\ all' = all \o g /\ m = Len(all)
      BY <1>2, <1>9, <1>10
    <3> QED
      BY ONLY <3>1, ConcatProperties
  <2>2. m \in Nat /\ DOMAIN all = 1..m
    BY <1>2
  <2>3. DOMAIN all' = 1..m + n
    BY ONLY <2>1
  <2> QED
    BY ONLY <2>1, <2>2, <2>3
<1>12. /\ \A w : New(w).name = w
       /\ \A i \in 1..m : all[i].name \in Seen
       /\ \A i, j \in 1..m : i # j => all[i] # all[j]
  <2>1. \A i \in 1..m : all[i] \in ToSet(all)
    BY <1>11 DEF ToSet
  <2> QED
    BY <2>1 DEF BInv, ListsTheSeen, ListedOnce
<1>13. \A i \in 1..m + n : \/ i \in 1..m /\ all'[i] = all[i]
                           \/ i - m \in 1..n /\ all'[i] = New(f[i - m]) /\ f[i - m] \in F
  <2> SUFFICES ASSUME NEW i \in 1..m + n
               PROVE  \/ i \in 1..m /\ all'[i] = all[i]
                      \/ i - m \in 1..n /\ all'[i] = New(f[i - m]) /\ f[i - m] \in F
    OBVIOUS
  <2>1. CASE i <= m
    BY <1>11, <2>1
  <2>2. CASE ~(i <= m)
    <3>1. i - m \in 1..n
      BY <1>7, <1>11, <2>2
    <3> QED
      BY <1>9, <1>11, <2>2, <3>1
  <2> QED
    BY <2>1, <2>2
<1> HIDE DEF New
<1>14. ListedOnce'
  <2> SUFFICES ASSUME NEW i \in 1..m + n, NEW j \in 1..m + n, all'[i] = all'[j]
               PROVE  i = j
    BY <1>11 DEF ListedOnce
  <2>1. CASE i \in 1..m /\ all'[i] = all[i] /\ j \in 1..m /\ all'[j] = all[j]
    BY <1>12, <2>1
  <2>2. CASE i \in 1..m /\ all'[i] = all[i] /\ all'[j] = New(f[j - m]) /\ f[j - m] \in F
    <3>1. all[i].name = f[j - m] /\ f[j - m] \notin Seen
      BY <1>5, <1>12, <2>2
    <3> QED
      BY <1>12, <2>2, <3>1
  <2>3. CASE j \in 1..m /\ all'[j] = all[j] /\ all'[i] = New(f[i - m]) /\ f[i - m] \in F
    BY <1>5, <1>12, <2>3
  <2>4. CASE i - m \in 1..n /\ all'[i] = New(f[i - m]) /\ j - m \in 1..n /\ all'[j] = New(f[j - m])
    <3>1. New(f[i - m]) = New(f[j - m])
      BY <2>4
    <3>2. New(f[i - m]).name = f[i - m] /\ New(f[j - m]).name = f[j - m]
      BY <1>12
    <3>3. f[i - m] = f[j - m]
      BY ONLY <3>1, <3>2
    <3>4. i - m = j - m
      BY ONLY <1>7, <2>4, <3>3
    <3> QED
      BY ONLY <1>7, <1>11, <3>4, i \in 1..m + n, j \in 1..m + n
  <2> QED
    BY <1>13, <2>1, <2>2, <2>3, <2>4
<1>15. ToSet(all') = ToSet(all) \cup {New(w) : w \in F}
  <2>1. ASSUME NEW e \in ToSet(all') PROVE e \in ToSet(all) \cup {New(w) : w \in F}
    <3>1. PICK i \in 1..m + n : all'[i] = e
      BY <1>11 DEF ToSet
    <3>2. (i \in 1..m /\ all[i] = e) \/ \E w \in F : e = New(w)
      BY <1>13, <3>1
    <3> QED
      BY <1>11, <3>2 DEF ToSet
  <2>2. ASSUME NEW e \in ToSet(all) PROVE e \in ToSet(all')
    <3>1. PICK i \in 1..m : all[i] = e
      BY <1>11 DEF ToSet
    <3>2. i \in 1..m + n /\ i <= m
      BY ONLY <1>7, <1>11, i \in 1..m
    <3>3. i \in 1..m + n /\ all'[i] = e
      BY <1>11, <3>1, <3>2
    <3> QED
      BY <1>11, <3>3 DEF ToSet
  <2>3. ASSUME NEW w \in F PROVE New(w) \in ToSet(all')
    <3>1. PICK i \in 1..n : f[i] = w
      BY <1>7
    <3>2. m + i \in 1..m + n /\ ~(m + i <= m) /\ (m + i) - m = i
      BY <1>7, <1>11
    <3>3. all'[m + i] = New(w)
      BY <1>9, <1>11, <3>1, <3>2
    <3> QED
      BY <1>11, <3>2, <3>3 DEF ToSet
  <2> QED
    BY <2>1, <2>2, <2>3
<1>16. \A w \in Nodes : seen'[w] = IF w \in F THEN D ELSE seen[w]
  BY <1>1
<1> QED
  BY <1>3, <1>4, <1>5, <1>8, <1>14, <1>15, <1>16 DEF New

LEMMA ExpandKeeps ==
  ASSUME BInv, Expand, adj' = adj
  PROVE  BInv'
<1> PICK D, v, F : D = distance /\ v = Head(level) /\ F = Found(v)
  OBVIOUS
<1>1. /\ v \in At(D - 1) /\ v \in Seen
      /\ \A u \in ToSet(level) : u = v \/ u \in ToSet(level')
      /\ ToSet(level') \subseteq ToSet(level) /\ level' \in Seq(Nodes)
      /\ F \subseteq Nodes /\ F = adj[v] \ Seen
      /\ next' \in Seq(Nodes) /\ ToSet(next') = ToSet(next) \cup F
      /\ \A w \in Nodes : seen'[w] = IF w \in F THEN D ELSE seen[w]
      /\ ListedOnce'
      /\ ToSet(all') = ToSet(all) \cup {[name |-> w, distance |-> D] : w \in F}
  BY ExpandSteps
<1>2. /\ D \in Nat \ {0} /\ distance' = D /\ target' = target /\ depth' = depth
      /\ seen' = [w \in Nodes |-> IF w \in F THEN D ELSE seen[w]] /\ ~DepthReached
      /\ Ball' = Ball
  BY SameBalls DEF Expand, Searching, BInv, SearchTyped
<1>3. SearchTyped'
  <2>1. seen' \in [Nodes -> Nat \cup {NotSeen}]
    BY <1>2 DEF BInv, SearchTyped
  <2> QED
    BY <1>1, <1>2, <2>1 DEF BInv, SearchTyped
<1>4. /\ \A u \in Seen : u \in Nodes /\ seen[u] \in Nat /\ adj[u] \subseteq Nodes
      /\ \A u \in Nodes, k \in Nat : u \in At(k) <=> u \in Seen /\ seen[u] = k
  BY SeenAreCounted DEF BInv
<1>5. /\ \A u \in Nodes, k \in Nat : u \in At(k)' <=> u \in Seen' /\ seen'[u] = k
      /\ \A u \in Nodes : u \in Seen' <=> seen'[u] # NotSeen
  BY <1>3, ImpactAssumption DEF SearchTyped, Seen, At
<1>6. Seen' = Seen \cup F
  <2>1. \A u \in Nodes : u \in Seen' <=> u \in Seen \cup F
    BY <1>1, <1>2, <1>5, ImpactAssumption DEF Seen
  <2>2. Seen \subseteq Nodes /\ Seen' \subseteq Nodes
    BY DEF Seen
  <2> QED
    BY <1>1, <2>1, <2>2
<1>7. /\ \A u \in Seen : u \notin F /\ seen'[u] = seen[u]
      /\ \A u \in F : seen'[u] = D
  BY <1>1, <1>4
<1>8. \A k \in Nat : At(k)' = IF k = D THEN At(k) \cup F ELSE At(k)
  <2> SUFFICES ASSUME NEW k \in Nat
               PROVE  At(k)' = IF k = D THEN At(k) \cup F ELSE At(k)
    OBVIOUS
  <2>1. At(k)' \subseteq Nodes /\ At(k) \subseteq Nodes
    BY DEF At
  <2>2. \A u \in Nodes : u \in At(k)' <=> u \in At(k) \/ (k = D /\ u \in F)
    BY <1>4, <1>5, <1>6, <1>7
  <2> QED
    BY <1>1, <2>1, <2>2
<1>9. 0 \in Nat /\ D - 1 \in Nat /\ D - 1 # D /\ 0 # D /\ \A k \in 0..D - 1 : k \in Nat /\ k # D
  BY <1>2
<1>10. Levels'
  <2>1. \A u \in Seen' : seen'[u] <= D
    BY <1>2, <1>6, <1>7 DEF BInv, Levels
  <2>2. At(0)' = {target} /\ At(D - 1)' = At(D - 1) /\ At(D)' = At(D) \cup F
    BY <1>2, <1>8, <1>9 DEF BInv, Levels
  <2>3. \A k \in 0..D - 1 : At(k)' # {}
    BY <1>8, <1>9 DEF BInv, Levels
  <2>4. ToSet(level') \subseteq At(D - 1) /\ ToSet(next') = At(D) \cup F
    BY <1>1 DEF BInv, Levels
  <2> QED
    BY <1>2, <2>1, <2>2, <2>3, <2>4 DEF Levels
<1>11. Shortest'
  <2>1. ASSUME NEW k \in 0..Bound, k < D
        PROVE  SeenWithin(k)' = SeenWithin(k)
    <3>1. k \in Nat /\ ~(D <= k)
      BY <1>2, <2>1, BoundIsNatural
    <3> QED
      BY <1>6, <1>7, <3>1 DEF SeenWithin
  <2>2. \A k \in 0..Bound : k < D => Ball[k] = SeenWithin(k)
    BY DEF BInv, Shortest
  <2>3. \A w \in At(D) : \E u \in At(D - 1) : w \in adj[u]
    BY DEF BInv, Shortest
  <2>4. \A w \in At(D) \cup F : \E u \in At(D - 1) : w \in adj[u]
    BY <1>1, <2>3
  <2>5. At(D - 1)' = At(D - 1) /\ At(D)' = At(D) \cup F
    BY <1>2, <1>8, <1>9
  <2> QED
    BY <1>2, <2>1, <2>2, <2>4, <2>5 DEF Shortest
<1>12. NoneSkipped'
  <2> SUFFICES ASSUME NEW u \in Seen', seen'[u] < D
               PROVE  u \in ToSet(level') \/ adj[u] \subseteq Seen'
    BY <1>2 DEF NoneSkipped
  <2>1. u \in Seen /\ seen[u] < D
    BY <1>2, <1>6, <1>7
  <2>2. u \in ToSet(level) \/ adj[u] \subseteq Seen
    BY <2>1 DEF BInv, NoneSkipped
  <2>3. adj[v] \subseteq Seen \cup F
    BY <1>1
  <2> QED
    BY <1>1, <1>6, <2>2, <2>3
<1>13. WithinDepth'
  BY <1>2 DEF BInv, SearchTyped, WithinDepth, DepthReached
<1>14. ListsTheSeen'
  <2>1. ToSet(all) = {[name |-> w, distance |-> seen[w]] : w \in Seen \ {target}}
    BY DEF BInv, ListsTheSeen
  <2>2. target \in Seen
    BY <1>4, <1>9 DEF BInv, Levels, SearchTyped
  <2>3. {[name |-> w, distance |-> seen'[w]] : w \in Seen' \ {target}} =
          {[name |-> w, distance |-> seen[w]] : w \in Seen \ {target}}
            \cup {[name |-> w, distance |-> D] : w \in F}
    BY <1>6, <1>7, <2>2
  <2> QED
    BY <1>1, <1>2, <2>1, <2>3 DEF ListsTheSeen
<1> QED
  BY <1>3, <1>10, <1>11, <1>12, <1>13, <1>14 DEF BInv

\* Where the search ends, the nodes it has seen are the dependants.
LEMMA SearchEnds ==
  ASSUME BInv, ~Searching
  PROVE  Dependants = ToSet(all)
<1> PICK D : D = distance
  OBVIOUS
<1> DEFINE K == IF depth = 0 \/ depth > Bound THEN Bound ELSE depth
<1>1. D \in Nat \ {0} /\ Bound \in Nat /\ D <= Bound /\ depth \in Nat
  BY BoundIsNatural, DistancesAreBounded DEF BInv, SearchTyped
<1>2. /\ \A u \in Seen : u \in Nodes /\ seen[u] \in Nat /\ adj[u] \subseteq Nodes /\ seen[u] <= D
      /\ \A u \in Nodes, k \in Nat : u \in At(k) <=> u \in Seen /\ seen[u] = k
  BY SeenAreCounted DEF BInv, Levels
<1>3. \A k \in 0..Bound : k < D => Ball[k] = SeenWithin(k)
  BY DEF BInv, Shortest
<1>4. next = <<>>
  BY DEF Searching, DepthReached, BInv, WithinDepth, SearchTyped
<1>5. \A u \in Seen : seen[u] < D
  <2> SUFFICES ASSUME NEW u \in Seen, seen[u] = D PROVE FALSE
    BY <1>1, <1>2
  <2>1. u \in At(D)
    BY <1>1, <1>2
  <2>2. ToSet(next) = {}
    BY <1>4 DEF ToSet
  <2> QED
    BY <2>1, <2>2 DEF BInv, Levels
<1>6. D - 1 \in 0..Bound /\ D - 1 < D
  BY <1>1
<1>7. SeenWithin(D - 1) = Seen /\ Ball[D - 1] = Seen
  <2>1. \A u \in Seen : seen[u] <= D - 1
    BY <1>1, <1>2, <1>5
  <2> QED
    BY <1>3, <1>6, <2>1 DEF SeenWithin
<1>8. K \in 0..Bound /\ Ball[K] = Seen
  <2>1. CASE DepthReached
    <3>1. D = depth + 1 /\ depth > 0
      BY <1>1, <2>1 DEF DepthReached, BInv, WithinDepth
    <3>2. K = D - 1
      BY <1>1, <3>1
    <3> QED
      BY <1>6, <1>7, <3>2
  <2>2. CASE ~DepthReached
    <3>1. ToSet(level) = {}
      BY <2>2 DEF Searching, ToSet
    <3>2. \A u \in Seen : adj[u] \subseteq Seen
      BY <1>5, <3>1 DEF BInv, NoneSkipped
    <3>3. K \in 0..Bound /\ D - 1 <= K
      BY <1>1, <2>2 DEF DepthReached
    <3> HIDE DEF K
    <3> QED
      BY <1>6, <1>7, <3>2, <3>3, BallsGrow
  <2> QED
    BY <2>1, <2>2
<1>9. ASSUME NEW v \in Seen
      PROVE  DistanceTo(v) = seen[v]
  <2> DEFINE IsAt(k) == v \in Ball[k] /\ (k > 0 => v \notin Ball[k - 1])
  <2> PICK s : s = seen[v]
    OBVIOUS
  <2>1. s \in Nat /\ s < D /\ s \in 0..Bound
    BY <1>1, <1>2, <1>5
  <2>2. v \in Ball[s]
    BY <1>3, <2>1 DEF SeenWithin
  <2>3. s > 0 => v \notin Ball[s - 1]
    <3> SUFFICES ASSUME s > 0, v \in Ball[s - 1] PROVE FALSE
      OBVIOUS
    <3>1. s - 1 \in 0..Bound /\ s - 1 < D /\ ~(s <= s - 1)
      BY <1>1, <2>1
    <3> QED
      BY <1>3, <3>1 DEF SeenWithin
  <2>4. ASSUME NEW k \in 0..Bound, IsAt(k)
        PROVE  k = s
    <3>1. CASE k < s
      <4>1. k < D /\ ~(s <= k)
        BY <1>1, <2>1, <3>1
      <4> QED
        BY <1>3, <2>4, <4>1 DEF SeenWithin
    <3>2. CASE k > s
      <4>1. k - 1 \in 0..Bound /\ s <= k - 1 /\ k > 0
        BY <1>1, <2>1, <3>2
      <4>2. Ball[s] \subseteq Ball[k - 1]
        BY <2>1, <4>1, BallsGrow
      <4> QED
        BY <2>2, <2>4, <4>1, <4>2
    <3> QED
      BY <1>1, <2>1, <3>1, <3>2
  <2>5. DistanceTo(v) = CHOOSE k \in 0..Bound : IsAt(k)
    BY BallIs DEF DistanceTo
  <2>6. IsAt(s)
    BY <2>2, <2>3
  <2> HIDE DEF IsAt
  <2> QED
    BY <2>1, <2>4, <2>5, <2>6
<1>10. Dependants = {[name |-> v, distance |-> DistanceTo(v)] : v \in Ball[K] \ {target}}
  BY DEF Dependants, Bound
<1> HIDE DEF K
<1> QED
  BY <1>8, <1>9, <1>10 DEF BInv, ListsTheSeen

LEMMA SameDependants ==
  ASSUME target' = target, depth' = depth, adj' = adj
  PROVE  Dependants' = Dependants
<1>1. Ball' = Ball
  BY SameBalls
<1>2. \A v : DistanceTo(v)' = DistanceTo(v)
  BY <1>1 DEF DistanceTo
<1> QED
  BY <1>1, <1>2 DEF Dependants

LEMMA ReplyIsExact ==
  ASSUME BInv, NEW limit \in Limits, NEW offset \in Offsets, Reply(limit, offset), adj' = adj
  PROVE  ImpactIsExact'
<1> PICK page : page = Page(limit, offset)
  OBVIOUS
<1>1. answer' = page /\ limit \in Nat /\ offset \in Nat /\ ~Searching
  BY ImpactAssumption DEF Reply
<1>2. Dependants' = ToSet(all)
  BY <1>1, SearchEnds, SameDependants DEF Reply
<1>3. IsPageOf(page, ToSet(all))
  <2>1. ListedOnce /\ limit \in Nat /\ offset \in Nat /\ page = Page(limit, offset)
    BY <1>1 DEF BInv, ListsTheSeen
  <2> QED
    BY ONLY <2>1, PageIsOfItsPlaces
<1>4. IsPageOf(answer', Dependants')
  BY <1>1, <1>2, <1>3
<1>5. /\ ToSet(answer'.nodes) =
           {n \in Dependants' : Cardinality({m \in Dependants' : Nearest(m, n)})
                                 \in answer'.offset..(answer'.offset + answer'.limit) - 1}
      /\ Len(answer'.nodes) = Cardinality(ToSet(answer'.nodes))
      /\ answer'.truncated <=> answer'.offset + answer'.limit < Cardinality(Dependants')
  BY <1>4 DEF IsPageOf
<1> QED
  BY ONLY <1>5 DEF ImpactIsExact, Nearest

SInv == BInv /\ ImpactIsExact

LEMMA TopologyKeepsTheGraph ==
  ASSUME [TopologyNext]_topologyVars
  PROVE  adj' = adj
BY DEF TopologyNext, topologyVars, vars, Next, NextRoot, VisitNew, VisitOld, Return, Enter,
       StartLayers, NextLayer, EndLayers

LEMMA SearchStaysExact ==
  ASSUME SInv, [GraphNext]_graphVars
  PROVE  SInv'
<1>1. CASE UNCHANGED impact /\ adj' = adj
  <2>1. /\ target' = target /\ depth' = depth /\ distance' = distance /\ level' = level
        /\ next' = next /\ seen' = seen /\ all' = all /\ answer' = answer
    BY <1>1 DEF impact, search
  <2>2. Ball' = Ball /\ Dependants' = Dependants
    BY <1>1, <2>1, SameBalls, SameDependants
  <2>3. Seen' = Seen /\ \A k : At(k)' = At(k) /\ SeenWithin(k)' = SeenWithin(k)
    BY <2>1 DEF Seen, At, SeenWithin
  <2>4. SearchTyped' /\ Levels' /\ Shortest'
    BY <1>1, <2>1, <2>2, <2>3 DEF SInv, BInv, SearchTyped, Levels, Shortest
  <2>5. NoneSkipped' /\ WithinDepth' /\ ListsTheSeen'
    BY <1>1, <2>1, <2>3 DEF SInv, BInv, NoneSkipped, WithinDepth, ListsTheSeen, ListedOnce
  <2>6. ImpactIsExact'
    BY <2>1, <2>2 DEF SInv, ImpactIsExact
  <2> QED
    BY <2>4, <2>5, <2>6 DEF SInv, BInv
<1>2. CASE UNCHANGED topologyVars /\ (Expand \/ NextLevel)
  <2>1. adj' = adj /\ target' = target /\ depth' = depth /\ answer' = answer
    BY <1>2 DEF topologyVars, vars, Expand, NextLevel
  <2>2. BInv'
    BY <1>2, <2>1, ExpandKeeps, NextLevelKeeps DEF SInv
  <2>3. ImpactIsExact'
    BY <2>1, SameDependants DEF SInv, ImpactIsExact
  <2> QED
    BY <2>2, <2>3 DEF SInv
<1>3. ASSUME UNCHANGED topologyVars, NEW limit \in Limits, NEW offset \in Offsets, Reply(limit, offset)
      PROVE  SInv'
  <2>1. adj' = adj
    BY <1>3 DEF topologyVars, vars
  <2>2. /\ target' = target /\ depth' = depth /\ distance' = distance /\ level' = level
        /\ next' = next /\ seen' = seen /\ all' = all
    BY <1>3 DEF Reply, search
  <2>3. Ball' = Ball /\ Seen' = Seen /\ \A k : At(k)' = At(k) /\ SeenWithin(k)' = SeenWithin(k)
    BY <2>1, <2>2, SameBalls DEF Seen, At, SeenWithin
  <2>4. SearchTyped' /\ Levels' /\ Shortest'
    BY <2>1, <2>2, <2>3 DEF SInv, BInv, SearchTyped, Levels, Shortest
  <2>5. NoneSkipped' /\ WithinDepth' /\ ListsTheSeen'
    BY <2>1, <2>2, <2>3 DEF SInv, BInv, NoneSkipped, WithinDepth, ListsTheSeen, ListedOnce
  <2> QED
    BY <1>3, <2>1, <2>4, <2>5, ReplyIsExact DEF SInv, BInv
<1>4. CASE UNCHANGED graphVars
  BY <1>1, <1>4 DEF graphVars, topologyVars, vars
<1>5. CASE TopologyNext /\ UNCHANGED <<tool, impact>>
  BY <1>1, <1>5, TopologyKeepsTheGraph
<1> QED
  BY <1>2, <1>3, <1>4, <1>5 DEF GraphNext, ImpactNext

-----------------------------------------------------------------------------
(* Neither question changes the graph, and a search leaves the components  *)
(* and the layers of the other alone.                                      *)

LEMMA GraphStarts == GraphInit(Graphs) => KInv
BY TopologyStarts DEF GraphInit

LEMMA GraphStepKeeps == KInv /\ [GraphNext]_graphVars => KInv'
<1> SUFFICES ASSUME KInv, [GraphNext]_graphVars
             PROVE  [TopologyNext]_topologyVars
  BY TopologyStepKeeps
<1> QED
  BY DEF GraphNext, graphVars

\* What strong pops is a strongly connected component, whole and of its own,
\* and in the end every node was popped once (graph.go:355-405), whatever the
\* graph: loops, nodes on several cycles and neighbours that are called again
\* before an earlier call has returned included.
THEOREM TarjanFindsTheComponents == GraphSpec => []PoppedAreComponents
<1>1. KInv => PoppedAreComponents
  BY TInvPopsComponents DEF KInv
<1> QED
  BY <1>1, GraphStarts, GraphStepKeeps, PTL DEF GraphSpec

\* repo_cycles names exactly the nodes that reach themselves through an edge,
\* with those of the same cycle (graph.go:264-279).
THEOREM CyclesAreNamed == GraphSpec => []CyclesAreTheNodesOnCycles
<1>1. KInv => CyclesAreTheNodesOnCycles
  BY TInvNamesTheCycles DEF KInv
<1> QED
  BY <1>1, GraphStarts, GraphStepKeeps, PTL DEF GraphSpec

\* repo_topology puts every component in one layer, after all its predecessors
\* and right after one of them, and the fallback to one layer of all nodes is
\* never taken (graph.go:285-343).
THEOREM LayersAreTopological == GraphSpec => []LayersAreEarliest
BY GraphStarts, GraphStepKeeps, KInvLayersEarliest, PTL DEF GraphSpec

\* repo_impact finds every dependant within the depth, once and at its shortest
\* distance, and its pages follow one another without a gap or a repetition
\* (graph.go:207-249), for any graph, target, depth, limit and offset.
THEOREM ImpactFindsTheDependants == GraphSpec => []ImpactIsExact
<1>1. GraphInit(Graphs) => SInv
  BY SearchStarts DEF SInv, GraphInit, ImpactInit, ImpactIsExact, NoAnswer
<1>2. SInv /\ [GraphNext]_graphVars => SInv'
  BY SearchStaysExact
<1>3. SInv => ImpactIsExact
  BY DEF SInv
<1> QED
  BY <1>1, <1>2, <1>3, PTL DEF GraphSpec
=============================================================================
