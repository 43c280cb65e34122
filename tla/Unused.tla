------------------------------- MODULE Unused -------------------------------
(***************************************************************************)
(* Which declared symbols nothing uses: the two ways find_usages answers   *)
(* mode "unused".                                                          *)
(*                                                                         *)
(* Without an index UnusedSymbols of engine/search.go parses the files for *)
(* their declarations and then reads them once more, to count the bytes    *)
(* of each declared name; what cannot be read the second time is skipped.  *)
(* With one, MemoryStore.Unused counts the postings of the name.           *)
(*                                                                         *)
(* A source is the sequence of its words; a word is a name in the role of  *)
(* a declaration, an import, any other identifier, or text of a comment    *)
(* or a string.  The bytes of one name may be inside those of another.     *)
(***************************************************************************)
EXTENDS Naturals, Sequences, FiniteSets

CONSTANTS
  Sources,     \* the paths of the files
  Inside,      \* <<m, n>>: the bytes of m are in those of n; reflexive
  Texts        \* what the files may hold

Roles == {"declaration", "import", "identifier", "comment"}

ASSUME UnusedAssumption ==
  /\ IsFiniteSet(Sources)
  /\ \A pair \in Inside : <<pair[1], pair[1]>> \in Inside
  /\ Texts \subseteq [Sources -> Seq([name: {pair[1] : pair \in Inside}, role: Roles])]

VARIABLES
  text,        \* text[f]: what f holds
  gone,        \* the files that can no longer be read
  parsed,      \* the files whose symbols were collected
  failed,      \* the files that are in the errors of the scan
  counted,     \* the files countOccurrences is through with
  missed,      \* those of them it could not read
  counts       \* counts[n]

unusedVars == <<text, gone, parsed, failed, counted, missed, counts>>

Words(f) == {text[f][i] : i \in DOMAIN text[f]}
Names == {pair[1] : pair \in Inside}

UnusedInit(texts) ==
  /\ text \in texts
  /\ gone = {} /\ parsed = {} /\ failed = {} /\ counted = {} /\ missed = {}
  /\ counts = [n \in Names |-> 0]

\* Another program deletes the file, or takes the right to read it away.
Vanish(f) ==
  /\ f \notin gone
  /\ gone' = gone \cup {f}
  /\ UNCHANGED <<text, parsed, failed, counted, missed, counts>>

\* ScanSymbols, by one of its workers.
ParseFile(f) ==
  /\ f \notin parsed \cup failed
  /\ IF f \in gone
       THEN failed' = failed \cup {f} /\ UNCHANGED parsed
       ELSE parsed' = parsed \cup {f} /\ UNCHANGED failed
  /\ UNCHANGED <<text, gone, counted, missed, counts>>

Scanned == parsed \cup failed = Sources

Declares(w) == w.role = "declaration"

\* collectDeclarations.
Declared == {w.name : w \in {v \in UNION {Words(f) : f \in parsed} : Declares(v)}}

\* Mutant: a file counts once however often it has the name.
FileHas(f, n) == IF \E w \in Words(f) : <<n, w.name>> \in Inside THEN 1 ELSE 0
\* bytes.Count.
Occurrences(f, n) == Cardinality({i \in DOMAIN text[f] : <<n, text[f][i].name>> \in Inside})

\* countOccurrences at one of the files that were parsed.
CountFile(f) ==
  /\ Scanned /\ f \in parsed \ counted
  /\ counted' = counted \cup {f}
  /\ IF f \in gone
       THEN missed' = missed \cup {f} /\ UNCHANGED counts
       ELSE /\ counts' = [n \in Names |-> counts[n] +
                            IF n \in Declared THEN Occurrences(f, n) ELSE 0]
            /\ UNCHANGED missed
  /\ UNCHANGED <<text, gone, parsed, failed>>

AllCounted == Scanned /\ counted = parsed

UnusedDone == AllCounted /\ gone = Sources /\ UNCHANGED unusedVars

UnusedNext == (\E f \in Sources : Vanish(f) \/ ParseFile(f) \/ CountFile(f)) \/ UnusedDone

UnusedSpec == UnusedInit(Texts) /\ [][UnusedNext]_unusedVars

-----------------------------------------------------------------------------
(* The answers.                                                            *)

DirectUnused == {n \in Declared : counts[n] = 1}

\* The postings of a name in an index of the files that were parsed.
IsPosting(w, n) == w.name = n /\ w.role # "comment"
Postings(n) ==
  {p \in UNION {{f} \X DOMAIN text[f] : f \in parsed} : IsPosting(text[p[1]][p[2]], n)}

IndexedUnused ==
  {n \in {w.name : w \in {v \in UNION {Words(f) : f \in parsed} : v.role = "declaration"}} :
     Cardinality(Postings(n)) = 1}

-----------------------------------------------------------------------------
(* Properties.                                                             *)

Others(n) == {p \in Postings(n) : text[p[1]][p[2]].role # "declaration"}

\* search.go:30: "this never flags a truly-referenced symbol".  Neither flow
\* lists a name that an identifier of the files refers to, or that is declared
\* twice.  In the direct one this is so as long as no file that was parsed is
\* unreadable when its bytes are counted: such a file is skipped, and what it
\* refers to may be listed.  What the direct flow then lists, the index lists.
UnusedIsUnreferenced ==
  AllCounted =>
    /\ \A n \in IndexedUnused : Others(n) = {}
    /\ missed = {} => \A n \in DirectUnused : Others(n) = {} /\ n \in IndexedUnused
=============================================================================
