----------------------------- MODULE IndexedScan -----------------------------
(***************************************************************************)
(* scan_symbols answered by the index: ScanAt and scan of repo.go,         *)
(* pruneGroups of scan.go and Files of store.go, beside the refreshes and  *)
(* restarts that change what is indexed.                                   *)
(*                                                                         *)
(* Files hands out the index's own facts, and pruneGroups filters them in  *)
(* place: it deletes from the groups map and compacts the slice of a group *)
(* over its own backing array.  The model keeps that sharing.  The facts   *)
(* of a file are an object facts[p][g], the g-th one made for path p, and  *)
(* every scan that took it reads and writes the same object.  A group is   *)
(* its backing array and the length of its slice, length 0 for a deleted   *)
(* one; a loop over a slice goes element by element, as other scans do.    *)
(*                                                                         *)
(* Two scans at once are a data race on the map.  The Go runtime stops the *)
(* process when it notices one, which is a Restart here, and otherwise the *)
(* writes take effect in some order.                                       *)
(***************************************************************************)
EXTENDS Naturals, Sequences, SequencesExt

CONSTANTS
  Paths, Kinds, Names, Languages,
  LanguageOf,     \* the language of each path
  Contents,       \* what a file may hold
  Declares,       \* Declares[c][k]: the names of kind k that content c declares, in order
  Scans,          \* callers of scan_symbols
  AnyName,        \* the empty name filter
  Queries,        \* what the callers ask
  MaxFacts        \* bound: objects made for one path

ASSUME IndexedScanAssumption ==
  /\ LanguageOf \in [Paths -> Languages]
  /\ Declares \in [Contents -> [Kinds -> Seq(Names)]]
  /\ AnyName \notin Names
  /\ MaxFacts \in Nat \ {0}
  \* An empty set of languages or kinds does not filter.
  /\ Queries \subseteq
       [languages : SUBSET Languages, kinds : SUBSET Kinds, name : Names \cup {AnyName}]

VARIABLES
  source,     \* what each file holds
  facts,      \* facts[p]: the objects made for p; the last one is indexed
  snapshot,   \* the snapshot file: the facts of each path
  saving,     \* a refresh has published and has yet to save
  scan

vars == <<source, facts, snapshot, saving, scan>>

Parsed(c) == [of |-> c, array |-> Declares[c], length |-> [k \in Kinds |-> Len(Declares[c][k])]]

Indexed(p) == Last(facts[p])

\* Encoding a slice writes what its length covers.
Encode(f) == [f EXCEPT !.array = [k \in Kinds |-> SubSeq(f.array[k], 1, f.length[k])]]

NoScan == [pc |-> "idle", query |-> [languages |-> {}, kinds |-> {}, name |-> AnyName],
           took |-> [p \in Paths |-> 0], todo |-> {}, at |-> <<>>,
           items |-> 0, i |-> 0, kept |-> 0, answer |-> {}]

Init ==
  /\ source \in [Paths -> Contents]
  /\ facts = [p \in Paths |-> <<Parsed(source[p])>>]
  /\ snapshot = [p \in Paths |-> Parsed(source[p])]
  /\ saving = FALSE
  /\ scan = [s \in Scans |-> NoScan]

-----------------------------------------------------------------------------
(* The files and the index.                                                *)

Edit ==
  /\ \E p \in Paths : \E c \in Contents \ {source[p]} : source' = [source EXCEPT ![p] = c]
  /\ UNCHANGED <<facts, snapshot, saving, scan>>

Stale == {p \in Paths : Indexed(p).of # source[p]}

PublishInPlace(p) == [facts[p] EXCEPT ![Len(facts[p])] = Parsed(source[p])]   \* mutant

Publish(p) == Append(facts[p], Parsed(source[p]))

\* A refresh compares digests, so what a scan took from the facts of an
\* unchanged file is no difference.
Refresh ==
  /\ ~saving /\ Stale # {}
  /\ \A p \in Stale : Len(facts[p]) < MaxFacts
  /\ facts' = [p \in Paths |-> IF p \in Stale THEN Publish(p) ELSE facts[p]]
  /\ saving' = TRUE
  /\ UNCHANGED <<source, snapshot, scan>>

Save ==
  /\ saving
  /\ snapshot' = [p \in Paths |-> Encode(Indexed(p))]
  /\ saving' = FALSE
  /\ UNCHANGED <<source, facts, scan>>

Restart ==
  /\ \A p \in Paths : Len(facts[p]) < MaxFacts
  /\ facts' = [p \in Paths |-> Append(facts[p], snapshot[p])]
  /\ saving' = FALSE
  /\ scan' = [s \in Scans |-> NoScan]
  /\ UNCHANGED <<source, snapshot>>

-----------------------------------------------------------------------------
(* A scan.                                                                 *)

Others == <<source, snapshot, saving>>

OfLanguage(q) == {p \in Paths : q.languages = {} \/ LanguageOf[p] \in q.languages}

Begin(s, q) ==
  /\ scan[s].pc \in {"idle", "done"}
  /\ scan' = [scan EXCEPT ![s] =
       [NoScan EXCEPT !.pc = "pruning", !.query = q, !.todo = OfLanguage(q) \X Kinds,
          !.took = [p \in Paths |-> IF p \in OfLanguage(q) THEN Len(facts[p]) ELSE 0]]]
  /\ UNCHANGED <<Others, facts>>

\* The map of files and the map of a file's groups are visited in any order,
\* the groups of a file together.
Visitable(s) ==
  {g \in scan[s].todo : \A h \in scan[s].todo : h[1] # g[1] => {h[1]} \X Kinds \subseteq scan[s].todo}

DropsKindUnlessNamed(q, k) == q.name = AnyName /\ q.kinds # {} /\ k \notin q.kinds   \* mutant

DropsKind(q, k) == q.kinds # {} /\ k \notin q.kinds

\* The slice of group k of the object of path p that scan s took.
SetLength(s, p, k, n) == facts' = [facts EXCEPT ![p][scan[s].took[p]].length[k] = n]

Visit(s) ==
  /\ scan[s].pc = "pruning"
  /\ \E g \in Visitable(s) :
       LET p == g[1]
           k == g[2]
           n == facts[p][scan[s].took[p]].length[k]
           left == [scan[s] EXCEPT !.todo = @ \ {g}]
       IN IF DropsKind(scan[s].query, k)
            THEN SetLength(s, p, k, 0) /\ scan' = [scan EXCEPT ![s] = left]
          ELSE /\ scan' = [scan EXCEPT ![s] =
                    IF n = 0 \/ scan[s].query.name = AnyName THEN left
                    ELSE [left EXCEPT !.pc = "compacting", !.at = g, !.items = n]]
               /\ UNCHANGED facts
  /\ UNCHANGED Others

\* kept = append(kept, it): the write lands in the array the loop reads.
Compact(s) ==
  /\ scan[s].pc = "compacting" /\ scan[s].i < scan[s].items
  /\ LET c == scan[s]
         f == facts[c.at[1]][c.took[c.at[1]]]
         it == f.array[c.at[2]][c.i + 1]
     IN IF it = c.query.name
          THEN /\ facts' = [facts EXCEPT ![c.at[1]][c.took[c.at[1]]].array[c.at[2]][c.kept + 1] = it]
               /\ scan' = [scan EXCEPT ![s].i = @ + 1, ![s].kept = @ + 1]
          ELSE /\ scan' = [scan EXCEPT ![s].i = @ + 1]
               /\ UNCHANGED facts
  /\ UNCHANGED Others

Compacted(s) ==
  /\ scan[s].pc = "compacting" /\ scan[s].i = scan[s].items
  /\ SetLength(s, scan[s].at[1], scan[s].at[2], scan[s].kept)
  /\ scan' = [scan EXCEPT ![s].pc = "pruning", ![s].at = <<>>, ![s].items = 0, ![s].i = 0, ![s].kept = 0]
  /\ UNCHANGED Others

\* The result still refers to the index's facts: it is what they hold when it
\* is written to the client.
Answer(s) ==
  /\ scan[s].pc = "pruning" /\ scan[s].todo = {}
  /\ LET Held(p, k) == LET f == facts[p][scan[s].took[p]]
                       IN {f.array[k][j] : j \in 1..f.length[k]}
     IN scan' = [scan EXCEPT ![s].pc = "done", ![s].answer =
          UNION {{<<p, k, n>> : n \in Held(p, k)} : p \in OfLanguage(scan[s].query), k \in Kinds}]
  /\ UNCHANGED <<Others, facts>>

ScanStep(s) ==
  \/ \E q \in Queries : Begin(s, q)
  \/ Visit(s) \/ Compact(s) \/ Compacted(s) \/ Answer(s)

Next == Edit \/ Refresh \/ Save \/ Restart \/ \E s \in Scans : ScanStep(s)

Spec == Init /\ [][Next]_vars

-----------------------------------------------------------------------------
(* Properties.                                                             *)

\* A slice stays within the array it was cut from, and a compaction writes
\* behind what it reads (items[:0], scan.go:75-82).
TypeOK ==
  /\ source \in [Paths -> Contents] /\ saving \in BOOLEAN
  /\ \A p \in Paths : \A g \in DOMAIN facts[p] : \A k \in Kinds :
       /\ facts[p][g].array[k] \in Seq(Names)
       /\ facts[p][g].length[k] \in 0..Len(facts[p][g].array[k])
  /\ \A s \in Scans : /\ scan[s].kept <= scan[s].i /\ scan[s].i <= scan[s].items
                      /\ \A p \in Paths : scan[s].took[p] \in 0..Len(facts[p])

Done(s) == scan[s].pc = "done"

\* What is declared, at the content the path was indexed with when the scan
\* took its facts.
Declared(s) ==
  UNION {{<<p, k, n>> : n \in ToSet(Declares[facts[p][scan[s].took[p]].of][k])} :
           p \in {r \in Paths : scan[s].took[r] # 0}, k \in Kinds}

Matches(q, x) ==
  /\ q.languages = {} \/ LanguageOf[x[1]] \in q.languages
  /\ q.kinds = {} \/ x[2] \in q.kinds
  /\ q.name = AnyName \/ x[3] = q.name

\* A scan that runs with no other beside it answers only what its query asks
\* for, whatever is published while it runs (pruneGroups, scan.go:63-65: "drops
\* groups not listed in kinds (when set) and items whose nameOf() differs from
\* name (when set)").  Of two scans at once, one can answer a name the other
\* moved into the array they share.
AnswerMatchesQuery ==
  \A s \in Scans :
    (Done(s) /\ \A t \in Scans \ {s} : scan[t].pc = "idle")
      => \A x \in scan[s].answer : Matches(scan[s].query, x)

\* A scan answers one content per file: what it says of a file was declared
\* by the content that was indexed when the scan began, though the file was
\* published again, and other scans pruned, while it ran.
AnswersOneContent == \A s \in Scans : Done(s) => scan[s].answer \subseteq Declared(s)

\* A scan filters the indexed symbols (repo.go:967): it answers every symbol
\* declared by the indexed content that its query asks for.  The code loses
\* those an earlier scan filtered out.
ScanIsExact ==
  \A s \in Scans : Done(s) =>
    {x \in Declared(s) : Matches(scan[s].query, x)} \subseteq scan[s].answer
=============================================================================
