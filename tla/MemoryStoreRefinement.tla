----------------------- MODULE MemoryStoreRefinement -----------------------
(***************************************************************************)
(* MemoryStore implements IndexStoreSpec.  A call changes the maps step by *)
(* step while it holds the write lock, so the abstract store is the view   *)
(* readers have: what the maps said when the lock was last free.  `served` *)
(* keeps it, and `call` the arguments of the call in progress (history     *)
(* variables: no step of MemoryStore reads them).                          *)
(***************************************************************************)
EXTENDS MemoryStore

CONSTANTS VersionWidth, NoCall

VARIABLES served, call

\* classifyUsagesTree captures every identifier-like node once, and two nodes
\* with one start have two texts.
ASSUME OccurrencesAreDistinct ==
  \A f \in Facts : \A i, j \in DOMAIN UsagesOf[f] : UsagesOf[f][i] = UsagesOf[f][j] => i = j

Count(s, x) == Cardinality({i \in DOMAIN s : s[i] = x})

\* Reading the maps through the interning tables.
EntryOf(p) == IF Indexed(p) THEN [facts |-> files[fileIDs[p]]] ELSE NoFacts
OccurrencesOf(p, r) ==
  IF fileIDs[p] = 0 \/ nameIDs[r.name] = 0 THEN 0
  ELSE Count(usages[nameIDs[r.name]][fileIDs[p]], r)

View ==
  [entries  |-> [p \in Paths |-> EntryOf(p)],
   postings |-> [p \in Paths |-> [r \in Refs |-> OccurrencesOf(p, r)]],
   errors   |-> errors,
   state    |-> info.state,
   version  |-> info.version % VersionWidth]

EntriesOf(m) == [p \in Paths |-> IF m[p] = NoFacts THEN NoFacts ELSE [facts |-> m[p]]]

CallOf(j) ==
  IF j.op = "replace" THEN [op |-> "replace", files |-> EntriesOf(j.add), errs |-> j.errs]
  ELSE [op |-> "apply",
        changes |-> [added |-> EntriesOf(j.add), updated |-> EntriesOf(j.update),
                     deleted |-> j.delete, errors |-> j.errs]]

ServedInit == Init /\ served = View /\ call = NoCall

ServedNext ==
  /\ Next
  /\ served' = IF job'.op = "none" THEN View' ELSE served
  /\ call' = IF job'.op = "none" THEN NoCall
             ELSE IF job.op = "none" THEN CallOf(job') ELSE call

ServedSpec == ServedInit /\ [][ServedNext]_<<vars, served, call>>

Abstract == INSTANCE IndexStoreSpec WITH
  store <- served, NoEntry <- NoFacts, EntryValues <- [facts: Facts],
  RefsOf <- [f \in Facts |-> {UsagesOf[f][i] : i \in DOMAIN UsagesOf[f]}]

ASSUME RefinementAssumption ==
  /\ VersionWidth \in Nat \ {0}
  /\ NoFacts \notin [facts: Facts]
  /\ NoCall \notin Abstract!ReplaceCalls \cup Abstract!ApplyCalls

\* store.go behind its lock is the abstract store: Replace, Apply and
\* SetState are atomic, and remove, insert and the interning tables lose,
\* double or misplace no occurrence, whatever order the loops take.
ImplementsIndexStore == Abstract!Spec

\* The postings and the files of one published store belong together: every
\* occurrence of a published file is served, and a path that is not published
\* has none, however often it was added, updated and deleted.  An occurrence
\* is served twice only for a path that was added while it was indexed: Apply
\* removes nothing for Added (store.go:330).
ServesTheirPostings ==
  \A p \in Paths :
    IF served.entries[p] = NoFacts THEN served.postings[p] = Abstract!NoPostings
    ELSE \A r \in Refs :
           served.postings[p][r] >= Abstract!PostingsOf(served.entries[p].facts)[r]
=============================================================================
