----------------------------- MODULE IndexStore -----------------------------
(***************************************************************************)
(* What internal/repoindex/store.go promises its callers, with the         *)
(* interning and the secondary maps taken away: one repository is a record *)
(* of published entries, the postings every entry contributed, the paths   *)
(* that failed, the serving state and the index version.  Every operator   *)
(* is one critical section of MemoryStore.mu.                              *)
(*                                                                         *)
(* Refs abstracts a usage occurrence (file position and name).  A path's   *)
(* postings are a bag of references, because UsagesWindow sorts them       *)
(* before it answers: what can go wrong is a missing, a foreign or a       *)
(* doubled one.  MemoryStore implements this module (see there).           *)
(***************************************************************************)
EXTENDS Naturals

CONSTANTS
  Paths,          \* the source files the walk can see
  Facts,          \* the results of parsing a file, one per file content
  Refs,           \* the usage occurrences facts can contain
  RefsOf,         \* [Facts -> SUBSET Refs], the occurrences of each facts
  NoEntry,        \* a path that is not in the index
  VersionWidth    \* Info.Version is taken modulo this (uint64 in the code)

ASSUME IndexStoreAssumption ==
  /\ RefsOf \in [Facts -> SUBSET Refs]
  /\ VersionWidth \in Nat \ {0}

States == {"building", "refreshing", "ready", "partial"}

\* The bag of the postings of one file, and its two builders.
NoPostings == [r \in Refs |-> 0]
PostingsOf(f) == [r \in Refs |-> IF r \in RefsOf[f] THEN 1 ELSE 0]
AddPostings(a, b) == [r \in Refs |-> a[r] + b[r]]

NoFiles == [p \in Paths |-> NoEntry]
PathsIn(files) == {p \in Paths : files[p] # NoEntry}

EmptyStore ==
  [entries  |-> NoFiles,
   postings |-> [p \in Paths |-> NoPostings],
   errors   |-> {},
   state    |-> "building",
   version  |-> 0]

Bump(v) == (v + 1) % VersionWidth

\* SetState: the only way into "refreshing".
SetState(s, st) == [s EXCEPT !.state = st]

\* Mutant: the state is not set when the build ends.
ReplaceKeepsState(s, files, errs, st) ==
  [s EXCEPT !.entries = files, !.errors = errs, !.version = Bump(s.version)]
\* Replace: everything is rebuilt from `files`.  `st` is "ready", or
\* "partial" when the estimate exceeds the memory limit.
Replace(s, files, errs, st) ==
  [entries  |-> files,
   postings |-> [p \in Paths |-> IF files[p] = NoEntry
                                   THEN NoPostings ELSE PostingsOf(files[p].facts)],
   errors   |-> errs,
   state    |-> st,
   version  |-> Bump(s.version)]

NoChange == [added |-> NoFiles, updated |-> NoFiles, deleted |-> {}, errors |-> {}]

\* What one path's postings become: Deleted and Updated remove first, Added
\* only inserts.
PostingsAfter(old, p, cs) ==
  LET kept == IF p \in cs.deleted \cup PathsIn(cs.updated) THEN NoPostings ELSE old
      plus(bag, e) == IF e = NoEntry THEN bag ELSE AddPostings(bag, PostingsOf(e.facts))
  IN  plus(plus(kept, cs.updated[p]), cs.added[p])

\* Mutant: deletions are not applied.
EntryAfterWithoutDeletes(old, p, cs) ==
  IF cs.added[p] # NoEntry THEN cs.added[p]
  ELSE IF cs.updated[p] # NoEntry THEN cs.updated[p] ELSE old
EntryAfter(old, p, cs) ==
  IF cs.added[p] # NoEntry THEN cs.added[p]
  ELSE IF cs.updated[p] # NoEntry THEN cs.updated[p]
  ELSE IF p \in cs.deleted THEN NoEntry ELSE old

\* Apply: one incremental change set, published under the write lock.
Apply(s, cs, st) ==
  [entries  |-> [p \in Paths |-> EntryAfter(s.entries[p], p, cs)],
   postings |-> [p \in Paths |-> PostingsAfter(s.postings[p], p, cs)],
   errors   |-> (s.errors \ (cs.deleted \cup PathsIn(cs.updated) \cup PathsIn(cs.added)))
                  \cup cs.errors,
   state    |-> st,
   version  |-> Bump(s.version)]
=============================================================================
