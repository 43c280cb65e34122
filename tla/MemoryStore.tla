---------------------------- MODULE MemoryStore ----------------------------
(***************************************************************************)
(* One repository of internal/repoindex/store.go: file and name interning, *)
(* the postings and their per-file inverse, the canonical identities, the  *)
(* complexity list, the memory estimate and the serving state.             *)
(*                                                                         *)
(* Replace and Apply hold MemoryStore.mu from their first step to Publish; *)
(* their loops run one iteration per step, in any order where the code     *)
(* ranges over a map.  Readers (every RLock method) see the states with    *)
(* job.op = "none" only.  Maps with a missing key are functions with an    *)
(* empty value: the code deletes a posting list when it becomes empty.     *)
(***************************************************************************)
EXTENDS Integers, Sequences, FiniteSets, FiniteSetsExt, TLC

CONSTANTS
  Paths,          \* source files, numbered in path order
  Names,          \* identifiers
  Facts,          \* results of parsing a file
  UsagesOf,       \* [Facts -> Seq([name, row])], the occurrences in file order
  DeclsOf,        \* [Facts -> [Names -> Nat]], declarations other than imports
  ComplexityOf,   \* [Facts -> Nat], one function per file
  MemoryOf,       \* [Facts -> Nat], estimateFile
  NoFacts,        \* no facts
  MemoryLimit,    \* MemoryStore.limit; 0 is no limit
  MaxFileIDs,     \* bound of FileID (uint32 in the code)
  MaxNameIDs,     \* bound of NameID (uint32 in the code)
  MaxJobs         \* bound: calls of Replace and Apply

Occurrences == [name: Names, row: Nat]
Refs == UNION {{UsagesOf[f][i] : i \in DOMAIN UsagesOf[f]} : f \in Facts}

\* Interned strings: identifiers and canonical keys language|file|kind|name.
CanonicalKeys == Paths \X Names
Keys == Names \cup CanonicalKeys

FileIDs == 1..MaxFileIDs
NameIDs == 1..MaxNameIDs
MaybeFiles == [Paths -> Facts \cup {NoFacts}]

ASSUME MemoryStoreAssumption ==
  /\ Paths \subseteq Nat \ {0} /\ IsFiniteSet(Paths)
  /\ NoFacts \notin Facts
  /\ UsagesOf \in [Facts -> Seq(Occurrences)]
  /\ DeclsOf \in [Facts -> [Names -> Nat]]
  /\ ComplexityOf \in [Facts -> Nat]
  /\ MemoryOf \in [Facts -> Nat]
  /\ MemoryLimit \in Nat
  /\ MaxFileIDs \in Nat /\ MaxNameIDs \in Nat /\ MaxJobs \in Nat

VARIABLES
  paths, fileIDs,            \* internFile: id -> path, path -> id (0: none)
  names, nameIDs,            \* internName: id -> string, string -> id (0: none)
  files,                     \* id -> facts
  usages,                    \* name id -> file id -> references
  fileUsages,                \* file id -> name id -> references
  canonical, byCanonical,    \* the stamp of a name's references; canonical postings
  complexity, fileMemory,
  errors, info,
  job,                       \* the call that holds the write lock
  jobs                       \* how many calls were made

tables == <<paths, fileIDs, names, nameIDs>>
postings == <<usages, fileUsages>>
vars == <<tables, files, postings, canonical, byCanonical,
          complexity, fileMemory, errors, info, job, jobs>>

NoRefs == [g \in FileIDs |-> <<>>]
NoFilesMap == [p \in Paths |-> NoFacts]
Given(m) == {p \in Paths : m[p] # NoFacts}
FirstOf(S) == CHOOSE x \in S : \A y \in S : x <= y
Indexed(p) == fileIDs[p] # 0 /\ files[fileIDs[p]] # NoFacts

NoJob == [op |-> "none", phase |-> "files", delete |-> {}, update |-> NoFilesMap,
          add |-> NoFilesMap, errs |-> {}, at |-> 0, rest |-> <<>>, enrich |-> {}]

Init ==
  /\ paths = <<>> /\ fileIDs = [p \in Paths |-> 0]
  /\ names = <<>> /\ nameIDs = [k \in Keys |-> 0]
  /\ files = [g \in FileIDs |-> NoFacts]
  /\ usages = [n \in NameIDs |-> NoRefs]
  /\ fileUsages = [g \in FileIDs |-> [n \in NameIDs |-> <<>>]]
  /\ canonical = [n \in NameIDs |-> 0]
  /\ byCanonical = [n \in NameIDs |-> NoRefs]
  /\ complexity = <<>>
  /\ fileMemory = [g \in FileIDs |-> 0]
  /\ errors = {}
  /\ info = [state |-> "building", files |-> 0, memory |-> 0, version |-> 0]
  /\ job = NoJob
  /\ jobs = 0

-----------------------------------------------------------------------------
(* The calls.                                                              *)

MayCall == job.op = "none" /\ jobs < MaxJobs

\* Replace starts from nothing and inserts every file as an added one.
ReplaceBegin(fs, errs) ==
  /\ MayCall
  /\ errs \cap Given(fs) = {}
  /\ jobs' = jobs + 1
  /\ paths' = <<>> /\ fileIDs' = [p \in Paths |-> 0]
  /\ names' = <<>> /\ nameIDs' = [k \in Keys |-> 0]
  /\ files' = [g \in FileIDs |-> NoFacts]
  /\ usages' = [n \in NameIDs |-> NoRefs]
  /\ fileUsages' = [g \in FileIDs |-> [n \in NameIDs |-> <<>>]]
  /\ byCanonical' = [n \in NameIDs |-> NoRefs]
  /\ canonical' = [n \in NameIDs |-> 0]
  /\ complexity' = <<>>
  /\ fileMemory' = [g \in FileIDs |-> 0]
  /\ errors' = {}
  /\ job' = [NoJob EXCEPT !.op = "replace", !.add = fs, !.errs = errs]
  /\ UNCHANGED info

\* A path is in at most one of the three maps of a change set, and a path with
\* facts has no error.  Nobody applies a delta to an index not yet built: both
\* refresh and ResolveIndex look at the state first.
ApplyBegin(del, upd, add, errs) ==
  /\ MayCall /\ info.state # "building"
  /\ Given(upd) \cap Given(add) = {} /\ (del \cup errs) \cap (Given(upd) \cup Given(add)) = {}
  /\ jobs' = jobs + 1
  /\ job' = [NoJob EXCEPT !.op = "apply", !.delete = del, !.update = upd,
                          !.add = add, !.errs = errs]
  /\ UNCHANGED <<tables, files, postings, canonical, byCanonical,
                 complexity, fileMemory, errors, info>>

SetState(st) ==
  /\ MayCall /\ info.state \notin {"building", "refreshing"}
  /\ jobs' = jobs + 1
  /\ info' = [info EXCEPT !.state = st]
  /\ UNCHANGED <<tables, files, postings, canonical, byCanonical,
                 complexity, fileMemory, errors, job>>

-----------------------------------------------------------------------------
(* remove and insert.                                                      *)

Looping == job.op # "none" /\ job.phase = "files" /\ job.at = 0

\* Mutant: the postings keep the references of a removed file.
UsagesKept(fid) == usages
\* remove goes through the per-file inverse: only the names listed there lose
\* their reference list for the file.
UsagesWithout(fid) ==
  [n \in NameIDs |-> [g \in FileIDs |->
     IF g = fid /\ fileUsages[fid][n] # <<>> THEN <<>> ELSE usages[n][g]]]

\* Mutant: remove leaves the inverse behind.
FileUsagesKept(fid) == fileUsages
FileUsagesWithout(fid) == [fileUsages EXCEPT ![fid] = [n \in NameIDs |-> <<>>]]

KeepPath(p) == complexity     \* mutant

\* The loop that compacts r.complexity in place.
DropPath(p) ==
  LET out[i \in 0..Len(complexity)] ==
        IF i = 0 THEN <<>>
        ELSE IF complexity[i].file # p THEN Append(out[i - 1], complexity[i]) ELSE out[i - 1]
  IN  out[Len(complexity)]

Delete(p) ==
  LET fid == fileIDs[p]
  IN  /\ Looping /\ p \in job.delete
      /\ job' = [job EXCEPT !.delete = @ \ {p}]
      /\ errors' = errors \ {p}
      /\ IF fid = 0 THEN UNCHANGED <<files, postings, complexity, fileMemory>>
         ELSE /\ usages' = UsagesWithout(fid)
              /\ fileUsages' = FileUsagesWithout(fid)
              /\ files' = [files EXCEPT ![fid] = NoFacts]
              /\ fileMemory' = [fileMemory EXCEPT ![fid] = 0]
              /\ complexity' = DropPath(p)
      /\ UNCHANGED <<tables, canonical, byCanonical, info, jobs>>

\* Mutant: the id is the length after the append, plus one.
InternFilePastTheEnd(p) ==
  IF fileIDs[p] # 0 THEN UNCHANGED <<paths, fileIDs>>
  ELSE paths' = Append(paths, p) /\ fileIDs' = [fileIDs EXCEPT ![p] = Len(paths) + 2]
\* internFile gives a path the next id the first time it is seen.
InternFile(p) ==
  IF fileIDs[p] # 0 THEN UNCHANGED <<paths, fileIDs>>
  ELSE /\ Len(paths) < MaxFileIDs
       /\ paths' = Append(paths, p)
       /\ fileIDs' = [fileIDs EXCEPT ![p] = Len(paths) + 1]

\* Mutant: a string seen before gets a second id.
InternNameAnew(k) ==
  /\ Len(names) < MaxNameIDs
  /\ names' = Append(names, k)
  /\ nameIDs' = [nameIDs EXCEPT ![k] = Len(names) + 1]
InternName(k) ==
  IF nameIDs[k] # 0 THEN UNCHANGED <<names, nameIDs>>
  ELSE /\ Len(names) < MaxNameIDs
       /\ names' = Append(names, k)
       /\ nameIDs' = [nameIDs EXCEPT ![k] = Len(names) + 1]

\* An updated file is removed before it is inserted again.
UpdateBegin(p) ==
  LET fid == fileIDs[p]
      f == job.update[p]
  IN  /\ Looping /\ job.delete = {} /\ p \in Given(job.update)
      /\ InternFile(p)
      /\ job' = [job EXCEPT !.at = p, !.rest = UsagesOf[f]]
      /\ errors' = errors \ {p}
      /\ files' = [files EXCEPT ![fileIDs'[p]] = f]
      /\ IF fid = 0 THEN UNCHANGED <<postings, complexity>>
         ELSE /\ usages' = UsagesWithout(fid)
              /\ fileUsages' = FileUsagesWithout(fid)
              /\ complexity' = DropPath(p)
      /\ UNCHANGED <<names, nameIDs, canonical, byCanonical, fileMemory, info, jobs>>

\* An added file is inserted with nothing removed.  Replace goes in path order.
AddBegin(p) ==
  LET f == job.add[p]
  IN  /\ Looping /\ job.delete = {} /\ Given(job.update) = {} /\ p \in Given(job.add)
      /\ job.op = "replace" => p = FirstOf(Given(job.add))
      /\ InternFile(p)
      /\ job' = [job EXCEPT !.at = p, !.rest = UsagesOf[f]]
      /\ errors' = errors \ {p}
      /\ files' = [files EXCEPT ![fileIDs'[p]] = f]
      /\ UNCHANGED <<names, nameIDs, postings, canonical, byCanonical,
                     complexity, fileMemory, info, jobs>>

\* One occurrence: its name is interned, and the reference goes into the
\* postings and into their inverse.
InsertUsage ==
  LET u == Head(job.rest)
      fid == fileIDs[job.at]
  IN  /\ job.at # 0 /\ job.rest # <<>>
      /\ InternName(u.name)
      /\ usages' = [usages EXCEPT ![nameIDs'[u.name]][fid] = Append(@, u)]
      /\ fileUsages' = [fileUsages EXCEPT ![fid][nameIDs'[u.name]] = Append(@, u)]
      /\ job' = [job EXCEPT !.rest = Tail(@)]
      /\ UNCHANGED <<paths, fileIDs, files, canonical, byCanonical,
                     complexity, fileMemory, errors, info, jobs>>

InsertDone ==
  LET p == job.at
      f == files[fileIDs[p]]
  IN  /\ job.at # 0 /\ job.rest = <<>>
      /\ complexity' = Append(complexity, [file |-> p, value |-> ComplexityOf[f]])
      /\ fileMemory' = [fileMemory EXCEPT ![fileIDs[p]] = MemoryOf[f]]
      /\ job' = [job EXCEPT !.at = 0, !.update[p] = NoFacts, !.add[p] = NoFacts]
      /\ UNCHANGED <<tables, files, postings, canonical, byCanonical, errors, info, jobs>>

-----------------------------------------------------------------------------
(* enrich, and the publication.                                            *)

\* cmpComplexity: highest first, then by file.
Before(a, b) == a.value > b.value \/ (a.value = b.value /\ a.file < b.file)

\* sort.Slice: the same entries in an order that cmpComplexity allows.
SortComplexity ==
  \E at \in [DOMAIN complexity -> DOMAIN complexity] :
    /\ \A i \in DOMAIN complexity : \E j \in DOMAIN complexity : at[j] = i
    /\ complexity' = [i \in DOMAIN complexity |-> complexity[at[i]]]
    /\ \A i, j \in DOMAIN complexity : i < j => ~Before(complexity'[j], complexity'[i])

Used(n) == \E g \in FileIDs : usages[n][g] # <<>>

\* The files are done: Apply also sorts the complexity list, Replace does not.
EnrichBegin ==
  /\ Looping /\ job.delete = {} /\ Given(job.update) = {} /\ Given(job.add) = {}
  /\ errors' = errors \cup job.errs
  /\ IF job.op = "apply" THEN SortComplexity ELSE UNCHANGED complexity
  /\ byCanonical' = [n \in NameIDs |-> NoRefs]
  /\ job' = [job EXCEPT !.phase = "enrich", !.enrich = {n \in NameIDs : Used(n)}]
  /\ UNCHANGED <<tables, files, postings, canonical, fileMemory, info, jobs>>

IndexedFiles == {g \in FileIDs : files[g] # NoFacts}
DeclaringFiles(name) == {g \in IndexedFiles : DeclsOf[files[g]][name] > 0}

\* Mutant: a file that declares a name several times counts as one.
SoleDeclaringFile(name) == {g \in DeclaringFiles(name) : DeclaringFiles(name) = {g}}
\* The files with the one declaration of `name` in the repository: one or none.
SoleDeclaration(name) ==
  {g \in DeclaringFiles(name) : DeclaringFiles(name) = {g} /\ DeclsOf[files[g]][name] = 1}

\* All references of a name get the canonical key of its only declaration; a
\* name with none or several stays ambiguous.
EnrichName(n) ==
  LET name == names[n]
      sole == SoleDeclaration(name)
  IN  /\ job.phase = "enrich" /\ n \in job.enrich
      /\ \/ /\ sole = {}
            /\ canonical' = [canonical EXCEPT ![n] = 0]
            /\ UNCHANGED <<names, nameIDs, byCanonical>>
         \/ \E g \in sole :
              LET key == <<paths[g], name>>
              IN  /\ InternName(key)
                  /\ canonical' = [canonical EXCEPT ![n] = nameIDs'[key]]
                  /\ byCanonical' = [byCanonical EXCEPT ![nameIDs'[key]] =
                       [h \in FileIDs |-> @[h] \o usages[n][h]]]
      /\ job' = [job EXCEPT !.enrich = @ \ {n}]
      /\ UNCHANGED <<paths, fileIDs, files, postings, complexity, fileMemory,
                     errors, info, jobs>>

FilesMemory == MapThenSumSet(LAMBDA g : fileMemory[g], FileIDs)

\* Replace counts the files only; Apply also counts every interned name.
MemoryEstimate == FilesMemory + (IF job.op = "apply" THEN Len(names) ELSE 0)

OverLimit(m) == MemoryLimit > 0 /\ m > MemoryLimit

Publish ==
  /\ job.phase = "enrich" /\ job.enrich = {}
  /\ info' = [state   |-> IF OverLimit(MemoryEstimate) THEN "partial" ELSE "ready",
              files   |-> IF OverLimit(MemoryEstimate) THEN 0 ELSE Cardinality(IndexedFiles),
              memory  |-> MemoryEstimate,
              version |-> info.version + 1]
  /\ job' = NoJob
  /\ UNCHANGED <<tables, files, postings, canonical, byCanonical,
                 complexity, fileMemory, errors, jobs>>

Call ==
  \/ \E fs \in MaybeFiles, errs \in SUBSET Paths : ReplaceBegin(fs, errs)
  \/ \E del, errs \in SUBSET Paths, upd, add \in MaybeFiles : ApplyBegin(del, upd, add, errs)
  \/ SetState("refreshing")

Work ==
  \/ \E p \in Paths : Delete(p) \/ UpdateBegin(p) \/ AddBegin(p)
  \/ InsertUsage \/ InsertDone
  \/ EnrichBegin \/ Publish
  \/ \E n \in NameIDs : EnrichName(n)

Next == Call \/ Work

Spec == Init /\ [][Next]_vars

-----------------------------------------------------------------------------
(* What must hold.                                                         *)

Phases == {"files", "enrich"}
Jobs == [op: {"none", "replace", "apply"}, phase: Phases, delete: SUBSET Paths,
         update: MaybeFiles, add: MaybeFiles, errs: SUBSET Paths, at: Paths \cup {0},
         rest: Seq(Occurrences), enrich: SUBSET NameIDs]

\* Every map of the repo struct (store.go:134-149) has its type.
TypeOK ==
  /\ paths \in Seq(Paths) /\ Len(paths) <= MaxFileIDs
  /\ fileIDs \in [Paths -> FileIDs \cup {0}]
  /\ names \in Seq(Keys) /\ Len(names) <= MaxNameIDs
  /\ nameIDs \in [Keys -> NameIDs \cup {0}]
  /\ files \in [FileIDs -> Facts \cup {NoFacts}]
  /\ usages \in [NameIDs -> [FileIDs -> Seq(Occurrences)]]
  /\ fileUsages \in [FileIDs -> [NameIDs -> Seq(Occurrences)]]
  /\ canonical \in [NameIDs -> NameIDs \cup {0}]
  /\ byCanonical \in [NameIDs -> [FileIDs -> Seq(Occurrences)]]
  /\ fileMemory \in [FileIDs -> Nat]
  /\ errors \subseteq Paths
  /\ job \in Jobs

\* Interning is a bijection between the strings seen and the ids given out
\* (internFile, internName): an id never names two strings, through every
\* Replace that starts the tables again.
InterningIsBijective ==
  /\ \A p \in Paths : fileIDs[p] # 0 => fileIDs[p] <= Len(paths) /\ paths[fileIDs[p]] = p
  /\ \A i \in 1..Len(paths) : fileIDs[paths[i]] = i
  /\ \A k \in Keys : nameIDs[k] # 0 => nameIDs[k] <= Len(names) /\ names[nameIDs[k]] = k
  /\ \A i \in 1..Len(names) : nameIDs[names[i]] = i

\* remove can trust the per-file inverse (store.go:598): it lists exactly the
\* references the postings hold, and only indexed files have any.
InverseIsExact ==
  \A n \in NameIDs, g \in FileIDs :
    /\ usages[n][g] = fileUsages[g][n]
    /\ usages[n][g] # <<>> => files[g] # NoFacts

\* The loops of Apply and enrich never lose what they are working on: the file
\* being inserted is interned and in the index, an indexed file has a path,
\* and only names that still have references are enriched (store.go:622, 658).
JobAtHand ==
  /\ job.at # 0 => /\ job.phase = "files" /\ job.op # "none"
                   /\ fileIDs[job.at] # 0
                   /\ files[fileIDs[job.at]] # NoFacts
  /\ \A g \in FileIDs : files[g] # NoFacts => g <= Len(paths)
  /\ \A n \in job.enrich : job.phase = "enrich" /\ Used(n)

\* The references under a name are references of that name.
PostingsAreNamed ==
  \A n \in NameIDs, g \in FileIDs : \A i \in 1..Len(usages[n][g]) :
    n <= Len(names) /\ names[n] = usages[n][g][i].name

\* The declarations of a name in the repository, numbered in each file.
Declarations(name) == UNION {{g} \X (1..DeclsOf[files[g]][name]) : g \in IndexedFiles}

\* enrich (store.go:658) leaves no stale identity behind: a stamped name has
\* exactly one declaration, in the file its key names; an unstamped one has
\* none or several; and the canonical postings are those of the stamped names.
CanonicalIsSole ==
  job.op = "none" =>
    /\ \A n \in NameIDs : Used(n) =>
         IF Cardinality(Declarations(names[n])) # 1 THEN canonical[n] = 0
         ELSE \E g \in IndexedFiles :
                /\ DeclsOf[files[g]][names[n]] = 1
                /\ names[canonical[n]] = <<paths[g], names[n]>>
                /\ byCanonical[canonical[n]] = usages[n]
    /\ \A c \in NameIDs : (\E g \in FileIDs : byCanonical[c][g] # <<>>)
         => \E n \in NameIDs : Used(n) /\ canonical[n] = c

\* The list that Complexity ranks and cuts holds the function of every indexed
\* file, at its present complexity, and none of a path that left the index
\* (remove, store.go:610-616).  Its order is another matter: Apply sorts it and
\* Replace does not.
ComplexityIsIndexed ==
  job.op = "none" =>
    /\ \A g \in IndexedFiles :
         \E i \in 1..Len(complexity) :
           complexity[i] = [file |-> paths[g], value |-> ComplexityOf[files[g]]]
    /\ \A i \in 1..Len(complexity) : Indexed(complexity[i].file)
=============================================================================
