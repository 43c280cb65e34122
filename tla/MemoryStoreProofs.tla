------------------------- MODULE MemoryStoreProofs -------------------------
(***************************************************************************)
(* MemoryStore is right for any number of files, names and facts.          *)
(*                                                                         *)
(* IndInv, the inductive invariant of the postings: the types, the         *)
(* bijection of the interning tables, the exact inverse, the naming of the *)
(* postings, and what the loops of a call rely on (JobAtHand).  On top of  *)
(* it, ComplexityInv and CanonicalInv say the same of the complexity list  *)
(* and of the canonical identities at every step of a call.                *)
(*                                                                         *)
(* Serving, the invariant of the refinement: while a call is under way     *)
(* every path is either as it was or as the abstract call leaves it.  With *)
(* it, the store behind its lock is shown to implement IndexStoreSpec.     *)
(***************************************************************************)
EXTENDS MemoryStoreRefinement, FiniteSetTheorems, WellFoundedInduction, TLAPS

IndInv ==
  /\ TypeOK
  /\ InterningIsBijective
  /\ InverseIsExact
  /\ PostingsAreNamed
  /\ JobAtHand

\* Interning a path keeps the two file tables inverse of each other, and gives
\* the path an id.
LEMMA InternFileKeeps ==
  ASSUME TypeOK, InterningIsBijective, NEW p \in Paths, InternFile(p)
  PROVE  /\ paths' \in Seq(Paths) /\ Len(paths') <= MaxFileIDs
         /\ fileIDs' \in [Paths -> FileIDs \cup {0}]
         /\ fileIDs'[p] \in FileIDs
         /\ \A q \in Paths : fileIDs[q] # 0 => fileIDs'[q] = fileIDs[q]
         /\ \A q \in Paths : fileIDs'[q] # 0 => fileIDs'[q] <= Len(paths') /\ paths'[fileIDs'[q]] = q
         /\ \A i \in 1..Len(paths') : fileIDs'[paths'[i]] = i
<1>. MaxFileIDs \in Nat
  BY MemoryStoreAssumption
<1>. USE DEF FileIDs
<1>1. CASE fileIDs[p] # 0
  BY <1>1 DEF InternFile, TypeOK, InterningIsBijective
<1>2. CASE fileIDs[p] = 0
  <2>1. /\ paths' = Append(paths, p) /\ Len(paths') = Len(paths) + 1
        /\ fileIDs' = [fileIDs EXCEPT ![p] = Len(paths) + 1]
        /\ Len(paths) \in Nat /\ Len(paths) + 1 <= MaxFileIDs
    BY <1>2 DEF InternFile, TypeOK
  <2>2. \A i \in 1..Len(paths) : paths'[i] = paths[i] /\ paths[i] \in Paths
    BY <2>1 DEF TypeOK
  <2>3. paths'[Len(paths) + 1] = p
    BY <2>1 DEF TypeOK
  <2>4. \A i \in 1..Len(paths) : paths[i] # p
    BY <1>2 DEF TypeOK, InterningIsBijective
  <2>5. paths' \in Seq(Paths) /\ fileIDs' \in [Paths -> FileIDs \cup {0}]
    BY <2>1 DEF TypeOK
  <2>6. ASSUME NEW i \in 1..Len(paths') PROVE fileIDs'[paths'[i]] = i
    <3>1. fileIDs'[p] = Len(paths) + 1
      BY <2>1 DEF TypeOK
    <3>2. CASE i = Len(paths) + 1
      BY <2>3, <3>1, <3>2
    <3>3. CASE i \in 1..Len(paths)
      <4>1. paths'[i] = paths[i] /\ paths[i] \in Paths /\ paths[i] # p
        BY <2>2, <2>4, <3>3
      <4>2. fileIDs'[paths[i]] = fileIDs[paths[i]]
        BY <2>1, <4>1 DEF TypeOK
      <4>. QED
        BY <3>3, <4>1, <4>2 DEF InterningIsBijective
    <3>. QED
      BY <2>1, <3>2, <3>3
  <2>7. \A q \in Paths : fileIDs'[q] # 0 => fileIDs'[q] <= Len(paths') /\ paths'[fileIDs'[q]] = q
    BY <2>1, <2>2, <2>3 DEF TypeOK, InterningIsBijective
  <2>8. /\ fileIDs'[p] \in FileIDs
        /\ \A q \in Paths : fileIDs[q] # 0 => fileIDs'[q] = fileIDs[q]
    BY <1>2, <2>1 DEF TypeOK
  <2>. QED
    BY <2>1, <2>5, <2>6, <2>7, <2>8
<1>. QED
  BY <1>1, <1>2

\* The same for names; what was interned keeps its id and its string.
LEMMA InternNameKeeps ==
  ASSUME TypeOK, InterningIsBijective, NEW k \in Keys, InternName(k)
  PROVE  /\ names' \in Seq(Keys) /\ Len(names') <= MaxNameIDs
         /\ nameIDs' \in [Keys -> NameIDs \cup {0}]
         /\ nameIDs'[k] \in NameIDs /\ nameIDs'[k] <= Len(names')
         /\ names'[nameIDs'[k]] = k
         /\ Len(names) <= Len(names')
         /\ \A i \in 1..Len(names) : names'[i] = names[i]
         /\ \A q \in Keys : nameIDs'[q] # 0 => nameIDs'[q] <= Len(names') /\ names'[nameIDs'[q]] = q
         /\ \A i \in 1..Len(names') : nameIDs'[names'[i]] = i
<1>. MaxNameIDs \in Nat
  BY MemoryStoreAssumption
<1>. USE DEF NameIDs
<1>1. CASE nameIDs[k] # 0
  BY <1>1 DEF InternName, TypeOK, InterningIsBijective
<1>2. CASE nameIDs[k] = 0
  <2>1. /\ names' = Append(names, k) /\ Len(names') = Len(names) + 1
        /\ nameIDs' = [nameIDs EXCEPT ![k] = Len(names) + 1]
        /\ Len(names) \in Nat /\ Len(names) + 1 <= MaxNameIDs
    BY <1>2 DEF InternName, TypeOK
  <2>2. \A i \in 1..Len(names) : names'[i] = names[i] /\ names[i] \in Keys
    BY <2>1 DEF TypeOK
  <2>3. names'[Len(names) + 1] = k
    BY <2>1 DEF TypeOK
  <2>4. \A i \in 1..Len(names) : names[i] # k
    BY <1>2 DEF TypeOK, InterningIsBijective
  <2>5. names' \in Seq(Keys) /\ nameIDs' \in [Keys -> NameIDs \cup {0}]
    BY <2>1 DEF TypeOK
  <2>6. ASSUME NEW i \in 1..Len(names') PROVE nameIDs'[names'[i]] = i
    <3>1. nameIDs'[k] = Len(names) + 1
      BY <2>1 DEF TypeOK
    <3>2. CASE i = Len(names) + 1
      BY <2>3, <3>1, <3>2
    <3>3. CASE i \in 1..Len(names)
      <4>1. names'[i] = names[i] /\ names[i] \in Keys /\ names[i] # k
        BY <2>2, <2>4, <3>3
      <4>2. nameIDs'[names[i]] = nameIDs[names[i]]
        BY <2>1, <4>1 DEF TypeOK
      <4>. QED
        BY <3>3, <4>1, <4>2 DEF InterningIsBijective
    <3>. QED
      BY <2>1, <3>2, <3>3
  <2>7. \A q \in Keys : nameIDs'[q] # 0 => nameIDs'[q] <= Len(names') /\ names'[nameIDs'[q]] = q
    BY <2>1, <2>2, <2>3 DEF TypeOK, InterningIsBijective
  <2>8. nameIDs'[k] = Len(names) + 1 /\ nameIDs'[k] \in NameIDs
    BY <2>1 DEF TypeOK
  <2>9. names'[nameIDs'[k]] = k /\ nameIDs'[k] <= Len(names')
    BY <2>1, <2>3, <2>8
  <2>10. Len(names) <= Len(names') /\ Len(names') <= MaxNameIDs
    BY <2>1
  <2>. QED
    BY <2>2, <2>5, <2>6, <2>7, <2>8, <2>9, <2>10
<1>. QED
  BY <1>1, <1>2

\* remove takes a file's references out of the postings and of the inverse.
LEMMA RemoveKeeps ==
  ASSUME TypeOK, InverseIsExact, NEW fid \in FileIDs
  PROVE  /\ UsagesWithout(fid) \in [NameIDs -> [FileIDs -> Seq(Occurrences)]]
         /\ FileUsagesWithout(fid) \in [FileIDs -> [NameIDs -> Seq(Occurrences)]]
         /\ \A n \in NameIDs, g \in FileIDs :
              /\ UsagesWithout(fid)[n][g] = IF g = fid THEN <<>> ELSE usages[n][g]
              /\ FileUsagesWithout(fid)[g][n] = UsagesWithout(fid)[n][g]
<1>1. <<>> \in Seq(Occurrences)
  OBVIOUS
<1>2. UsagesWithout(fid) \in [NameIDs -> [FileIDs -> Seq(Occurrences)]]
  BY <1>1 DEF TypeOK, UsagesWithout
<1>3. FileUsagesWithout(fid) \in [FileIDs -> [NameIDs -> Seq(Occurrences)]]
  BY <1>1 DEF TypeOK, FileUsagesWithout
<1>4. ASSUME NEW n \in NameIDs, NEW g \in FileIDs
      PROVE  /\ UsagesWithout(fid)[n][g] = IF g = fid THEN <<>> ELSE usages[n][g]
             /\ FileUsagesWithout(fid)[g][n] = UsagesWithout(fid)[n][g]
  <2>1. usages[n][g] = fileUsages[g][n]
    BY DEF InverseIsExact
  <2>2. UsagesWithout(fid)[n][g] = IF g = fid THEN <<>> ELSE usages[n][g]
    BY <2>1 DEF UsagesWithout
  <2>3. FileUsagesWithout(fid)[g][n] = IF g = fid THEN <<>> ELSE fileUsages[g][n]
    BY DEF FileUsagesWithout, TypeOK
  <2>. QED
    BY <2>1, <2>2, <2>3
<1>. QED
  BY <1>2, <1>3, <1>4

\* The idle job, and the maps the calls are given, have their types.
LEMMA NoJobIsAJob == NoJob \in Jobs
<1>1. NoFilesMap \in MaybeFiles
  BY DEF NoFilesMap, MaybeFiles
<1>. QED
  BY <1>1 DEF NoJob, Jobs, Phases

\* The empty repository satisfies the invariant.
LEMMA InitInvariant == Init => IndInv
<1>. SUFFICES ASSUME Init PROVE IndInv
  OBVIOUS
<1>1. <<>> \in Seq(Paths) /\ <<>> \in Seq(Keys) /\ <<>> \in Seq(Occurrences) /\ Len(<<>>) = 0
  OBVIOUS
<1>2. MaxFileIDs \in Nat /\ MaxNameIDs \in Nat
  BY MemoryStoreAssumption
<1>3. TypeOK
  BY <1>1, <1>2, NoJobIsAJob DEF Init, TypeOK, NoRefs
<1>4. InterningIsBijective
  BY <1>1 DEF Init, InterningIsBijective
<1>5. InverseIsExact /\ PostingsAreNamed
  BY <1>1 DEF Init, InverseIsExact, PostingsAreNamed, NoRefs
<1>6. JobAtHand
  BY DEF Init, JobAtHand, NoJob
<1>. QED
  BY <1>3, <1>4, <1>5, <1>6 DEF IndInv

\* Replace forgets everything before its first insert.
LEMMA ReplaceBeginStep ==
  ASSUME IndInv, NEW fs \in MaybeFiles, NEW errs \in SUBSET Paths, ReplaceBegin(fs, errs)
  PROVE  IndInv'
<1>1. <<>> \in Seq(Paths) /\ <<>> \in Seq(Keys) /\ <<>> \in Seq(Occurrences) /\ Len(<<>>) = 0
  OBVIOUS
<1>2. MaxFileIDs \in Nat /\ MaxNameIDs \in Nat
  BY MemoryStoreAssumption
<1>3. job' \in Jobs
  BY NoJobIsAJob DEF ReplaceBegin, Jobs
<1>4. TypeOK'
  BY <1>1, <1>2, <1>3 DEF ReplaceBegin, TypeOK, NoRefs
<1>5. InterningIsBijective'
  BY <1>1 DEF ReplaceBegin, InterningIsBijective
<1>6. InverseIsExact' /\ PostingsAreNamed'
  BY <1>1 DEF ReplaceBegin, InverseIsExact, PostingsAreNamed, NoRefs
<1>7. job'.at = 0 /\ job'.enrich = {}
  BY NoJobIsAJob DEF ReplaceBegin, NoJob
<1>8. JobAtHand'
  BY <1>7 DEF ReplaceBegin, JobAtHand
<1>. QED
  BY <1>4, <1>5, <1>6, <1>8 DEF IndInv

\* A call of Apply or SetState, and the publication, touch no table.
LEMMA IdleTablesStep ==
  ASSUME IndInv,
         UNCHANGED <<tables, files, postings, canonical, byCanonical, fileMemory>>,
         errors' \subseteq Paths,
         job' \in Jobs,
         job'.at = 0,
         \A n \in job'.enrich : job'.phase = "enrich" /\ Used(n)
  PROVE  IndInv'
<1>. USE DEF tables, postings
<1>1. TypeOK'
  BY DEF IndInv, TypeOK
<1>2. InterningIsBijective'
  BY DEF IndInv, InterningIsBijective
<1>3. InverseIsExact' /\ PostingsAreNamed'
  BY DEF IndInv, InverseIsExact, PostingsAreNamed
<1>4. JobAtHand'
  BY DEF IndInv, JobAtHand, Used
<1>. QED
  BY <1>1, <1>2, <1>3, <1>4 DEF IndInv

LEMMA ApplyBeginStep ==
  ASSUME IndInv, NEW del \in SUBSET Paths, NEW errs \in SUBSET Paths,
         NEW upd \in MaybeFiles, NEW add \in MaybeFiles, ApplyBegin(del, upd, add, errs)
  PROVE  IndInv'
<1>1. job' \in Jobs
  BY NoJobIsAJob DEF ApplyBegin, Jobs
<1>2. job'.at = 0 /\ job'.enrich = {}
  BY NoJobIsAJob DEF ApplyBegin, NoJob
<1>3. errors' \subseteq Paths
  BY DEF ApplyBegin, IndInv, TypeOK
<1>. QED
  BY <1>1, <1>2, <1>3, IdleTablesStep DEF ApplyBegin

LEMMA PublishStep ==
  ASSUME IndInv, Publish
  PROVE  IndInv'
<1>1. job'.at = 0 /\ job'.enrich = {} /\ job' \in Jobs
  BY NoJobIsAJob DEF Publish, NoJob
<1>2. errors' \subseteq Paths
  BY DEF Publish, IndInv, TypeOK
<1>. QED
  BY <1>1, <1>2, IdleTablesStep DEF Publish

\* The names handed to enrich are those with references.
LEMMA EnrichBeginStep ==
  ASSUME IndInv, EnrichBegin
  PROVE  IndInv'
<1>1. job \in Jobs /\ job.at = 0
  BY DEF IndInv, TypeOK, EnrichBegin, Looping
<1>2. job' \in Jobs
  BY <1>1 DEF EnrichBegin, Jobs, Phases
<1>3. job'.at = 0 /\ job'.phase = "enrich" /\ job'.enrich = {n \in NameIDs : Used(n)}
  BY <1>1 DEF EnrichBegin, Jobs
<1>4. errors' \subseteq Paths
  BY <1>1 DEF EnrichBegin, IndInv, TypeOK, Jobs
<1>5. UNCHANGED <<tables, files, postings, canonical, fileMemory>>
  BY DEF EnrichBegin
<1>6. byCanonical' \in [NameIDs -> [FileIDs -> Seq(Occurrences)]]
  BY DEF EnrichBegin, NoRefs
<1>. USE DEF tables, postings
<1>7. TypeOK'
  BY <1>2, <1>4, <1>5, <1>6 DEF IndInv, TypeOK
<1>8. InterningIsBijective'
  BY <1>5 DEF IndInv, InterningIsBijective
<1>9. InverseIsExact' /\ PostingsAreNamed'
  BY <1>5 DEF IndInv, InverseIsExact, PostingsAreNamed
<1>10. JobAtHand'
  BY <1>3, <1>5 DEF IndInv, JobAtHand, Used
<1>. QED
  BY <1>7, <1>8, <1>9, <1>10 DEF IndInv

LEMMA SetStateStep ==
  ASSUME IndInv, NEW st, SetState(st)
  PROVE  IndInv'
<1>1. job' = job /\ job.op = "none" /\ job \in Jobs
  BY DEF SetState, MayCall, IndInv, TypeOK
<1>2. job'.at = 0 /\ \A n \in job'.enrich : job'.phase = "enrich" /\ Used(n)
  BY <1>1 DEF IndInv, JobAtHand
<1>3. errors' \subseteq Paths
  BY DEF SetState, IndInv, TypeOK
<1>. QED
  BY <1>1, <1>2, <1>3, IdleTablesStep DEF SetState

\* The references that remain are still those of their names.
LEMMA FewerPostingsAreNamed ==
  ASSUME PostingsAreNamed, UNCHANGED names,
         \A n \in NameIDs, g \in FileIDs : usages'[n][g] = <<>> \/ usages'[n][g] = usages[n][g]
  PROVE  PostingsAreNamed'
<1>. SUFFICES ASSUME NEW n \in NameIDs, NEW g \in FileIDs, NEW i \in 1..Len(usages'[n][g])
              PROVE  n <= Len(names') /\ names'[n] = usages'[n][g][i].name
  BY DEF PostingsAreNamed
<1>1. usages'[n][g] # <<>>
  OBVIOUS
<1>2. usages'[n][g] = usages[n][g]
  BY <1>1
<1>. QED
  BY <1>2 DEF PostingsAreNamed

LEMMA DeleteStep ==
  ASSUME IndInv, NEW p \in Paths, Delete(p)
  PROVE  IndInv'
<1>1. job \in Jobs /\ job.at = 0 /\ job.enrich = {}
  <2>1. job \in Jobs /\ job.at = 0 /\ job.phase = "files"
    BY DEF IndInv, TypeOK, Delete, Looping
  <2>. QED
    BY <2>1 DEF IndInv, JobAtHand, Jobs
<1>2. job' \in Jobs /\ job'.at = 0 /\ job'.enrich = {}
  BY <1>1 DEF Delete, Jobs
<1>3. UNCHANGED <<tables, canonical, byCanonical>> /\ errors' \subseteq Paths
  BY DEF Delete, IndInv, TypeOK
<1>4. CASE fileIDs[p] = 0
  <2>1. UNCHANGED <<files, postings, fileMemory>>
    BY <1>4 DEF Delete
  <2>. QED
    BY <1>2, <1>3, <2>1, IdleTablesStep
<1>5. CASE fileIDs[p] # 0
  <2> DEFINE fid == fileIDs[p]
  <2>1. fid \in FileIDs
    BY <1>5 DEF IndInv, TypeOK
  <2>2. /\ usages' = UsagesWithout(fid) /\ fileUsages' = FileUsagesWithout(fid)
        /\ files' = [files EXCEPT ![fid] = NoFacts]
        /\ fileMemory' = [fileMemory EXCEPT ![fid] = 0]
    BY <1>5 DEF Delete
  <2>3. /\ usages' \in [NameIDs -> [FileIDs -> Seq(Occurrences)]]
        /\ fileUsages' \in [FileIDs -> [NameIDs -> Seq(Occurrences)]]
        /\ \A n \in NameIDs, g \in FileIDs :
             /\ usages'[n][g] = IF g = fid THEN <<>> ELSE usages[n][g]
             /\ fileUsages'[g][n] = usages'[n][g]
    BY <2>1, <2>2, RemoveKeeps DEF IndInv
  <2>4. TypeOK'
    BY <1>2, <1>3, <2>1, <2>2, <2>3 DEF IndInv, TypeOK, tables
  <2>5. InterningIsBijective'
    BY <1>3 DEF IndInv, InterningIsBijective, tables
  <2>6. InverseIsExact'
    BY <2>1, <2>2, <2>3 DEF IndInv, InverseIsExact, TypeOK
  <2>7. PostingsAreNamed'
    BY <1>3, <2>3, FewerPostingsAreNamed DEF IndInv, tables
  <2>8. JobAtHand'
    BY <1>2, <1>3, <2>1, <2>2 DEF IndInv, JobAtHand, TypeOK, tables
  <2>. QED
    BY <2>4, <2>5, <2>6, <2>7, <2>8 DEF IndInv
<1>. QED
  BY <1>4, <1>5

\* What UpdateBegin and AddBegin share: the path is interned and its facts are
\* in the index, before the first of its occurrences is.
LEMMA FileEntersStep ==
  ASSUME IndInv, NEW p \in Paths, NEW f \in Facts, InternFile(p),
         Looping,
         job' \in Jobs, job'.at = p, job'.phase = "files", job'.op # "none",
         job'.enrich = {},
         errors' \subseteq Paths,
         files' = [files EXCEPT ![fileIDs'[p]] = f],
         UNCHANGED <<names, nameIDs, canonical, byCanonical, fileMemory>>,
         usages' \in [NameIDs -> [FileIDs -> Seq(Occurrences)]],
         fileUsages' \in [FileIDs -> [NameIDs -> Seq(Occurrences)]],
         \A n \in NameIDs, g \in FileIDs :
           /\ usages'[n][g] = <<>> \/ usages'[n][g] = usages[n][g]
           /\ fileUsages'[g][n] = usages'[n][g]
  PROVE  IndInv'
<1>1. /\ paths' \in Seq(Paths) /\ Len(paths') <= MaxFileIDs
      /\ fileIDs' \in [Paths -> FileIDs \cup {0}]
      /\ fileIDs'[p] \in FileIDs
      /\ \A q \in Paths : fileIDs'[q] # 0 => fileIDs'[q] <= Len(paths') /\ paths'[fileIDs'[q]] = q
      /\ \A i \in 1..Len(paths') : fileIDs'[paths'[i]] = i
  BY InternFileKeeps DEF IndInv
<1>2. TypeOK'
  BY <1>1 DEF IndInv, TypeOK
<1>3. InterningIsBijective'
  BY <1>1 DEF IndInv, InterningIsBijective
<1>4. NoFacts \notin Facts
  BY MemoryStoreAssumption
<1>5. InverseIsExact'
  BY <1>1, <1>4 DEF IndInv, InverseIsExact, TypeOK
<1>6. PostingsAreNamed'
  BY FewerPostingsAreNamed DEF IndInv
<1>7. Len(paths) <= Len(paths') /\ Len(paths) \in Nat /\ Len(paths') \in Nat
  BY <1>1 DEF InternFile, IndInv, TypeOK
<1>8. \A g \in FileIDs : files'[g] # NoFacts => g <= Len(paths')
  BY <1>1, <1>7 DEF IndInv, JobAtHand, TypeOK, FileIDs
<1>9. JobAtHand'
  BY <1>1, <1>4, <1>8 DEF IndInv, JobAtHand, TypeOK, FileIDs
<1>. QED
  BY <1>2, <1>3, <1>5, <1>6, <1>9 DEF IndInv

LEMMA UpdateBeginStep ==
  ASSUME IndInv, NEW p \in Paths, UpdateBegin(p)
  PROVE  IndInv'
<1> DEFINE f == job.update[p]
<1>1. job \in Jobs /\ job.at = 0 /\ job.phase = "files" /\ job.op # "none" /\ job.enrich = {}
  <2>1. job \in Jobs /\ job.at = 0 /\ job.phase = "files" /\ job.op # "none"
    BY DEF IndInv, TypeOK, UpdateBegin, Looping
  <2>. QED
    BY <2>1 DEF IndInv, JobAtHand, Jobs
<1>2. f \in Facts
  BY <1>1 DEF UpdateBegin, Given, Jobs, MaybeFiles
<1>3. UsagesOf[f] \in Seq(Occurrences)
  BY <1>2, MemoryStoreAssumption
<1>4. /\ job' \in Jobs /\ job'.at = p /\ job'.phase = "files" /\ job'.op # "none"
      /\ job'.enrich = {}
  BY <1>1, <1>3 DEF UpdateBegin, Jobs
<1>5. errors' \subseteq Paths
  BY DEF UpdateBegin, IndInv, TypeOK
<1>6. /\ usages' \in [NameIDs -> [FileIDs -> Seq(Occurrences)]]
      /\ fileUsages' \in [FileIDs -> [NameIDs -> Seq(Occurrences)]]
      /\ \A n \in NameIDs, g \in FileIDs :
           /\ usages'[n][g] = <<>> \/ usages'[n][g] = usages[n][g]
           /\ fileUsages'[g][n] = usages'[n][g]
  <2>1. CASE fileIDs[p] = 0
    <3>1. UNCHANGED <<usages, fileUsages>>
      BY <2>1 DEF UpdateBegin, postings
    <3>. QED
      BY <3>1 DEF IndInv, TypeOK, InverseIsExact
  <2>2. CASE fileIDs[p] # 0
    <3>1. fileIDs[p] \in FileIDs
      BY <2>2 DEF IndInv, TypeOK
    <3>2. /\ usages' = UsagesWithout(fileIDs[p])
          /\ fileUsages' = FileUsagesWithout(fileIDs[p])
      BY <2>2 DEF UpdateBegin
    <3>. QED
      BY <3>1, <3>2, RemoveKeeps DEF IndInv
  <2>. QED
    BY <2>1, <2>2
<1>. QED
  BY <1>2, <1>4, <1>5, <1>6, FileEntersStep DEF UpdateBegin

LEMMA AddBeginStep ==
  ASSUME IndInv, NEW p \in Paths, AddBegin(p)
  PROVE  IndInv'
<1> DEFINE f == job.add[p]
<1>1. job \in Jobs /\ job.at = 0 /\ job.phase = "files" /\ job.op # "none" /\ job.enrich = {}
  <2>1. job \in Jobs /\ job.at = 0 /\ job.phase = "files" /\ job.op # "none"
    BY DEF IndInv, TypeOK, AddBegin, Looping
  <2>. QED
    BY <2>1 DEF IndInv, JobAtHand, Jobs
<1>2. f \in Facts
  BY <1>1 DEF AddBegin, Given, Jobs, MaybeFiles
<1>3. UsagesOf[f] \in Seq(Occurrences)
  BY <1>2, MemoryStoreAssumption
<1>4. /\ job' \in Jobs /\ job'.at = p /\ job'.phase = "files" /\ job'.op # "none"
      /\ job'.enrich = {}
  BY <1>1, <1>3 DEF AddBegin, Jobs
<1>5. errors' \subseteq Paths
  BY DEF AddBegin, IndInv, TypeOK
<1>6. /\ usages' \in [NameIDs -> [FileIDs -> Seq(Occurrences)]]
      /\ fileUsages' \in [FileIDs -> [NameIDs -> Seq(Occurrences)]]
      /\ \A n \in NameIDs, g \in FileIDs :
           usages'[n][g] = usages[n][g] /\ fileUsages'[g][n] = usages'[n][g]
  BY DEF AddBegin, IndInv, TypeOK, InverseIsExact, postings
<1>7. /\ InternFile(p) /\ Looping
      /\ files' = [files EXCEPT ![fileIDs'[p]] = f]
      /\ UNCHANGED <<names, nameIDs, canonical, byCanonical, fileMemory>>
  BY DEF AddBegin
<1> HIDE DEF f
<1>. QED
  BY <1>2, <1>4, <1>5, <1>6, <1>7, FileEntersStep

\* One occurrence goes under the id of its own name, in both maps.
LEMMA InsertUsageStep ==
  ASSUME IndInv, InsertUsage
  PROVE  IndInv'
<1> DEFINE u == Head(job.rest)
           fid == fileIDs[job.at]
           m == nameIDs'[u.name]
<1>1. job \in Jobs /\ job.at # 0 /\ job.rest # <<>> /\ job.rest \in Seq(Occurrences) /\ job.at \in Paths
  BY DEF IndInv, TypeOK, InsertUsage, Jobs
<1>2. u \in Occurrences /\ Tail(job.rest) \in Seq(Occurrences)
  BY <1>1
<1>3. u.name \in Keys
  BY <1>2 DEF Occurrences, Keys
<1>4. /\ job.phase = "files" /\ job.op # "none"
      /\ fid \in FileIDs /\ files[fid] # NoFacts /\ job.enrich = {}
  <2>1. job.phase = "files" /\ job.op # "none" /\ fid # 0 /\ files[fid] # NoFacts
    BY <1>1 DEF IndInv, JobAtHand
  <2>2. fid \in FileIDs
    BY <1>1, <2>1 DEF IndInv, TypeOK
  <2>. QED
    BY <1>1, <2>1, <2>2 DEF IndInv, JobAtHand, Jobs
<1>5. /\ names' \in Seq(Keys) /\ Len(names') <= MaxNameIDs
      /\ nameIDs' \in [Keys -> NameIDs \cup {0}]
      /\ m \in NameIDs /\ m <= Len(names') /\ names'[m] = u.name
      /\ Len(names) <= Len(names')
      /\ \A i \in 1..Len(names) : names'[i] = names[i]
      /\ \A q \in Keys : nameIDs'[q] # 0 => nameIDs'[q] <= Len(names') /\ names'[nameIDs'[q]] = q
      /\ \A i \in 1..Len(names') : nameIDs'[names'[i]] = i
  BY Zenon, <1>3, InternNameKeeps DEF IndInv, InsertUsage
<1>6. /\ job' \in Jobs /\ job'.at = job.at /\ job'.phase = "files" /\ job'.op # "none"
      /\ job'.enrich = {}
  BY Zenon, <1>1, <1>2, <1>4 DEF InsertUsage, Jobs
<1>7. /\ usages' = [usages EXCEPT ![m][fid] = Append(@, u)]
      /\ fileUsages' = [fileUsages EXCEPT ![fid][m] = Append(@, u)]
      /\ UNCHANGED <<paths, fileIDs, files, canonical, byCanonical, fileMemory, errors>>
  BY Zenon DEF InsertUsage
<1>8. /\ \A n \in NameIDs, g \in FileIDs :
           usages'[n][g] = IF n = m /\ g = fid THEN Append(usages[m][fid], u) ELSE usages[n][g]
      /\ \A n \in NameIDs, g \in FileIDs :
           fileUsages'[g][n] = IF n = m /\ g = fid THEN Append(fileUsages[fid][m], u)
                                                    ELSE fileUsages[g][n]
  BY Zenon, <1>4, <1>5, <1>7 DEF IndInv, TypeOK
<1>9. usages[m][fid] \in Seq(Occurrences) /\ fileUsages[fid][m] \in Seq(Occurrences)
  <2>1. /\ usages \in [NameIDs -> [FileIDs -> Seq(Occurrences)]]
        /\ fileUsages \in [FileIDs -> [NameIDs -> Seq(Occurrences)]]
    BY DEF IndInv, TypeOK
  <2>. HIDE DEF m, fid
  <2>. QED
    BY <1>4, <1>5, <2>1
<1>10. Append(usages[m][fid], u) \in Seq(Occurrences) /\ Append(fileUsages[fid][m], u) \in Seq(Occurrences)
  BY <1>2, <1>9
<1>11. TypeOK'
  <2>1. usages' \in [NameIDs -> [FileIDs -> Seq(Occurrences)]]
    BY Zenon, <1>4, <1>5, <1>7, <1>10 DEF IndInv, TypeOK
  <2>2. fileUsages' \in [FileIDs -> [NameIDs -> Seq(Occurrences)]]
    BY Zenon, <1>4, <1>5, <1>7, <1>10 DEF IndInv, TypeOK
  <2>. QED
    BY Zenon, <1>5, <1>6, <1>7, <2>1, <2>2 DEF IndInv, TypeOK
<1>12. InterningIsBijective'
  BY Zenon, <1>5, <1>7 DEF IndInv, InterningIsBijective
<1>13. InverseIsExact'
  <2>. SUFFICES ASSUME NEW n \in NameIDs, NEW g \in FileIDs
                PROVE  /\ usages'[n][g] = fileUsages'[g][n]
                       /\ usages'[n][g] # <<>> => files'[g] # NoFacts
    BY DEF InverseIsExact
  <2>1. usages[n][g] = fileUsages[g][n] /\ (usages[n][g] # <<>> => files[g] # NoFacts)
    BY DEF IndInv, InverseIsExact
  <2>2. CASE n = m /\ g = fid
    <3>1. usages'[n][g] = Append(usages[n][g], u) /\ fileUsages'[g][n] = Append(fileUsages[g][n], u)
      BY Zenon, <1>8, <2>2
    <3>2. files'[g] # NoFacts
      BY Zenon, <1>4, <1>7, <2>2
    <3>. HIDE DEF u
    <3>. QED
      BY <2>1, <3>1, <3>2
  <2>3. CASE ~(n = m /\ g = fid)
    <3>1. usages'[n][g] = usages[n][g] /\ fileUsages'[g][n] = fileUsages[g][n]
      BY <1>8, <2>3
    <3>. QED
      BY Zenon, <1>7, <2>1, <3>1
  <2>. QED
    BY <2>2, <2>3
<1>14. PostingsAreNamed'
  <2>. SUFFICES ASSUME NEW n \in NameIDs, NEW g \in FileIDs, NEW i \in 1..Len(usages'[n][g])
                PROVE  n <= Len(names') /\ names'[n] = usages'[n][g][i].name
    BY DEF PostingsAreNamed
  <2>1. ASSUME NEW j \in 1..Len(usages[n][g])
        PROVE  n <= Len(names') /\ names'[n] = usages[n][g][j].name
    <3>1. n <= Len(names) /\ names[n] = usages[n][g][j].name
      BY DEF IndInv, PostingsAreNamed
    <3>2. n \in 1..Len(names) /\ Len(names) \in Nat /\ Len(names') \in Nat
      BY <1>5, <3>1 DEF IndInv, TypeOK, NameIDs
    <3>. QED
      BY <1>5, <3>1, <3>2
  <2>2. CASE n = m /\ g = fid
    <3>1. usages'[n][g] = Append(usages[n][g], u) /\ usages[n][g] \in Seq(Occurrences)
      BY Zenon, <1>8, <1>9, <2>2
    <3>2. CASE i <= Len(usages[n][g])
      <4>1. usages'[n][g][i] = usages[n][g][i] /\ i \in 1..Len(usages[n][g])
        BY <3>1, <3>2
      <4>. QED
        BY <2>1, <4>1
    <3>3. CASE i = Len(usages[n][g]) + 1
      <4>1. usages'[n][g][i] = u
        BY <3>1, <3>3
      <4>. QED
        BY <1>5, <2>2, <4>1
    <3>. QED
      BY <3>1, <3>2, <3>3
  <2>3. CASE ~(n = m /\ g = fid)
    <3>1. usages'[n][g] = usages[n][g]
      BY <1>8, <2>3
    <3>. QED
      BY <2>1, <3>1
  <2>. QED
    BY <2>2, <2>3
<1>15. JobAtHand'
  BY Zenon, <1>4, <1>6, <1>7 DEF IndInv, JobAtHand
<1>. QED
  BY <1>11, <1>12, <1>13, <1>14, <1>15 DEF IndInv

\* The estimate of the finished file is recorded, and the loop moves on.
LEMMA InsertDoneStep ==
  ASSUME IndInv, InsertDone
  PROVE  IndInv'
<1>1. job \in Jobs /\ job.at # 0 /\ job.at \in Paths
  BY DEF IndInv, TypeOK, InsertDone, Jobs
<1>2. fileIDs[job.at] \in FileIDs /\ files[fileIDs[job.at]] \in Facts /\ job.enrich = {}
  <2>1. job.phase = "files" /\ fileIDs[job.at] # 0 /\ files[fileIDs[job.at]] # NoFacts
    BY <1>1 DEF IndInv, JobAtHand
  <2>2. fileIDs[job.at] \in FileIDs
    BY <1>1, <2>1 DEF IndInv, TypeOK
  <2>3. files[fileIDs[job.at]] \in Facts
    BY <2>1, <2>2 DEF IndInv, TypeOK
  <2>. QED
    BY <1>1, <2>1, <2>2, <2>3 DEF IndInv, JobAtHand, Jobs
<1>3. MemoryOf[files[fileIDs[job.at]]] \in Nat
  BY <1>2, MemoryStoreAssumption
<1>4. job'.at = 0 /\ job'.enrich = {} /\ job' \in Jobs
  <2>1. job.update \in MaybeFiles /\ job.add \in MaybeFiles
    BY <1>1 DEF Jobs
  <2>2. /\ [job.update EXCEPT ![job.at] = NoFacts] \in MaybeFiles
        /\ [job.add EXCEPT ![job.at] = NoFacts] \in MaybeFiles
    BY <2>1 DEF MaybeFiles
  <2>3. job' = [job EXCEPT !.at = 0, !.update = [job.update EXCEPT ![job.at] = NoFacts],
                                     !.add = [job.add EXCEPT ![job.at] = NoFacts]]
    BY <1>1 DEF InsertDone, Jobs
  <2>4. job' \in Jobs
    BY <1>1, <2>2, <2>3 DEF Jobs
  <2>5. job'.at = 0 /\ job'.enrich = job.enrich
    BY <1>1, <2>3 DEF Jobs
  <2>. QED
    BY <1>2, <2>4, <2>5
<1>5. /\ fileMemory' = [fileMemory EXCEPT ![fileIDs[job.at]] = MemoryOf[files[fileIDs[job.at]]]]
      /\ UNCHANGED <<tables, files, postings, canonical, byCanonical, errors>>
  BY DEF InsertDone
<1>. USE DEF tables, postings
<1>6. TypeOK'
  BY <1>2, <1>3, <1>4, <1>5 DEF IndInv, TypeOK
<1>7. InterningIsBijective' /\ InverseIsExact' /\ PostingsAreNamed'
  BY <1>5 DEF IndInv, InterningIsBijective, InverseIsExact, PostingsAreNamed
<1>8. JobAtHand'
  BY <1>4, <1>5 DEF IndInv, JobAtHand
<1>. QED
  BY <1>6, <1>7, <1>8 DEF IndInv

\* A used name is an identifier: its references carry it.
LEMMA UsedNameIsAnIdentifier ==
  ASSUME TypeOK, PostingsAreNamed, NEW n \in NameIDs, Used(n)
  PROVE  names[n] \in Names
<1>1. PICK g \in FileIDs : usages[n][g] # <<>>
  BY DEF Used
<1>2. usages[n][g] \in Seq(Occurrences)
  BY DEF TypeOK
<1>3. 1 \in 1..Len(usages[n][g]) /\ usages[n][g][1] \in Occurrences
  BY <1>1, <1>2
<1>4. names[n] = usages[n][g][1].name
  BY <1>3 DEF PostingsAreNamed
<1>. QED
  BY <1>3, <1>4 DEF Occurrences

\* A canonical key is interned beside the identifiers; no reference moves.
LEMMA EnrichNameStep ==
  ASSUME IndInv, NEW n \in NameIDs, EnrichName(n)
  PROVE  IndInv'
<1>1. /\ job \in Jobs /\ job.phase = "enrich" /\ n \in job.enrich
      /\ job' = [job EXCEPT !.enrich = job.enrich \ {n}]
      /\ UNCHANGED <<paths, fileIDs, files, usages, fileUsages, fileMemory, errors>>
  BY DEF EnrichName, IndInv, TypeOK, postings
<1>2. job' \in Jobs /\ job'.at = job.at /\ job'.phase = "enrich" /\ job'.enrich \subseteq job.enrich
  BY <1>1 DEF Jobs
<1>3. job.at = 0
  BY <1>1 DEF IndInv, JobAtHand
<1>4. JobAtHand'
  BY <1>1, <1>2, <1>3 DEF IndInv, JobAtHand, Used
<1>5. InverseIsExact'
  BY <1>1 DEF IndInv, InverseIsExact
<1>6. CASE UNCHANGED <<names, nameIDs, byCanonical>> /\ canonical' = [canonical EXCEPT ![n] = 0]
  <2>1. TypeOK'
    BY <1>1, <1>2, <1>6 DEF IndInv, TypeOK
  <2>2. InterningIsBijective' /\ PostingsAreNamed'
    BY <1>1, <1>6 DEF IndInv, InterningIsBijective, PostingsAreNamed
  <2>. QED
    BY <1>4, <1>5, <2>1, <2>2 DEF IndInv
<1>7. ASSUME NEW g \in SoleDeclaration(names[n]),
             InternName(<<paths[g], names[n]>>),
             canonical' = [canonical EXCEPT ![n] = nameIDs'[<<paths[g], names[n]>>]],
             byCanonical' = [byCanonical EXCEPT ![nameIDs'[<<paths[g], names[n]>>]] =
                              [h \in FileIDs |-> @[h] \o usages[n][h]]]
      PROVE  IndInv'
  <2> DEFINE key == <<paths[g], names[n]>>
             c == nameIDs'[key]
  <2>1. key \in Keys
    <3>1. g \in FileIDs /\ files[g] # NoFacts
      BY DEF SoleDeclaration, DeclaringFiles, IndexedFiles
    <3>2. g \in 1..Len(paths)
      BY <3>1 DEF IndInv, JobAtHand, TypeOK, FileIDs
    <3>3. paths[g] \in Paths
      BY <3>2 DEF IndInv, TypeOK
    <3>4. names[n] \in Names
      BY <1>1, UsedNameIsAnIdentifier DEF IndInv, JobAtHand
    <3>. QED
      BY <3>3, <3>4 DEF Keys, CanonicalKeys
  <2>2. /\ names' \in Seq(Keys) /\ Len(names') <= MaxNameIDs
        /\ nameIDs' \in [Keys -> NameIDs \cup {0}]
        /\ c \in NameIDs
        /\ Len(names) <= Len(names')
        /\ \A i \in 1..Len(names) : names'[i] = names[i]
        /\ \A q \in Keys : nameIDs'[q] # 0 => nameIDs'[q] <= Len(names') /\ names'[nameIDs'[q]] = q
        /\ \A i \in 1..Len(names') : nameIDs'[names'[i]] = i
    BY <1>7, <2>1, InternNameKeeps DEF IndInv
  <2>3. canonical' \in [NameIDs -> NameIDs \cup {0}]
    BY <1>7, <2>2 DEF IndInv, TypeOK
  <2>4. byCanonical' \in [NameIDs -> [FileIDs -> Seq(Occurrences)]]
    <3>1. byCanonical[c] \in [FileIDs -> Seq(Occurrences)] /\ usages[n] \in [FileIDs -> Seq(Occurrences)]
      BY <2>2 DEF IndInv, TypeOK
    <3>2. ASSUME NEW h \in FileIDs
          PROVE  byCanonical[c][h] \o usages[n][h] \in Seq(Occurrences)
      <4>1. byCanonical[c][h] \in Seq(Occurrences) /\ usages[n][h] \in Seq(Occurrences)
        BY <3>1
      <4>. QED
        BY <4>1
    <3>3. byCanonical' = [byCanonical EXCEPT ![c] = [h \in FileIDs |-> byCanonical[c][h] \o usages[n][h]]]
      BY <1>7
    <3>. HIDE DEF c
    <3>. QED
      BY <2>2, <3>2, <3>3 DEF IndInv, TypeOK
  <2>5. TypeOK'
    BY <1>1, <1>2, <2>2, <2>3, <2>4 DEF IndInv, TypeOK
  <2>6. InterningIsBijective'
    BY <1>1, <2>2 DEF IndInv, InterningIsBijective
  <2>7. PostingsAreNamed'
    <3>. SUFFICES ASSUME NEW k \in NameIDs, NEW h \in FileIDs, NEW j \in 1..Len(usages[k][h])
                  PROVE  k <= Len(names') /\ names'[k] = usages[k][h][j].name
      BY <1>1 DEF PostingsAreNamed
    <3>1. k <= Len(names) /\ names[k] = usages[k][h][j].name
      BY DEF IndInv, PostingsAreNamed
    <3>2. k \in 1..Len(names) /\ Len(names) \in Nat /\ Len(names') \in Nat
      <4>1. Len(names) \in Nat /\ k \in Nat /\ 1 <= k
        BY DEF IndInv, TypeOK, NameIDs
      <4>2. Len(names') \in Nat
        BY <2>2
      <4>. QED
        BY <3>1, <4>1, <4>2
    <3>. QED
      BY <2>2, <3>1, <3>2
  <2>. QED
    BY <1>4, <1>5, <2>5, <2>6, <2>7 DEF IndInv
<1>. QED
  BY Zenon, <1>6, <1>7 DEF EnrichName

\* The invariant is inductive: every step of every call keeps it.
LEMMA NextKeepsInvariant == IndInv /\ [Next]_vars => IndInv'
<1>. SUFFICES ASSUME IndInv, [Next]_vars PROVE IndInv'
  OBVIOUS
<1>1. ASSUME NEW fs \in MaybeFiles, NEW errs \in SUBSET Paths, ReplaceBegin(fs, errs) PROVE IndInv'
  BY <1>1, ReplaceBeginStep
<1>2. ASSUME NEW del \in SUBSET Paths, NEW errs \in SUBSET Paths,
             NEW upd \in MaybeFiles, NEW add \in MaybeFiles, ApplyBegin(del, upd, add, errs)
      PROVE IndInv'
  BY <1>2, ApplyBeginStep
<1>3. CASE SetState("refreshing")
  BY <1>3, SetStateStep
<1>4. ASSUME NEW p \in Paths, Delete(p) PROVE IndInv'
  BY <1>4, DeleteStep
<1>5. ASSUME NEW p \in Paths, UpdateBegin(p) PROVE IndInv'
  BY <1>5, UpdateBeginStep
<1>6. ASSUME NEW p \in Paths, AddBegin(p) PROVE IndInv'
  BY <1>6, AddBeginStep
<1>7. CASE InsertUsage
  BY <1>7, InsertUsageStep
<1>8. CASE InsertDone
  BY <1>8, InsertDoneStep
<1>9. CASE EnrichBegin
  BY <1>9, EnrichBeginStep
<1>10. ASSUME NEW n \in NameIDs, EnrichName(n) PROVE IndInv'
  BY <1>10, EnrichNameStep
<1>11. CASE Publish
  BY <1>11, PublishStep
<1>12. CASE UNCHANGED vars
  <2>. USE <1>12 DEF vars, tables, postings
  <2>1. TypeOK' /\ InterningIsBijective'
    BY DEF IndInv, TypeOK, InterningIsBijective
  <2>2. InverseIsExact' /\ PostingsAreNamed' /\ JobAtHand'
    BY DEF IndInv, InverseIsExact, PostingsAreNamed, JobAtHand, Used
  <2>. QED
    BY <2>1, <2>2 DEF IndInv
<1>. QED
  BY <1>1, <1>2, <1>3, <1>4, <1>5, <1>6, <1>7, <1>8, <1>9, <1>10, <1>11, <1>12
  DEF Next, Call, Work

\* MemoryStore keeps IndInv under any sequence of Replace, Apply and SetState.
THEOREM InvariantHolds == Spec => []IndInv
<1>. QED
  BY InitInvariant, NextKeepsInvariant, PTL DEF Spec

\* Every field of the repo struct (store.go:134-149) keeps its type.
THEOREM TypeCorrect == Spec => []TypeOK
<1>1. IndInv => TypeOK
  BY DEF IndInv
<1>. QED
  BY <1>1, InvariantHolds, PTL

\* internFile and internName (store.go:168-189) give one id to one string.
THEOREM InterningBijective == Spec => []InterningIsBijective
<1>1. IndInv => InterningIsBijective
  BY DEF IndInv
<1>. QED
  BY <1>1, InvariantHolds, PTL

\* The inverse that remove goes through (store.go:598-619) lists exactly the
\* references the postings hold, so remove can neither miss nor invent one.
THEOREM InverseExact == Spec => []InverseIsExact
<1>1. IndInv => InverseIsExact
  BY DEF IndInv
<1>. QED
  BY <1>1, InvariantHolds, PTL

\* Every reference listed under a name is a reference of that name
\* (store.go:622-652), through removals, re-insertions and re-interning.
THEOREM PostingsNamed == Spec => []PostingsAreNamed
<1>1. IndInv => PostingsAreNamed
  BY DEF IndInv
<1>. QED
  BY <1>1, InvariantHolds, PTL

\* What the loops of Apply and enrich work on is there when they reach it
\* (store.go:622, 658).
THEOREM WorkIsAtHand == Spec => []JobAtHand
<1>1. IndInv => JobAtHand
  BY DEF IndInv
<1>. QED
  BY <1>1, InvariantHolds, PTL

-----------------------------------------------------------------------------
(* Induction.  A set of naturals that is not empty has a least element: the *)
(* segments 0..n are finite sets, and strict inclusion among those is       *)
(* well-founded.                                                            *)

LEMMA LeastNatural ==
  ASSUME NEW T, T \subseteq Nat, T # {}
  PROVE  \E m \in T : \A k \in T : m <= k
<1> DEFINE R == StrictSubsetOrdering(Nat)
           F == FiniteSubsetsOf(Nat)
           S == {0..n : n \in T}
<1>1. IsWellFoundedOn(R, F)
  BY FS_StrictSubsetOrderingWellFounded
<1>2. S \subseteq F
  <2> SUFFICES ASSUME NEW n \in T PROVE 0..n \in F
    OBVIOUS
  <2>1. IsFiniteSet(0..n)
    BY FS_Interval
  <2> QED
    BY <2>1 DEF FiniteSubsetsOf
<1>3. S # {}
  OBVIOUS
<1> HIDE DEF R, F, S
<1>4. PICK x \in S : \A y \in S : ~(<<y, x>> \in R)
  BY <1>1, <1>2, <1>3, WFMin
<1>5. PICK m \in T : x = 0..m
  BY <1>4 DEF S
<1>6. ASSUME NEW k \in T, k < m PROVE FALSE
  <2>1. 0..k \in S
    BY DEF S
  <2>2. 0..k \subseteq 0..m /\ 0..k # 0..m
    <3>1. m \in 0..m /\ m \notin 0..k
      BY <1>6
    <3> QED
      BY <1>6, <3>1
  <2>3. <<0..k, x>> \in R
    BY <1>5, <2>2 DEF R, StrictSubsetOrdering
  <2> QED
    BY <1>4, <2>1, <2>3
<1> QED
  BY <1>6

-----------------------------------------------------------------------------
(* The complexity list.                                                    *)

Entries == [file: Paths, value: Nat]

\* `out` of DropPath, at every turn of its loop.
IsFiltered(out, s, p) ==
  out = [i \in 0..Len(s) |-> IF i = 0 THEN <<>>
                             ELSE IF s[i].file # p THEN Append(out[i - 1], s[i]) ELSE out[i - 1]]

\* The list after i turns: what it holds, and where that comes from.
Filtered(t, s, p, i) ==
  /\ t \in Seq(Entries)
  /\ \A k \in 1..Len(t) : t[k].file # p /\ \E j \in 1..i : t[k] = s[j]
  /\ \A j \in 1..i : s[j].file # p => \E k \in 1..Len(t) : t[k] = s[j]

LEMMA FilterTurn ==
  ASSUME NEW s \in Seq(Entries), NEW p, NEW i \in 1..Len(s), NEW t, Filtered(t, s, p, i - 1)
  PROVE  Filtered(IF s[i].file # p THEN Append(t, s[i]) ELSE t, s, p, i)
<1>1. i \in Nat /\ s[i] \in Entries /\ t \in Seq(Entries)
  BY DEF Filtered
<1>2. CASE s[i].file # p
  <2> DEFINE u == Append(t, s[i])
  <2>1. u \in Seq(Entries) /\ Len(u) = Len(t) + 1 /\ u[Len(t) + 1] = s[i] /\ Len(t) \in Nat
    BY <1>1
  <2>2. \A k \in 1..Len(t) : u[k] = t[k]
    BY <1>1
  <2> HIDE DEF u
  <2>3. \A k \in 1..Len(u) : u[k].file # p /\ \E j \in 1..i : u[k] = s[j]
    <3> TAKE k \in 1..Len(u)
    <3>1. CASE k \in 1..Len(t)
      <4>1. PICK j \in 1..i - 1 : t[k] = s[j]
        BY <3>1 DEF Filtered
      <4>2. j \in 1..i
        BY <1>1
      <4>3. t[k].file # p
        BY <3>1 DEF Filtered
      <4> QED
        BY <2>2, <3>1, <4>1, <4>2, <4>3
    <3>2. CASE k = Len(t) + 1
      BY <1>1, <1>2, <2>1, <3>2
    <3> QED
      BY <2>1, <3>1, <3>2
  <2>4. \A j \in 1..i : s[j].file # p => \E k \in 1..Len(u) : u[k] = s[j]
    <3> SUFFICES ASSUME NEW j \in 1..i, s[j].file # p
                 PROVE  \E k \in 1..Len(u) : u[k] = s[j]
      OBVIOUS
    <3>1. CASE j = i
      BY <2>1, <3>1
    <3>2. CASE j # i
      <4>1. j \in 1..i - 1
        BY <1>1, <3>2
      <4>2. PICK k \in 1..Len(t) : t[k] = s[j]
        BY <4>1 DEF Filtered
      <4>3. k \in 1..Len(u)
        BY <2>1
      <4> QED
        BY <2>2, <4>2, <4>3
    <3> QED
      BY <3>1, <3>2
  <2>5. Filtered(u, s, p, i)
    BY <2>1, <2>3, <2>4 DEF Filtered
  <2> QED
    BY <1>2, <2>5 DEF u
<1>3. CASE s[i].file = p
  <2>1. \A k \in 1..Len(t) : t[k].file # p /\ \E j \in 1..i : t[k] = s[j]
    <3> TAKE k \in 1..Len(t)
    <3>1. PICK j \in 1..i - 1 : t[k] = s[j]
      BY DEF Filtered
    <3>2. j \in 1..i
      BY <1>1
    <3> QED
      BY <3>1, <3>2 DEF Filtered
  <2>2. \A j \in 1..i : s[j].file # p => \E k \in 1..Len(t) : t[k] = s[j]
    <3> SUFFICES ASSUME NEW j \in 1..i, s[j].file # p
                 PROVE  \E k \in 1..Len(t) : t[k] = s[j]
      OBVIOUS
    <3>1. j \in 1..i - 1
      BY <1>1, <1>3
    <3> QED
      BY <3>1 DEF Filtered
  <2> QED
    BY <1>1, <1>3, <2>1, <2>2 DEF Filtered
<1> QED
  BY <1>2, <1>3

\* The loop has a result: a least number of turns without one would have a
\* result one turn earlier.
LEMMA FilterExists ==
  ASSUME NEW s \in Seq(Entries), NEW p
  PROVE  \E out : IsFiltered(out, s, p)
<1> DEFINE IsUpto(out, m) ==
             out = [i \in 0..m |-> IF i = 0 THEN <<>>
                                   ELSE IF s[i].file # p THEN Append(out[i - 1], s[i])
                                   ELSE out[i - 1]]
           T == {m \in Nat : ~\E out : IsUpto(out, m)}
<1>1. T = {}
  <2> SUFFICES ASSUME T # {} PROVE FALSE
    OBVIOUS
  <2>1. PICK m \in T : \A k \in T : m <= k
    BY LeastNatural
  <2>2. CASE m = 0
    <3> DEFINE out == [i \in 0..0 |-> <<>>]
    <3>1. IsUpto(out, 0)
      OBVIOUS
    <3> QED
      BY <2>2, <3>1
  <2>3. CASE m # 0
    <3>1. m \in Nat /\ m - 1 \in Nat /\ m - 1 \notin T
      <4>1. m \in Nat
        BY <2>1
      <4> HIDE DEF T
      <4> QED
        BY <2>1, <2>3, <4>1
    <3>2. PICK before : IsUpto(before, m - 1)
      BY <3>1
    <3> DEFINE turn == IF s[m].file # p THEN Append(before[m - 1], s[m]) ELSE before[m - 1]
               out == [i \in 0..m |-> IF i = m THEN turn ELSE before[i]]
    <3>3. \A i \in 0..m - 1 : before[i] = IF i = 0 THEN <<>>
                                   ELSE IF s[i].file # p THEN Append(before[i - 1], s[i])
                                   ELSE before[i - 1]
      BY <3>2
    <3>4. \A i \in 0..m : i # m => i \in 0..m - 1 /\ out[i] = before[i]
      BY <3>1
    <3>5. \A i \in 0..m : i # 0 => i - 1 \in 0..m - 1 /\ out[i - 1] = before[i - 1]
      BY <3>1
    <3>6. out[m] = turn
      BY <3>1
    <3> HIDE DEF turn
    <3>7. out = [i \in 0..m |-> out[i]]
      OBVIOUS
    <3> HIDE DEF out
    <3>8. \A i \in 0..m : out[i] = IF i = 0 THEN <<>>
                                   ELSE IF s[i].file # p THEN Append(out[i - 1], s[i])
                                   ELSE out[i - 1]
      <4> TAKE i \in 0..m
      <4>1. CASE i = m
        <5>1. i # 0 /\ out[i - 1] = before[m - 1]
          BY <2>3, <3>5, <4>1
        <5> QED
          BY <3>6, <4>1, <5>1 DEF turn
      <4>2. CASE i # m
        <5>1. i \in 0..m - 1 /\ out[i] = before[i]
          BY <3>4, <4>2
        <5>2. i # 0 => out[i - 1] = before[i - 1]
          BY <3>5
        <5> QED
          BY <3>3, <5>1, <5>2
      <4> QED
        BY <4>1, <4>2
    <3>9. IsUpto(out, m)
      BY <3>7, <3>8
    <3> QED
      BY <2>1, <3>9
  <2> QED
    BY <2>2, <2>3
<1>2. Len(s) \in Nat
  OBVIOUS
<1>3. PICK out : IsUpto(out, Len(s))
  BY <1>1, <1>2
<1> QED
  BY <1>3 DEF IsFiltered

LEMMA FilterResult ==
  ASSUME NEW s \in Seq(Entries), NEW p, NEW out, IsFiltered(out, s, p)
  PROVE  Filtered(out[Len(s)], s, p, Len(s))
<1> DEFINE T == {i \in 0..Len(s) : ~Filtered(out[i], s, p, i)}
<1>1. Len(s) \in Nat
  OBVIOUS
<1>2. T = {}
  <2> SUFFICES ASSUME T # {} PROVE FALSE
    OBVIOUS
  <2>1. PICK m \in T : \A k \in T : m <= k
    <3>1. T \subseteq Nat
      BY <1>1
    <3> HIDE DEF T
    <3> QED
      BY <3>1, LeastNatural
  <2>2. CASE m = 0
    <3>1. out[0] = <<>>
      BY <1>1 DEF IsFiltered
    <3>2. Filtered(out[0], s, p, 0)
      BY <3>1 DEF Filtered
    <3> QED
      BY <2>1, <2>2, <3>2
  <2>3. CASE m # 0
    <3>1. m \in 1..Len(s) /\ m - 1 \in 0..Len(s) /\ m - 1 \notin T
      <4>1. m \in 0..Len(s)
        BY <2>1
      <4> HIDE DEF T
      <4> QED
        BY <1>1, <2>1, <2>3, <4>1
    <3>2. Filtered(out[m - 1], s, p, m - 1)
      BY <3>1
    <3>3. out[m] = IF s[m].file # p THEN Append(out[m - 1], s[m]) ELSE out[m - 1]
      <4>1. m \in 0..Len(s) /\ m # 0
        BY <1>1, <2>3, <3>1
      <4> QED
        BY <4>1 DEF IsFiltered
    <3>4. Filtered(out[m], s, p, m)
      BY <3>1, <3>2, <3>3, FilterTurn
    <3> QED
      BY <2>1, <3>4
  <2> QED
    BY <2>2, <2>3
<1> QED
  BY <1>1, <1>2

\* remove takes the functions of one path out of the list, and no other.
LEMMA DropPathKeepsTheOthers ==
  ASSUME complexity \in Seq(Entries), NEW p
  PROVE  /\ DropPath(p) \in Seq(Entries)
         /\ \A k \in 1..Len(DropPath(p)) :
              /\ DropPath(p)[k].file # p
              /\ \E j \in 1..Len(complexity) : DropPath(p)[k] = complexity[j]
         /\ \A j \in 1..Len(complexity) :
              complexity[j].file # p =>
                \E k \in 1..Len(DropPath(p)) : DropPath(p)[k] = complexity[j]
<1>1. PICK s \in Seq(Entries) : s = complexity
  OBVIOUS
<1> DEFINE out == CHOOSE out : out =
             [i \in 0..Len(complexity) |->
               IF i = 0 THEN <<>>
               ELSE IF complexity[i].file # p THEN Append(out[i - 1], complexity[i])
               ELSE out[i - 1]]
<1>2. IsFiltered(out, s, p)
  <2>1. \E f : IsFiltered(f, s, p)
    BY FilterExists
  <2> QED
    BY <1>1, <2>1 DEF IsFiltered
<1>3. DropPath(p) = out[Len(s)]
  BY <1>1 DEF DropPath
<1> HIDE DEF out
<1>4. Filtered(DropPath(p), s, p, Len(s))
  BY <1>2, <1>3, FilterResult
<1> QED
  BY <1>1, <1>4 DEF Filtered

EntryFor(g) == [file |-> paths[g], value |-> ComplexityOf[files[g]]]
Listed(g) == \E i \in 1..Len(complexity) : complexity[i] = EntryFor(g)

\* The list at every step: only the file that is being inserted may miss.
ComplexityInv ==
  /\ complexity \in Seq(Entries)
  /\ \A g \in IndexedFiles : (job.at = 0 \/ g # fileIDs[job.at]) => Listed(g)
  /\ \A i \in 1..Len(complexity) : Indexed(complexity[i].file)

\* What the interning tables say of an indexed file.
LEMMA IndexedFileHasItsPath ==
  ASSUME IndInv, NEW g \in IndexedFiles
  PROVE  g \in FileIDs /\ g \in 1..Len(paths) /\ paths[g] \in Paths /\ fileIDs[paths[g]] = g
<1>1. g \in FileIDs /\ files[g] # NoFacts
  BY DEF IndexedFiles
<1>2. g \in 1..Len(paths)
  BY <1>1 DEF IndInv, JobAtHand, TypeOK, FileIDs
<1> QED
  BY <1>1, <1>2 DEF IndInv, TypeOK, InterningIsBijective

LEMMA ComplexityUntouched ==
  ASSUME ComplexityInv, UNCHANGED <<complexity, files, paths, fileIDs>>,
         job'.at = job.at
  PROVE  ComplexityInv'
BY DEF ComplexityInv, IndexedFiles, Indexed, Listed, EntryFor

LEMMA DeleteKeepsComplexity ==
  ASSUME IndInv, ComplexityInv, NEW p \in Paths, Delete(p)
  PROVE  ComplexityInv'
<1>1. job \in Jobs /\ job.at = 0 /\ job'.at = 0 /\ UNCHANGED <<paths, fileIDs>>
  BY DEF IndInv, TypeOK, Delete, Looping, Jobs, tables
<1>2. CASE fileIDs[p] = 0
  BY <1>1, <1>2, ComplexityUntouched DEF Delete
<1>3. CASE fileIDs[p] # 0
  <2> DEFINE fid == fileIDs[p]
  <2>1. files' = [files EXCEPT ![fid] = NoFacts] /\ complexity' = DropPath(p) /\ fid \in FileIDs
    BY <1>3 DEF Delete, IndInv, TypeOK
  <2>2. /\ complexity' \in Seq(Entries)
        /\ \A k \in 1..Len(complexity') :
             /\ complexity'[k].file # p
             /\ \E j \in 1..Len(complexity) : complexity'[k] = complexity[j]
        /\ \A j \in 1..Len(complexity) :
             complexity[j].file # p => \E k \in 1..Len(complexity') : complexity'[k] = complexity[j]
    <3>1. complexity \in Seq(Entries)
      BY DEF ComplexityInv
    <3> QED
      BY <2>1, <3>1, DropPathKeepsTheOthers
  <2>3. ASSUME NEW g \in IndexedFiles' PROVE Listed(g)'
    <3>1. g \in IndexedFiles /\ g # fid /\ files'[g] = files[g]
      BY <2>1 DEF IndexedFiles, IndInv, TypeOK
    <3>2. paths[g] # p
      BY <3>1, IndexedFileHasItsPath
    <3>3. PICK j \in 1..Len(complexity) : complexity[j] = EntryFor(g)
      BY <1>1, <3>1 DEF ComplexityInv, Listed
    <3>4. complexity[j].file # p
      BY <3>2, <3>3 DEF EntryFor
    <3>5. EntryFor(g)' = EntryFor(g)
      BY <1>1, <3>1 DEF EntryFor
    <3> QED
      BY <2>2, <3>3, <3>4, <3>5 DEF Listed
  <2>4. ASSUME NEW k \in 1..Len(complexity') PROVE Indexed(complexity[k].file)'
    <3>1. PICK j \in 1..Len(complexity) : complexity'[k] = complexity[j]
      BY <2>2
    <3>2. complexity[j] \in Entries
      BY DEF ComplexityInv
    <3>3. PICK q \in Paths : q = complexity[j].file
      BY <3>2 DEF Entries
    <3>4. q # p /\ Indexed(q)
      BY <2>2, <3>1, <3>3 DEF ComplexityInv
    <3>5. fileIDs[q] # fid /\ fileIDs[q] \in FileIDs
      BY <1>3, <3>4 DEF Indexed, IndInv, InterningIsBijective, TypeOK
    <3>6. Indexed(q)'
      BY <1>1, <2>1, <3>4, <3>5 DEF Indexed, IndInv, TypeOK
    <3> QED
      BY <3>1, <3>3, <3>6
  <2> QED
    BY <1>1, <2>2, <2>3, <2>4 DEF ComplexityInv
<1> QED
  BY <1>2, <1>3

LEMMA FileEntersComplexity ==
  ASSUME IndInv, ComplexityInv, NEW p \in Paths, NEW f \in Facts, InternFile(p),
         job.at = 0, job'.at = p, files' = [files EXCEPT ![fileIDs'[p]] = f],
         complexity' \in Seq(Entries),
         \A k \in 1..Len(complexity') :
           \E j \in 1..Len(complexity) : complexity'[k] = complexity[j],
         \A j \in 1..Len(complexity) :
           complexity[j].file # p => \E k \in 1..Len(complexity') : complexity'[k] = complexity[j]
  PROVE  ComplexityInv'
<1>1. /\ fileIDs'[p] \in FileIDs
      /\ \A q \in Paths : fileIDs[q] # 0 => fileIDs'[q] = fileIDs[q]
  BY InternFileKeeps DEF IndInv
<1>2. p # 0 /\ NoFacts \notin Facts
  BY MemoryStoreAssumption
<1>3. ASSUME NEW g \in IndexedFiles', g # fileIDs'[p] PROVE Listed(g)'
  <2>1. g \in IndexedFiles /\ files'[g] = files[g]
    BY <1>1, <1>3 DEF IndexedFiles, IndInv, TypeOK
  <2>2. g \in FileIDs /\ g # 0 /\ g \in 1..Len(paths) /\ paths[g] \in Paths /\ fileIDs[paths[g]] = g
    BY <2>1, IndexedFileHasItsPath DEF FileIDs
  <2>3. paths[g] # p
    BY <1>1, <1>3, <2>2
  <2>4. paths'[g] = paths[g]
    BY <2>2 DEF InternFile, IndInv, TypeOK
  <2>5. PICK j \in 1..Len(complexity) : complexity[j] = EntryFor(g)
    BY <2>1 DEF ComplexityInv, Listed
  <2>6. complexity[j].file # p
    BY <2>3, <2>5 DEF EntryFor
  <2>7. EntryFor(g)' = EntryFor(g)
    BY <2>1, <2>4 DEF EntryFor
  <2> QED
    BY <2>5, <2>6, <2>7 DEF Listed
<1>4. ASSUME NEW k \in 1..Len(complexity') PROVE Indexed(complexity[k].file)'
  <2>1. PICK j \in 1..Len(complexity) : complexity'[k] = complexity[j]
    OBVIOUS
  <2>2. complexity[j] \in Entries
    BY DEF ComplexityInv
  <2>3. PICK q \in Paths : q = complexity[j].file
    BY <2>2 DEF Entries
  <2>4. Indexed(q) /\ fileIDs'[q] = fileIDs[q] /\ fileIDs[q] \in FileIDs
    BY <1>1, <2>3 DEF ComplexityInv, Indexed, IndInv, TypeOK
  <2>5. Indexed(q)'
    BY <1>2, <2>4 DEF Indexed, IndInv, TypeOK
  <2> QED
    BY <2>1, <2>3, <2>5
<1> QED
  BY <1>2, <1>3, <1>4 DEF ComplexityInv

LEMMA BeginKeepsComplexity ==
  ASSUME IndInv, ComplexityInv, NEW p \in Paths, UpdateBegin(p) \/ AddBegin(p)
  PROVE  ComplexityInv'
<1>1. job \in Jobs /\ job.at = 0
  BY DEF IndInv, TypeOK, UpdateBegin, AddBegin, Looping
<1>2. job'.at = p /\ InternFile(p)
  BY <1>1 DEF UpdateBegin, AddBegin, Jobs
<1>3. PICK f \in Facts : files' = [files EXCEPT ![fileIDs'[p]] = f]
  BY <1>1 DEF UpdateBegin, AddBegin, Given, Jobs, MaybeFiles
<1>4. CASE complexity' = complexity
  BY <1>1, <1>2, <1>3, <1>4, FileEntersComplexity DEF ComplexityInv
<1>5. CASE complexity' = DropPath(p)
  <2>1. /\ complexity' \in Seq(Entries)
        /\ \A k \in 1..Len(complexity') :
             \E j \in 1..Len(complexity) : complexity'[k] = complexity[j]
        /\ \A j \in 1..Len(complexity) :
             complexity[j].file # p => \E k \in 1..Len(complexity') : complexity'[k] = complexity[j]
    <3>1. complexity \in Seq(Entries)
      BY DEF ComplexityInv
    <3> QED
      BY <1>5, <3>1, DropPathKeepsTheOthers
  <2> QED
    BY <1>1, <1>2, <1>3, <2>1, FileEntersComplexity
<1>6. CASE UpdateBegin(p)
  <2>1. complexity' = complexity \/ complexity' = DropPath(p)
    BY <1>6 DEF UpdateBegin
  <2> QED
    BY <1>4, <1>5, <2>1
<1>7. CASE AddBegin(p)
  <2>1. complexity' = complexity
    BY <1>7 DEF AddBegin
  <2> QED
    BY <1>4, <2>1
<1> QED
  BY <1>6, <1>7

LEMMA InsertDoneKeepsComplexity ==
  ASSUME IndInv, ComplexityInv, InsertDone
  PROVE  ComplexityInv'
<1> DEFINE p == job.at
           fid == fileIDs[p]
           e == [file |-> p, value |-> ComplexityOf[files[fid]]]
<1>1. p \in Paths /\ p # 0 /\ job'.at = 0 /\ complexity' = Append(complexity, e)
      /\ UNCHANGED <<files, paths, fileIDs>>
  BY DEF IndInv, TypeOK, InsertDone, Jobs, tables
<1>2. fid \in FileIDs /\ files[fid] \in Facts /\ paths[fid] = p /\ Indexed(p)
  BY <1>1 DEF IndInv, JobAtHand, TypeOK, InterningIsBijective, Indexed
<1>3. e \in Entries
  BY <1>1, <1>2, MemoryStoreAssumption DEF Entries
<1>4. e = EntryFor(fid)
  BY <1>2 DEF EntryFor
<1> HIDE DEF e, fid, p
<1>5. /\ complexity' \in Seq(Entries) /\ Len(complexity') = Len(complexity) + 1
      /\ complexity'[Len(complexity) + 1] = e /\ Len(complexity) \in Nat
      /\ \A k \in 1..Len(complexity) : complexity'[k] = complexity[k]
  BY <1>1, <1>3 DEF ComplexityInv
<1>6. ASSUME NEW g \in IndexedFiles' PROVE Listed(g)'
  <2>1. g \in IndexedFiles /\ EntryFor(g)' = EntryFor(g)
    BY <1>1 DEF IndexedFiles, EntryFor
  <2>2. CASE g = fid
    <3>1. Len(complexity) + 1 \in 1..Len(complexity')
      BY <1>5
    <3> QED
      BY <1>4, <1>5, <2>1, <2>2, <3>1 DEF Listed
  <2>3. CASE g # fid
    <3>1. PICK j \in 1..Len(complexity) : complexity[j] = EntryFor(g)
      BY <2>1, <2>3 DEF ComplexityInv, Listed, fid, p
    <3>2. j \in 1..Len(complexity')
      BY <1>5
    <3> QED
      BY <1>5, <2>1, <3>1, <3>2 DEF Listed
  <2> QED
    BY <2>2, <2>3
<1>7. ASSUME NEW k \in 1..Len(complexity') PROVE Indexed(complexity[k].file)'
  <2>1. CASE k = Len(complexity) + 1
    BY <1>1, <1>2, <1>5, <2>1 DEF Indexed, e
  <2>2. CASE k \in 1..Len(complexity)
    BY <1>1, <1>5, <2>2 DEF ComplexityInv, Indexed
  <2> QED
    BY <1>5, <2>1, <2>2
<1> QED
  BY <1>1, <1>5, <1>6, <1>7 DEF ComplexityInv

\* Sorting loses nothing.
LEMMA EnrichBeginKeepsComplexity ==
  ASSUME IndInv, ComplexityInv, EnrichBegin
  PROVE  ComplexityInv'
<1>1. job \in Jobs /\ job'.at = job.at /\ job.at = 0 /\ UNCHANGED <<files, paths, fileIDs>>
  BY DEF IndInv, TypeOK, EnrichBegin, Looping, Jobs, tables
<1>2. CASE UNCHANGED complexity
  BY <1>1, <1>2, ComplexityUntouched
<1>3. CASE SortComplexity
  <2> DEFINE D == 1..Len(complexity)
  <2>1. PICK at \in [D -> D] :
          /\ \A i \in D : \E j \in D : at[j] = i
          /\ complexity' = [i \in D |-> complexity[at[i]]]
    <3>1. DOMAIN complexity = D
      BY DEF ComplexityInv
    <3> HIDE DEF D
    <3> QED
      BY <1>3, <3>1 DEF SortComplexity
  <2>2. complexity' \in Seq(Entries) /\ Len(complexity') = Len(complexity)
    <3>1. \A j \in D : complexity[j] \in Entries
      BY DEF ComplexityInv
    <3>2. PICK n \in Nat : n = Len(complexity) /\ D = 1..n
      BY DEF ComplexityInv
    <3>3. \A e \in [1..n -> Entries] : e \in Seq(Entries) /\ Len(e) = n
      OBVIOUS
    <3> HIDE DEF D
    <3>4. \A i \in D : complexity[at[i]] \in Entries
      BY <2>1, <3>1
    <3>5. complexity' \in [D -> Entries]
      BY <2>1, <3>4
    <3> QED
      BY <3>2, <3>3, <3>5
  <2>3. ASSUME NEW g \in IndexedFiles' PROVE Listed(g)'
    <3>1. g \in IndexedFiles /\ EntryFor(g)' = EntryFor(g)
      BY <1>1 DEF IndexedFiles, EntryFor
    <3>2. PICK i \in D : complexity[i] = EntryFor(g)
      BY <1>1, <3>1 DEF ComplexityInv, Listed
    <3>3. PICK j \in D : at[j] = i
      BY <2>1
    <3>4. complexity'[j] = EntryFor(g)'
      BY <2>1, <3>1, <3>2, <3>3
    <3> QED
      BY <2>2, <3>4 DEF Listed
  <2>4. ASSUME NEW k \in 1..Len(complexity') PROVE Indexed(complexity[k].file)'
    <3>1. k \in D /\ at[k] \in D /\ complexity'[k] = complexity[at[k]]
      BY <2>1, <2>2
    <3> QED
      BY <1>1, <3>1 DEF ComplexityInv, Indexed
  <2> QED
    BY <1>1, <2>2, <2>3, <2>4 DEF ComplexityInv
<1> QED
  BY <1>2, <1>3 DEF EnrichBegin

LEMMA NextKeepsComplexity == IndInv /\ ComplexityInv /\ [Next]_vars => ComplexityInv'
<1> SUFFICES ASSUME IndInv, ComplexityInv, [Next]_vars PROVE ComplexityInv'
  OBVIOUS
<1>1. ASSUME NEW fs \in MaybeFiles, NEW errs \in SUBSET Paths, ReplaceBegin(fs, errs)
      PROVE  ComplexityInv'
  <2>1. complexity' = <<>> /\ \A g \in FileIDs : files'[g] = NoFacts
    BY <1>1 DEF ReplaceBegin
  <2>2. <<>> \in Seq(Entries) /\ Len(<<>>) = 0
    OBVIOUS
  <2> QED
    BY <2>1, <2>2 DEF ComplexityInv, IndexedFiles
<1>2. ASSUME NEW del \in SUBSET Paths, NEW errs \in SUBSET Paths,
             NEW upd \in MaybeFiles, NEW add \in MaybeFiles, ApplyBegin(del, upd, add, errs)
      PROVE ComplexityInv'
  <2>1. job.op = "none" /\ job \in Jobs /\ job'.at = 0
    BY <1>2, NoJobIsAJob DEF ApplyBegin, MayCall, NoJob, IndInv, TypeOK
  <2>2. job.at = 0
    BY <2>1 DEF IndInv, JobAtHand
  <2> QED
    BY <1>2, <2>1, <2>2, ComplexityUntouched DEF ApplyBegin, tables
<1>3. CASE SetState("refreshing")
  BY <1>3, ComplexityUntouched DEF SetState, tables
<1>4. ASSUME NEW p \in Paths, Delete(p) PROVE ComplexityInv'
  BY <1>4, DeleteKeepsComplexity
<1>5. ASSUME NEW p \in Paths, UpdateBegin(p) \/ AddBegin(p) PROVE ComplexityInv'
  BY <1>5, BeginKeepsComplexity
<1>6. CASE InsertUsage
  BY <1>6, ComplexityUntouched DEF InsertUsage, IndInv, TypeOK, Jobs
<1>7. CASE InsertDone
  BY <1>7, InsertDoneKeepsComplexity
<1>8. CASE EnrichBegin
  BY <1>8, EnrichBeginKeepsComplexity
<1>9. ASSUME NEW n \in NameIDs, EnrichName(n) PROVE ComplexityInv'
  BY <1>9, ComplexityUntouched DEF EnrichName, IndInv, TypeOK, Jobs
<1>10. CASE Publish
  <2>1. job.phase = "enrich" /\ job'.at = 0
    BY <1>10, NoJobIsAJob DEF Publish, NoJob
  <2>2. job.at = 0
    BY <2>1 DEF IndInv, JobAtHand
  <2> QED
    BY <1>10, <2>1, <2>2, ComplexityUntouched DEF Publish, tables
<1>11. CASE UNCHANGED vars
  BY <1>11, ComplexityUntouched DEF vars, tables
<1> QED
  BY <1>1, <1>2, <1>3, <1>4, <1>5, <1>6, <1>7, <1>8, <1>9, <1>10, <1>11
  DEF Next, Call, Work

\* The complexity list of a published store is the one of its files: remove
\* and insert (store.go:610-616, 647), and the sort of Apply, lose no function
\* and leave none behind.
THEOREM ComplexityIsExact == Spec => []ComplexityIsIndexed
<1>1. Init => ComplexityInv
  <2>1. <<>> \in Seq(Entries) /\ Len(<<>>) = 0
    OBVIOUS
  <2> QED
    BY <2>1 DEF Init, ComplexityInv, IndexedFiles
<1>2. IndInv /\ ComplexityInv => ComplexityIsIndexed
  BY DEF IndInv, JobAtHand, ComplexityInv, ComplexityIsIndexed, Listed, EntryFor
<1> QED
  BY <1>1, <1>2, NextKeepsComplexity, InvariantHolds, PTL DEF Spec

-----------------------------------------------------------------------------
(* The canonical identities.                                               *)

\* Enriched in this pass, or in the last one.
Enriched(n) == n \in NameIDs /\ Used(n) /\ n \notin job.enrich

StampedAs(n, g) ==
  /\ canonical[n] \in 1..Len(names)
  /\ names[canonical[n]] = <<paths[g], names[n]>>
  /\ byCanonical[canonical[n]] = usages[n]

CanonicalInv ==
  /\ job.op = "none" => job.enrich = {}
  /\ (job.op = "none" \/ job.phase = "enrich") =>
       /\ \A n \in NameIDs : Enriched(n) =>
            IF SoleDeclaration(names[n]) = {} THEN canonical[n] = 0
            ELSE \E g \in SoleDeclaration(names[n]) : StampedAs(n, g)
       /\ \A c \in NameIDs, h \in FileIDs :
            byCanonical[c][h] # <<>> => \E n \in NameIDs : Enriched(n) /\ canonical[n] = c

\* No map that CanonicalInv speaks of changes.
LEMMA CanonicalUntouched ==
  ASSUME CanonicalInv,
         UNCHANGED <<canonical, byCanonical, names, paths, files, usages>>,
         job'.enrich = job.enrich,
         (job'.op = "none" \/ job'.phase = "enrich") => (job.op = "none" \/ job.phase = "enrich"),
         job'.op = "none" => job'.enrich = {}
  PROVE  CanonicalInv'
BY DEF CanonicalInv, Enriched, Used, StampedAs, SoleDeclaration, DeclaringFiles, IndexedFiles

\* Nobody asks while the files change.
LEMMA CanonicalUnasked ==
  ASSUME job'.op # "none", job'.phase = "files"
  PROVE  CanonicalInv'
BY DEF CanonicalInv

LEMMA SoleHasItsPath ==
  ASSUME IndInv, NEW n \in NameIDs, Used(n), NEW g \in SoleDeclaration(names[n])
  PROVE  <<paths[g], names[n]>> \in Keys
<1>1. g \in IndexedFiles
  BY DEF SoleDeclaration, DeclaringFiles
<1>2. paths[g] \in Paths
  BY <1>1, IndexedFileHasItsPath
<1>3. names[n] \in Names
  BY UsedNameIsAnIdentifier DEF IndInv
<1> QED
  BY <1>2, <1>3 DEF Keys, CanonicalKeys

\* Used names are interned, and two of them differ.
LEMMA UsedNamesDiffer ==
  ASSUME IndInv, NEW n \in NameIDs, Used(n)
  PROVE  /\ n \in 1..Len(names)
         /\ \A m \in NameIDs : Used(m) /\ names[m] = names[n] => m = n
<1>1. \A m \in NameIDs : Used(m) => m \in 1..Len(names)
  <2> SUFFICES ASSUME NEW m \in NameIDs, Used(m) PROVE m \in 1..Len(names)
    OBVIOUS
  <2>1. PICK g \in FileIDs : usages[m][g] # <<>>
    BY DEF Used
  <2>2. usages[m][g] \in Seq(Occurrences)
    BY DEF IndInv, TypeOK
  <2>3. 1 \in 1..Len(usages[m][g])
    BY <2>1, <2>2
  <2>4. m <= Len(names)
    BY <2>3 DEF IndInv, PostingsAreNamed
  <2> QED
    BY <2>4 DEF NameIDs, IndInv, TypeOK
<1> QED
  BY <1>1 DEF IndInv, InterningIsBijective

LEMMA EnrichNameKeepsCanonical ==
  ASSUME IndInv, CanonicalInv, NEW n \in NameIDs, EnrichName(n)
  PROVE  CanonicalInv'
<1>1. /\ job \in Jobs /\ job.phase = "enrich" /\ n \in job.enrich
      /\ job' = [job EXCEPT !.enrich = job.enrich \ {n}]
      /\ UNCHANGED <<paths, files, usages>>
  BY DEF EnrichName, IndInv, TypeOK, postings
<1>2. Used(n) /\ job.op # "none"
  BY <1>1 DEF IndInv, JobAtHand, CanonicalInv
<1>3. job'.enrich = job.enrich \ {n} /\ job'.op # "none" /\ job'.phase = "enrich"
  BY <1>1, <1>2 DEF Jobs
<1>4. \A m \in NameIDs : Enriched(m)' <=> Enriched(m) \/ m = n
  BY <1>1, <1>2, <1>3 DEF Enriched, Used
<1>5. ~Enriched(n)
  BY <1>1 DEF Enriched
<1>6. /\ \A m \in NameIDs : Enriched(m) =>
           IF SoleDeclaration(names[m]) = {} THEN canonical[m] = 0
           ELSE \E g \in SoleDeclaration(names[m]) : StampedAs(m, g)
      /\ \A c \in NameIDs, h \in FileIDs :
           byCanonical[c][h] # <<>> => \E m \in NameIDs : Enriched(m) /\ canonical[m] = c
  BY <1>1 DEF CanonicalInv
<1>7. CASE /\ SoleDeclaration(names[n]) = {}
           /\ UNCHANGED <<names, nameIDs, byCanonical>>
           /\ canonical' = [canonical EXCEPT ![n] = 0]
  <2>1. canonical'[n] = 0 /\ \A m \in NameIDs : m # n => canonical'[m] = canonical[m]
    BY <1>7 DEF IndInv, TypeOK
  <2>2. \A m \in NameIDs : SoleDeclaration(names[m])' = SoleDeclaration(names[m])
    BY <1>1, <1>7 DEF SoleDeclaration, DeclaringFiles, IndexedFiles
  <2>3. ASSUME NEW m \in NameIDs, Enriched(m)'
        PROVE  IF SoleDeclaration(names[m])' = {} THEN canonical'[m] = 0
               ELSE \E g \in SoleDeclaration(names[m])' : StampedAs(m, g)'
    <3>1. CASE m = n
      BY <1>7, <2>1, <2>2, <3>1
    <3>2. CASE m # n
      <4>1. Enriched(m) /\ canonical'[m] = canonical[m]
        BY <1>4, <2>1, <2>3, <3>2
      <4>2. \A g : StampedAs(m, g)' <=> StampedAs(m, g)
        BY <1>1, <1>7, <4>1 DEF StampedAs
      <4> QED
        BY <1>6, <2>2, <4>1, <4>2
    <3> QED
      BY <3>1, <3>2
  <2>4. ASSUME NEW c \in NameIDs, NEW h \in FileIDs, byCanonical'[c][h] # <<>>
        PROVE  \E m \in NameIDs : Enriched(m)' /\ canonical'[m] = c
    <3>1. PICK m \in NameIDs : Enriched(m) /\ canonical[m] = c
      BY <1>6, <1>7, <2>4
    <3> QED
      BY <1>4, <1>5, <2>1, <3>1
  <2> QED
    BY <1>3, <2>3, <2>4 DEF CanonicalInv
<1>8. ASSUME NEW g \in SoleDeclaration(names[n]),
             InternName(<<paths[g], names[n]>>),
             canonical' = [canonical EXCEPT ![n] = nameIDs'[<<paths[g], names[n]>>]],
             byCanonical' = [byCanonical EXCEPT ![nameIDs'[<<paths[g], names[n]>>]] =
                              [h \in FileIDs |-> @[h] \o usages[n][h]]]
      PROVE  CanonicalInv'
  <2> DEFINE key == <<paths[g], names[n]>>
             id == nameIDs'[key]
  <2>1. key \in Keys
    BY <1>2, SoleHasItsPath
  <2>2. /\ id \in NameIDs /\ id <= Len(names') /\ names'[id] = key
        /\ Len(names) <= Len(names') /\ names' \in Seq(Keys)
        /\ \A i \in 1..Len(names) : names'[i] = names[i]
        /\ \A i \in 1..Len(names') : nameIDs'[names'[i]] = i
    BY <1>8, <2>1, InternNameKeeps DEF IndInv
  <2> HIDE DEF id
  <2>3. Len(names) \in Nat /\ Len(names') \in Nat /\ id \in Nat /\ id > 0
    BY <2>2 DEF IndInv, TypeOK, NameIDs
  <2>4. /\ canonical'[n] = id /\ \A m \in NameIDs : m # n => canonical'[m] = canonical[m]
    BY <1>8 DEF IndInv, TypeOK, id
  <2>5. \A m \in NameIDs : Used(m) => /\ m \in 1..Len(names) /\ names'[m] = names[m]
                                      /\ SoleDeclaration(names[m])' = SoleDeclaration(names[m])
    <3> SUFFICES ASSUME NEW m \in NameIDs, Used(m)
                 PROVE  /\ m \in 1..Len(names) /\ names'[m] = names[m]
                        /\ SoleDeclaration(names[m])' = SoleDeclaration(names[m])
      OBVIOUS
    <3>1. m \in 1..Len(names) /\ names'[m] = names[m]
      BY <2>2, UsedNamesDiffer
    <3> QED
      BY <1>1, <3>1 DEF SoleDeclaration, DeclaringFiles, IndexedFiles
\* The canonical postings of the key were empty: only n has this key.
  <2>6. ASSUME NEW m \in NameIDs, Enriched(m) PROVE canonical[m] # id
    <3> SUFFICES ASSUME canonical[m] = id PROVE FALSE
      OBVIOUS
    <3>1. PICK f \in SoleDeclaration(names[m]) : StampedAs(m, f)
      BY <1>6, <2>3, <2>6
    <3>2. id \in 1..Len(names) /\ names[id] = <<paths[f], names[m]>>
      BY <3>1 DEF StampedAs
    <3>3. <<paths[f], names[m]>> = key
      BY <2>2, <3>2
    <3>4. names[m] = names[n] /\ Used(m)
      BY <2>6, <3>3 DEF Enriched
    <3> QED
      BY <1>2, <1>5, <2>6, <3>4, UsedNamesDiffer
  <2>7. \A h \in FileIDs : byCanonical[id][h] = <<>>
    BY <1>6, <2>2, <2>6
  <2>8. byCanonical'[id] = usages[n]
    <3>1. byCanonical'[id] = [h \in FileIDs |-> byCanonical[id][h] \o usages[n][h]]
      BY <1>8, <2>2 DEF IndInv, TypeOK, id
    <3>2. usages[n] \in [FileIDs -> Seq(Occurrences)]
      BY DEF IndInv, TypeOK
    <3>3. \A h \in FileIDs : <<>> \o usages[n][h] = usages[n][h]
      BY <3>2
    <3> QED
      BY <2>7, <3>1, <3>2, <3>3
  <2>9. \A c \in NameIDs : c # id => byCanonical'[c] = byCanonical[c]
    BY <1>8 DEF IndInv, TypeOK, id
  <2>10. ASSUME NEW m \in NameIDs, Enriched(m)'
         PROVE  IF SoleDeclaration(names[m])' = {} THEN canonical'[m] = 0
                ELSE \E f \in SoleDeclaration(names[m])' : StampedAs(m, f)'
    <3>1. CASE m = n
      <4>1. StampedAs(n, g)'
        BY <1>1, <1>2, <2>2, <2>3, <2>4, <2>5, <2>8 DEF StampedAs
      <4> QED
        BY <1>2, <1>8, <2>5, <3>1, <4>1
    <3>2. CASE m # n
      <4>1. Enriched(m) /\ Used(m)
        BY <1>4, <2>10, <3>2 DEF Enriched
      <4>2. CASE SoleDeclaration(names[m]) = {}
        BY <1>6, <2>4, <2>5, <3>2, <4>1, <4>2
      <4>3. CASE SoleDeclaration(names[m]) # {}
        <5>1. PICK f \in SoleDeclaration(names[m]) : StampedAs(m, f)
          BY <1>6, <4>1, <4>3
        <5>2. /\ canonical[m] \in 1..Len(names) /\ canonical[m] \in NameIDs
              /\ names[canonical[m]] = <<paths[f], names[m]>>
              /\ byCanonical[canonical[m]] = usages[m]
          BY <5>1 DEF StampedAs, IndInv, TypeOK
        <5>3. canonical[m] \in 1..Len(names') /\ names'[canonical[m]] = names[canonical[m]]
          BY <2>2, <2>3, <5>2
        <5>4. StampedAs(m, f)'
          BY <1>1, <2>4, <2>5, <2>6, <2>9, <3>2, <4>1, <5>2, <5>3 DEF StampedAs
        <5> QED
          BY <2>5, <4>1, <5>4
      <4> QED
        BY <4>2, <4>3
    <3> QED
      BY <3>1, <3>2
  <2>11. ASSUME NEW c \in NameIDs, NEW h \in FileIDs, byCanonical'[c][h] # <<>>
         PROVE  \E m \in NameIDs : Enriched(m)' /\ canonical'[m] = c
    <3>1. CASE c = id
      BY <1>4, <2>4, <3>1
    <3>2. CASE c # id
      <4>1. PICK m \in NameIDs : Enriched(m) /\ canonical[m] = c
        BY <1>6, <2>9, <2>11, <3>2
      <4> QED
        BY <1>4, <1>5, <2>4, <4>1
    <3> QED
      BY <3>1, <3>2
  <2> QED
    BY <1>3, <2>10, <2>11 DEF CanonicalInv
<1> QED
  BY Zenon, <1>7, <1>8 DEF EnrichName

LEMMA NextKeepsCanonical == IndInv /\ CanonicalInv /\ [Next]_vars => CanonicalInv'
<1> SUFFICES ASSUME IndInv, CanonicalInv, [Next]_vars PROVE CanonicalInv'
  OBVIOUS
<1>1. job \in Jobs
  BY DEF IndInv, TypeOK
<1>2. ASSUME NEW fs \in MaybeFiles, NEW errs \in SUBSET Paths, ReplaceBegin(fs, errs)
      PROVE  CanonicalInv'
  BY <1>2, NoJobIsAJob, CanonicalUnasked DEF ReplaceBegin, NoJob
<1>3. ASSUME NEW del \in SUBSET Paths, NEW errs \in SUBSET Paths,
             NEW upd \in MaybeFiles, NEW add \in MaybeFiles, ApplyBegin(del, upd, add, errs)
      PROVE CanonicalInv'
  BY <1>3, NoJobIsAJob, CanonicalUnasked DEF ApplyBegin, NoJob
<1>4. CASE SetState("refreshing")
  BY <1>4, CanonicalUntouched DEF SetState, tables, postings, CanonicalInv
<1>5. ASSUME NEW p \in Paths, Delete(p) \/ UpdateBegin(p) \/ AddBegin(p) PROVE CanonicalInv'
  BY <1>1, <1>5, CanonicalUnasked DEF Delete, UpdateBegin, AddBegin, Looping, Jobs
<1>6. CASE InsertUsage \/ InsertDone
  <2>1. job.phase = "files" /\ job.op # "none"
    BY Zenon, <1>6 DEF IndInv, JobAtHand, InsertUsage, InsertDone
  <2>2. job'.phase = "files" /\ job'.op # "none"
    BY Zenon, <1>1, <1>6, <2>1 DEF InsertUsage, InsertDone, Jobs
  <2> QED
    BY <2>2, CanonicalUnasked
\* Nothing is enriched yet, and the canonical postings are empty.
<1>7. CASE EnrichBegin
  <2>1. /\ job'.op # "none" /\ job'.enrich = {n \in NameIDs : Used(n)}
        /\ usages' = usages /\ byCanonical' = [n \in NameIDs |-> NoRefs]
    BY <1>1, <1>7 DEF EnrichBegin, Looping, Jobs, postings
  <2>2. \A n : ~Enriched(n)'
    BY <2>1 DEF Enriched, Used
  <2>3. \A c \in NameIDs, h \in FileIDs : byCanonical'[c][h] = <<>>
    BY <2>1 DEF NoRefs
  <2> QED
    BY <2>1, <2>2, <2>3 DEF CanonicalInv
<1>8. ASSUME NEW n \in NameIDs, EnrichName(n) PROVE CanonicalInv'
  BY <1>8, EnrichNameKeepsCanonical
<1>9. CASE Publish
  <2>1. job'.enrich = {} /\ job.enrich = {} /\ job.phase = "enrich"
    BY <1>9, NoJobIsAJob DEF Publish, NoJob
  <2> QED
    BY <1>9, <2>1, CanonicalUntouched DEF Publish, tables, postings
<1>10. CASE UNCHANGED vars
  BY <1>10, CanonicalUntouched DEF vars, tables, postings, CanonicalInv
<1> QED
  BY <1>2, <1>3, <1>4, <1>5, <1>6, <1>7, <1>8, <1>9, <1>10 DEF Next, Call, Work

\* A name has one declaration in the repository when one file declares it, once.
LEMMA OneDeclarationIsSole ==
  ASSUME IndInv, NEW name \in Names
  PROVE  Cardinality(Declarations(name)) = 1 <=> SoleDeclaration(name) # {}
<1> DEFINE D(g) == DeclsOf[files[g]][name]
           Numbered(g) == {g} \X (1..D(g))
<1>1. \A g \in IndexedFiles : D(g) \in Nat
  <2> SUFFICES ASSUME NEW g \in IndexedFiles PROVE D(g) \in Nat
    OBVIOUS
  <2>1. files[g] \in Facts
    BY DEF IndexedFiles, IndInv, TypeOK
  <2> QED
    BY <2>1, MemoryStoreAssumption
<1>2. Declarations(name) = UNION {Numbered(g) : g \in IndexedFiles}
  BY DEF Declarations
<1> HIDE DEF D
<1>3. \A d : d \in Declarations(name) <=> \E g \in IndexedFiles : \E k \in 1..D(g) : d = <<g, k>>
  BY <1>2
<1>4. \A g \in IndexedFiles : g \in DeclaringFiles(name) <=> D(g) > 0
  BY DEF DeclaringFiles, D
<1>5. IsFiniteSet(Declarations(name))
  <2>1. IsFiniteSet(FileIDs)
    BY FS_Interval, MemoryStoreAssumption DEF FileIDs
  <2>2. IsFiniteSet(IndexedFiles)
    <3>1. IndexedFiles \in SUBSET FileIDs
      BY DEF IndexedFiles
    <3> QED
      BY <2>1, <3>1, FS_Subset
  <2>3. \A g \in IndexedFiles : IsFiniteSet(Numbered(g))
    <3> SUFFICES ASSUME NEW g \in IndexedFiles PROVE IsFiniteSet(Numbered(g))
      OBVIOUS
    <3>1. IsFiniteSet(1..D(g)) /\ IsFiniteSet({g})
      <4>1. 1 \in Int /\ D(g) \in Int
        BY <1>1
      <4>2. IsFiniteSet(1..D(g))
        BY <4>1, FS_Interval
      <4>3. IsFiniteSet({g})
        BY FS_Singleton
      <4> QED
        BY <4>2, <4>3
    <3> DEFINE U == 1..D(g)
               V == {g}
    <3> HIDE DEF U, V
    <3>2. IsFiniteSet(V \X U)
      BY <3>1, FS_Product DEF U, V
    <3> QED
      BY <3>2 DEF U, V
  <2>4. IsFiniteSet({Numbered(g) : g \in IndexedFiles})
    <3> DEFINE S == {Numbered(g) : g \in IndexedFiles}
               f == [g \in IndexedFiles |-> Numbered(g)]
    <3>1. f \in Surjection(IndexedFiles, S)
      BY DEF Surjection
    <3> HIDE DEF f, S
    <3>2. IsFiniteSet(S)
      BY <2>2, <3>1, FS_Surjection
    <3> QED
      BY <3>2 DEF S
  <2>5. \A T \in {Numbered(g) : g \in IndexedFiles} : IsFiniteSet(T)
    BY <2>3
  <2> HIDE DEF Numbered
  <2>6. IsFiniteSet(UNION {Numbered(g) : g \in IndexedFiles})
    BY <2>4, <2>5, FS_UNION
  <2> QED
    BY <1>2, <2>6
<1>6. ASSUME Cardinality(Declarations(name)) = 1
      PROVE  SoleDeclaration(name) # {}
  <2>1. PICK x : Declarations(name) = {x}
    BY <1>5, <1>6, FS_Singleton
  <2>2. PICK g \in IndexedFiles : \E k \in 1..D(g) : x = <<g, k>>
    BY <1>3, <2>1
  <2>3. D(g) \in Nat /\ 1 \in 1..D(g)
    BY <1>1, <2>2
  <2>4. D(g) = 1
    <3>1. D(g) \in 1..D(g)
      BY <2>3
    <3>2. <<g, 1>> = x /\ <<g, D(g)>> = x
      BY <1>3, <2>1, <2>3, <3>1
    <3> QED
      BY <3>2
  <2>5. ASSUME NEW h \in DeclaringFiles(name) PROVE h = g
    <3>1. h \in IndexedFiles /\ 1 \in 1..D(h)
      BY <1>1, <1>4 DEF DeclaringFiles
    <3>2. <<h, 1>> = x
      BY <1>3, <2>1, <3>1
    <3> QED
      BY <2>2, <3>2
  <2>6. g \in DeclaringFiles(name)
    BY <1>4, <2>3
  <2>7. DeclaringFiles(name) = {g}
    BY <2>5, <2>6
  <2> QED
    BY <2>4, <2>6, <2>7 DEF SoleDeclaration, D
<1>7. ASSUME SoleDeclaration(name) # {}
      PROVE  Cardinality(Declarations(name)) = 1
  <2>1. PICK g \in DeclaringFiles(name) : DeclaringFiles(name) = {g} /\ D(g) = 1
    BY <1>7 DEF SoleDeclaration, D
  <2>2. g \in IndexedFiles
    BY DEF DeclaringFiles
  <2>3. Declarations(name) = {<<g, 1>>}
    <3>1. \A h \in IndexedFiles : \A k \in 1..D(h) : h = g /\ k = 1
      <4> TAKE h \in IndexedFiles
      <4> TAKE k \in 1..D(h)
      <4>1. D(h) > 0
        BY <1>1
      <4>2. h = g
        BY <1>4, <2>1, <4>1
      <4> QED
        BY <2>1, <4>2
    <3>2. 1 \in 1..D(g)
      BY <2>1
    <3> QED
      BY <1>3, <2>2, <3>1, <3>2
  <2> QED
    BY <2>3, FS_Singleton
<1> QED
  BY <1>6, <1>7

\* enrich (store.go:658-690) leaves no stale identity behind: a used name is
\* stamped if and only if the repository has one declaration of it, and the
\* canonical postings are those of the stamped names.
THEOREM CanonicalIsOfTheSoleDeclaration == Spec => []CanonicalIsSole
<1>1. Init => CanonicalInv
  <2> SUFFICES ASSUME Init PROVE CanonicalInv
    OBVIOUS
  <2>1. job.enrich = {}
    BY NoJobIsAJob DEF Init, NoJob
  <2>2. \A n \in NameIDs : ~Used(n)
    BY DEF Init, Used, NoRefs
  <2> QED
    BY <2>1, <2>2 DEF Init, CanonicalInv, Enriched, NoRefs
<1>2. IndInv /\ CanonicalInv => CanonicalIsSole
  <2> SUFFICES ASSUME IndInv, CanonicalInv, job.op = "none"
               PROVE  /\ \A n \in NameIDs : Used(n) =>
                           IF Cardinality(Declarations(names[n])) # 1 THEN canonical[n] = 0
                           ELSE \E g \in IndexedFiles :
                                  /\ DeclsOf[files[g]][names[n]] = 1
                                  /\ names[canonical[n]] = <<paths[g], names[n]>>
                                  /\ byCanonical[canonical[n]] = usages[n]
                      /\ \A c \in NameIDs : (\E g \in FileIDs : byCanonical[c][g] # <<>>)
                           => \E n \in NameIDs : Used(n) /\ canonical[n] = c
    BY DEF CanonicalIsSole
  <2>1. \A n \in NameIDs : Used(n) <=> Enriched(n)
    BY DEF CanonicalInv, Enriched
  <2>2. ASSUME NEW n \in NameIDs, Used(n)
        PROVE  IF Cardinality(Declarations(names[n])) # 1 THEN canonical[n] = 0
               ELSE \E g \in IndexedFiles :
                      /\ DeclsOf[files[g]][names[n]] = 1
                      /\ names[canonical[n]] = <<paths[g], names[n]>>
                      /\ byCanonical[canonical[n]] = usages[n]
    <3>1. names[n] \in Names
      BY <2>2, UsedNameIsAnIdentifier DEF IndInv
    <3>2. Cardinality(Declarations(names[n])) = 1 <=> SoleDeclaration(names[n]) # {}
      BY <3>1, OneDeclarationIsSole
    <3>3. IF SoleDeclaration(names[n]) = {} THEN canonical[n] = 0
          ELSE \E g \in SoleDeclaration(names[n]) : StampedAs(n, g)
      BY <2>1, <2>2 DEF CanonicalInv
    <3>4. \A g \in SoleDeclaration(names[n]) :
            g \in IndexedFiles /\ DeclsOf[files[g]][names[n]] = 1
      BY DEF SoleDeclaration, DeclaringFiles
    <3> QED
      BY <3>2, <3>3, <3>4 DEF StampedAs
  <2>3. \A c \in NameIDs, h \in FileIDs :
          byCanonical[c][h] # <<>> => \E n \in NameIDs : Used(n) /\ canonical[n] = c
    BY <2>1 DEF CanonicalInv
  <2> QED
    BY <2>2, <2>3
<1> QED
  BY <1>1, <1>2, NextKeepsCanonical, InvariantHolds, PTL DEF Spec

-----------------------------------------------------------------------------
(* The refinement.  Replace is an Apply that adds its files to an empty     *)
(* store (`Base`, `Changes`).  While a call is under way every path is      *)
(* either as it was when the call began, or as the abstract Apply leaves    *)
(* it, but for the occurrences of the file at hand that are still to come.  *)

Waits(p) == p \in job.delete \/ job.update[p] # NoFacts \/ job.add[p] # NoFacts
ToCome(p) == IF job.at = p THEN job.rest ELSE <<>>

Base ==
  IF job.op = "replace"
    THEN [served EXCEPT !.entries = Abstract!NoFiles, !.errors = {},
                        !.postings = [p \in Paths |-> Abstract!NoPostings]]
    ELSE served
Changes ==
  IF job.op = "replace"
    THEN [added |-> call.files, updated |-> Abstract!NoFiles, deleted |-> {}, errors |-> call.errs]
    ELSE call.changes

AsItWas(p, base, cs) ==
  /\ p \in job.delete <=> p \in cs.deleted
  /\ EntriesOf(job.update)[p] = cs.updated[p] /\ EntriesOf(job.add)[p] = cs.added[p]
  /\ EntryOf(p) = base.entries[p]
  /\ \A r \in Refs : OccurrencesOf(p, r) = base.postings[p][r]

AsItWillBe(p, base, cs) ==
  /\ EntryOf(p) = Abstract!EntryAfter(base.entries[p], p, cs)
  /\ \A r \in Refs : OccurrencesOf(p, r) + Count(ToCome(p), r)
                       = Abstract!PostingsAfter(base.postings[p], p, cs)[r]

InNoMap(p, cs) == p \notin cs.deleted /\ cs.updated[p] = NoFacts /\ cs.added[p] = NoFacts
InOneMap(p, cs) ==
  /\ p \in cs.deleted => cs.updated[p] = NoFacts /\ cs.added[p] = NoFacts
  /\ cs.updated[p] # NoFacts => cs.added[p] = NoFacts

Progress(p, base, cs) ==
  IF Waits(p) /\ job.at # p THEN AsItWas(p, base, cs) ELSE AsItWillBe(p, base, cs)
Failed(p, base, cs) ==
  p \in errors <=>
    \/ p \in base.errors /\ ((Waits(p) /\ job.at # p) \/ InNoMap(p, cs))
    \/ p \in cs.errors /\ job.phase = "enrich"

Underway(base, cs) ==
  /\ job.errs = cs.errors
  /\ job.at # 0 => job.delete = {}
  /\ job.phase = "enrich" => \A p \in Paths : ~Waits(p)
  /\ \A p \in Paths : InOneMap(p, cs) /\ Progress(p, base, cs) /\ Failed(p, base, cs)

Stores ==
  [entries: [Paths -> [facts: Facts] \cup {NoFacts}], postings: [Paths -> [Refs -> Nat]],
   errors: SUBSET Paths, state: {"building", "refreshing", "ready", "partial"},
   version: 0..VersionWidth - 1]

Serving ==
  /\ info = [state |-> info.state, files |-> info.files, memory |-> info.memory,
             version |-> info.version]
  /\ info.version \in Nat
  /\ info.state \in {"building", "refreshing", "ready", "partial"}
  /\ job.op = "none" => job = NoJob /\ served = View /\ call = NoCall
  /\ job.op # "none" =>
       /\ job.op = "replace" => call \in Abstract!ReplaceCalls
       /\ job.op = "apply" => call \in Abstract!ApplyCalls
       /\ served \in Stores
       /\ served.state = info.state /\ served.version = info.version % VersionWidth
       /\ \A base \in {Base}, cs \in {Changes} : Underway(base, cs)

\* Counting the occurrences of one reference.
LEMMA CountIsTyped ==
  ASSUME NEW S, NEW s \in Seq(S), NEW y
  PROVE  IsFiniteSet({i \in DOMAIN s : s[i] = y}) /\ Count(s, y) \in Nat
<1>1. IsFiniteSet(DOMAIN s)
  <2>1. DOMAIN s = 1..Len(s) /\ 1 \in Int /\ Len(s) \in Int
    OBVIOUS
  <2> QED
    BY <2>1, FS_Interval
<1>2. {i \in DOMAIN s : s[i] = y} \in SUBSET DOMAIN s
  OBVIOUS
<1>3. IsFiniteSet({i \in DOMAIN s : s[i] = y})
  BY <1>1, <1>2, FS_Subset
<1> QED
  BY <1>3, FS_CardinalityType DEF Count

LEMMA CountOfEmpty ==
  ASSUME NEW y
  PROVE  Count(<<>>, y) = 0
<1>1. {i \in DOMAIN <<>> : <<>>[i] = y} = {}
  OBVIOUS
<1> QED
  BY <1>1, FS_EmptySet DEF Count

LEMMA CountOfAppend ==
  ASSUME NEW S, NEW s \in Seq(S), NEW x \in S, NEW y
  PROVE  Count(Append(s, x), y) = IF x = y THEN Count(s, y) + 1 ELSE Count(s, y)
<1> DEFINE t == Append(s, x)
           n == Len(s)
           I == {i \in DOMAIN s : s[i] = y}
           J == {i \in DOMAIN t : t[i] = y}
<1>1. DOMAIN s = 1..n /\ DOMAIN t = 1..n + 1 /\ n \in Nat /\ t[n + 1] = x
      /\ \A i \in 1..n : t[i] = s[i]
  OBVIOUS
<1>2. IsFiniteSet(I) /\ Count(s, y) = Cardinality(I) /\ Count(t, y) = Cardinality(J)
  BY CountIsTyped DEF Count
<1> HIDE DEF t, n
<1>3. n + 1 \notin I
  BY <1>1
<1>4. CASE x = y
  <2>1. J = I \cup {n + 1}
    BY <1>1, <1>4
  <2> HIDE DEF I, J
  <2>2. Cardinality(J) = Cardinality(I) + 1
    BY <1>2, <1>3, <2>1, FS_AddElement
  <2> QED
    BY <1>2, <1>4, <2>2 DEF t
<1>5. CASE x # y
  <2>1. J = I
    BY <1>1, <1>5
  <2> QED
    BY <1>2, <1>5, <2>1 DEF t
<1> QED
  BY <1>4, <1>5

LEMMA CountOfHead ==
  ASSUME NEW S, NEW s \in Seq(S), s # <<>>, NEW y
  PROVE  Count(s, y) = IF Head(s) = y THEN Count(Tail(s), y) + 1 ELSE Count(Tail(s), y)
<1> DEFINE t == Tail(s)
           n == Len(s)
           I == {i \in DOMAIN t : t[i] = y}
           J == {i \in DOMAIN s : s[i] = y}
           K == J \ {1}
           f == [i \in I |-> i + 1]
<1>1. /\ n \in Nat /\ n > 0 /\ DOMAIN s = 1..n /\ DOMAIN t = 1..n - 1 /\ t \in Seq(S)
      /\ \A i \in 1..n - 1 : t[i] = s[i + 1]
      /\ Head(s) = s[1]
  OBVIOUS
<1>2. /\ IsFiniteSet(I) /\ IsFiniteSet(J)
      /\ Count(t, y) = Cardinality(I) /\ Count(s, y) = Cardinality(J)
  BY <1>1, CountIsTyped DEF Count
<1> HIDE DEF t, n
<1>3. f \in Bijection(I, K)
  <2>1. \A i \in I : i \in Nat /\ i + 1 \in K
    BY <1>1
  <2>2. \A k \in K : k - 1 \in I /\ (k - 1) + 1 = k
    <3> TAKE k \in K
    <3>1. k \in 1..n /\ k # 1 /\ s[k] = y
      BY <1>1
    <3>2. k - 1 \in 1..n - 1 /\ (k - 1) + 1 = k
      BY <1>1, <3>1
    <3> QED
      BY <1>1, <3>1, <3>2
  <2> HIDE DEF I, K
  <2>3. f \in Injection(I, K)
    <3>1. f \in [I -> K]
      BY <2>1
    <3>2. \A i, j \in I : f[i] = f[j] => i = j
      BY <2>1
    <3> HIDE DEF f
    <3> QED
      BY <3>1, <3>2 DEF Injection, IsInjective
  <2>4. f \in Surjection(I, K)
    BY <2>1, <2>2 DEF Surjection
  <2> QED
    BY <2>3, <2>4 DEF Bijection
<1>4. Cardinality(K) = Cardinality(I)
  BY <1>2, <1>3, FS_Bijection DEF ExistsBijection
<1>5. Cardinality(K) = IF 1 \in J THEN Cardinality(J) - 1 ELSE Cardinality(J)
  BY <1>2, FS_RemoveElement
<1>6. 1 \in J <=> Head(s) = y
  BY <1>1
<1>7. Cardinality(I) \in Nat /\ Cardinality(J) \in Nat
  BY <1>2, FS_CardinalityType
<1> HIDE DEF I, J, K, f
<1> QED
  BY <1>2, <1>4, <1>5, <1>6, <1>7 DEF t

LEMMA CountOfFacts ==
  ASSUME NEW f \in Facts, NEW r \in Refs
  PROVE  Count(UsagesOf[f], r) = Abstract!PostingsOf(f)[r]
<1> DEFINE I == {i \in DOMAIN UsagesOf[f] : UsagesOf[f][i] = r}
<1>1. Count(UsagesOf[f], r) = Cardinality(I)
  BY DEF Count
<1>2. Abstract!PostingsOf(f)[r] =
        IF \E i \in DOMAIN UsagesOf[f] : UsagesOf[f][i] = r THEN 1 ELSE 0
  BY DEF Abstract!PostingsOf
<1>3. CASE I = {}
  BY <1>1, <1>2, <1>3, FS_EmptySet
<1>4. CASE I # {}
  <2>1. PICK i \in I : TRUE
    BY <1>4
  <2>2. I = {i}
    BY <2>1, OccurrencesAreDistinct
  <2>3. Cardinality(I) = 1
    BY <2>2, FS_Singleton
  <2> QED
    BY <1>1, <1>2, <2>1, <2>3
<1> QED
  BY <1>3, <1>4

-----------------------------------------------------------------------------
(* What a step leaves alone.                                               *)

LEMMA RefsAreOccurrences ==
  /\ \A r \in Refs : r \in Occurrences /\ r.name \in Names /\ r.name \in Keys
  /\ \A f \in Facts : UsagesOf[f] \in Seq(Occurrences)
<1>1. \A f \in Facts : UsagesOf[f] \in Seq(Occurrences)
  BY MemoryStoreAssumption
<1>2. \A f \in Facts : \A i \in DOMAIN UsagesOf[f] : UsagesOf[f][i] \in Occurrences
  BY <1>1
<1>3. \A r \in Refs : r \in Occurrences
  BY <1>2 DEF Refs
<1> QED
  BY <1>1, <1>3 DEF Occurrences, Keys

LEMMA OccurrencesAreCounted ==
  ASSUME IndInv, NEW p \in Paths, NEW r \in Refs
  PROVE  /\ OccurrencesOf(p, r) \in Nat
         /\ fileIDs[p] \in FileIDs \cup {0} /\ nameIDs[r.name] \in NameIDs \cup {0}
         /\ fileIDs[p] # 0 /\ nameIDs[r.name] # 0 =>
              OccurrencesOf(p, r) = Count(usages[nameIDs[r.name]][fileIDs[p]], r)
<1>1. fileIDs[p] \in FileIDs \cup {0} /\ nameIDs[r.name] \in NameIDs \cup {0}
  BY RefsAreOccurrences DEF IndInv, TypeOK
<1>2. CASE fileIDs[p] = 0 \/ nameIDs[r.name] = 0
  BY <1>1, <1>2 DEF OccurrencesOf
<1>3. CASE fileIDs[p] # 0 /\ nameIDs[r.name] # 0
  <2>1. usages[nameIDs[r.name]][fileIDs[p]] \in Seq(Occurrences)
    BY <1>1, <1>3 DEF IndInv, TypeOK
  <2> QED
    BY <1>1, <1>3, <2>1, CountIsTyped DEF OccurrencesOf
<1> QED
  BY <1>2, <1>3

\* Ids that are not given out yet have no postings.
LEMMA FreshIDs ==
  ASSUME IndInv
  PROVE  /\ \A n \in NameIDs, g \in FileIDs : n = Len(names) + 1 => usages[n][g] = <<>>
         /\ \A n \in NameIDs, g \in FileIDs : g = Len(paths) + 1 => usages[n][g] = <<>>
         /\ \A g \in FileIDs : g = Len(paths) + 1 => files[g] = NoFacts
<1>1. Len(names) \in Nat /\ Len(paths) \in Nat
  BY DEF IndInv, TypeOK
<1>2. ASSUME NEW n \in NameIDs, NEW g \in FileIDs, usages[n][g] # <<>>
      PROVE  n <= Len(names)
  <2>1. usages[n][g] \in Seq(Occurrences)
    BY DEF IndInv, TypeOK
  <2>2. 1 \in 1..Len(usages[n][g])
    BY <1>2, <2>1
  <2> QED
    BY <2>2 DEF IndInv, PostingsAreNamed
<1>3. \A g \in FileIDs : files[g] # NoFacts => g <= Len(paths)
  BY DEF IndInv, JobAtHand
<1>4. \A n \in NameIDs, g \in FileIDs : usages[n][g] # <<>> => files[g] # NoFacts
  BY DEF IndInv, InverseIsExact
<1>5. \A g \in FileIDs : g = Len(paths) + 1 => files[g] = NoFacts
  BY <1>1, <1>3
<1> QED
  BY <1>1, <1>2, <1>4, <1>5

\* A string keeps its id; one that is new has no postings.
KeepsID(k) ==
  \/ nameIDs'[k] = nameIDs[k]
  \/ /\ nameIDs[k] = 0 /\ nameIDs'[k] \in NameIDs
     /\ \A g \in FileIDs : usages[nameIDs'[k]][g] = <<>>

LEMMA NamesGrow ==
  ASSUME IndInv, NEW k \in Keys, InternName(k), NEW q \in Keys
  PROVE  KeepsID(q)
<1>1. CASE nameIDs[k] # 0
  BY <1>1 DEF InternName, KeepsID
<1>2. CASE nameIDs[k] = 0
  <2>1. /\ nameIDs' = [nameIDs EXCEPT ![k] = Len(names) + 1]
        /\ Len(names) < MaxNameIDs /\ Len(names) \in Nat
    BY <1>2 DEF InternName, IndInv, TypeOK
  <2>2. Len(names) + 1 \in NameIDs
    BY <2>1, MemoryStoreAssumption DEF NameIDs
  <2>3. CASE q = k
    BY <1>2, <2>1, <2>2, <2>3, FreshIDs DEF KeepsID, IndInv, TypeOK
  <2>4. CASE q # k
    BY <2>1, <2>4 DEF KeepsID, IndInv, TypeOK
  <2> QED
    BY <2>3, <2>4
<1> QED
  BY <1>1, <1>2

LEMMA FilesGrow ==
  ASSUME IndInv, NEW p \in Paths, InternFile(p)
  PROVE  /\ fileIDs'[p] \in FileIDs
         /\ \A q \in Paths : q # p => fileIDs'[q] = fileIDs[q]
         /\ fileIDs[p] # 0 => fileIDs'[p] = fileIDs[p]
         /\ fileIDs[p] = 0 => /\ \A n \in NameIDs : usages[n][fileIDs'[p]] = <<>>
                              /\ files[fileIDs'[p]] = NoFacts
<1>1. fileIDs'[p] \in FileIDs
  BY InternFileKeeps DEF IndInv
<1>2. CASE fileIDs[p] # 0
  BY <1>1, <1>2 DEF InternFile
<1>3. CASE fileIDs[p] = 0
  <2>1. fileIDs' = [fileIDs EXCEPT ![p] = Len(paths) + 1] /\ fileIDs \in [Paths -> FileIDs \cup {0}]
    BY <1>3 DEF InternFile, IndInv, TypeOK
  <2>2. fileIDs'[p] = Len(paths) + 1
    BY <2>1
  <2> QED
    BY <1>1, <1>3, <2>1, <2>2, FreshIDs
<1> QED
  BY <1>2, <1>3

\* The postings of a path q whose file does not move are read as before.
LEMMA OccurrencesKept ==
  ASSUME IndInv, NEW q \in Paths, NEW r \in Refs, KeepsID(r.name),
         fileIDs'[q] = fileIDs[q],
         fileIDs[q] # 0 => \A n \in NameIDs : usages'[n][fileIDs[q]] = usages[n][fileIDs[q]]
  PROVE  OccurrencesOf(q, r)' = OccurrencesOf(q, r)
<1>1. fileIDs[q] \in FileIDs \cup {0} /\ nameIDs[r.name] \in NameIDs \cup {0}
  BY OccurrencesAreCounted
<1>2. CASE fileIDs[q] = 0
  BY <1>2 DEF OccurrencesOf
<1>3. CASE fileIDs[q] # 0 /\ nameIDs'[r.name] = nameIDs[r.name]
  BY <1>1, <1>3 DEF OccurrencesOf
<1>4. CASE fileIDs[q] # 0 /\ nameIDs'[r.name] # nameIDs[r.name]
  <2>1. nameIDs[r.name] = 0 /\ nameIDs'[r.name] \in NameIDs
        /\ usages'[nameIDs'[r.name]][fileIDs[q]] = <<>>
    BY <1>1, <1>4 DEF KeepsID
  <2> QED
    BY <2>1, CountOfEmpty DEF OccurrencesOf
<1> QED
  BY <1>2, <1>3, <1>4

\* A step on the file of p does not move another path's file.
LEMMA OthersKept ==
  ASSUME IndInv, IndInv', NEW p \in Paths, NEW q \in Paths, q # p,
         fileIDs'[q] = fileIDs[q],
         \A r \in Refs : KeepsID(r.name),
         \A g \in FileIDs : g # fileIDs'[p] =>
           files'[g] = files[g] /\ \A n \in NameIDs : usages'[n][g] = usages[n][g]
  PROVE  EntryOf(q)' = EntryOf(q) /\ \A r \in Refs : OccurrencesOf(q, r)' = OccurrencesOf(q, r)
<1>1. fileIDs[q] # 0 => fileIDs[q] \in FileIDs /\ fileIDs[q] # fileIDs'[p]
  BY DEF IndInv, TypeOK, InterningIsBijective
<1>2. EntryOf(q)' = EntryOf(q)
  BY <1>1 DEF EntryOf, Indexed
<1>3. \A r \in Refs : OccurrencesOf(q, r)' = OccurrencesOf(q, r)
  BY <1>1, OccurrencesKept
<1> QED
  BY <1>2, <1>3

\* A path that the step is not about makes no progress.
LEMMA NoProgress ==
  ASSUME NEW q \in Paths, NEW base, NEW cs, job.at # q, job'.at # q,
         q \in job'.delete <=> q \in job.delete,
         job'.update[q] = job.update[q], job'.add[q] = job.add[q],
         EntryOf(q)' = EntryOf(q),
         \A r \in Refs : OccurrencesOf(q, r)' = OccurrencesOf(q, r),
         Progress(q, base, cs)
  PROVE  Progress(q, base, cs)' /\ (Waits(q)' <=> Waits(q))
<1>1. Waits(q)' <=> Waits(q)
  BY DEF Waits
<1>2. ToCome(q)' = ToCome(q)
  BY DEF ToCome
<1>3. EntriesOf(job.update)[q]' = EntriesOf(job.update)[q]
      /\ EntriesOf(job.add)[q]' = EntriesOf(job.add)[q]
  BY DEF EntriesOf
<1>4. AsItWas(q, base, cs)' <=> AsItWas(q, base, cs)
  BY <1>3 DEF AsItWas
<1>5. AsItWillBe(q, base, cs)' <=> AsItWillBe(q, base, cs)
  BY <1>2 DEF AsItWillBe
<1> QED
  BY <1>1, <1>4, <1>5 DEF Progress

-----------------------------------------------------------------------------
(* The steps of a call keep Underway.                                      *)

\* What is given is a record; a path that is in the job is in the call.
LEMMA EntriesAreFacts ==
  ASSUME NEW m \in MaybeFiles, NEW p \in Paths
  PROVE  /\ EntriesOf(m)[p] = NoFacts <=> m[p] = NoFacts
         /\ m[p] # NoFacts => m[p] \in Facts /\ EntriesOf(m)[p] = [facts |-> m[p]]
<1>1. m[p] # NoFacts => m[p] \in Facts
  BY DEF MaybeFiles
<1>2. \A f \in Facts : [facts |-> f] # NoFacts
  BY RefinementAssumption
<1> QED
  BY <1>1, <1>2 DEF EntriesOf

LEMMA DeleteKeepsUnderway ==
  ASSUME IndInv, IndInv', NEW base, NEW cs, Underway(base, cs), NEW p \in Paths, Delete(p)
  PROVE  Underway(base, cs)'
<1>1. /\ job \in Jobs /\ job.at = 0 /\ job.phase = "files" /\ p \in job.delete
      /\ job' = [job EXCEPT !.delete = job.delete \ {p}]
      /\ errors' = errors \ {p}
      /\ UNCHANGED <<paths, fileIDs, names, nameIDs>>
  BY DEF IndInv, TypeOK, Delete, Looping, tables
<1>2. /\ job'.at = 0 /\ job'.phase = "files" /\ job'.errs = job.errs /\ job'.delete = job.delete \ {p}
      /\ job'.update = job.update /\ job'.add = job.add
  BY <1>1 DEF Jobs
<1>3. p # 0 /\ job.update \in MaybeFiles /\ job.add \in MaybeFiles
  BY <1>1, MemoryStoreAssumption DEF Jobs
<1>4. /\ InOneMap(p, cs) /\ Progress(p, base, cs) /\ Failed(p, base, cs)
      /\ Waits(p) /\ AsItWas(p, base, cs)
  BY <1>1, <1>3 DEF Underway, Progress, Waits
<1>5. p \in cs.deleted /\ cs.updated[p] = NoFacts /\ cs.added[p] = NoFacts
  BY <1>1, <1>4 DEF AsItWas, InOneMap
<1>6. ~Waits(p)'
  <2>1. job.update[p] = NoFacts /\ job.add[p] = NoFacts
    BY <1>3, <1>4, <1>5, EntriesAreFacts DEF AsItWas
  <2> QED
    BY <1>2, <2>1 DEF Waits
<1>7. EntryOf(p)' = NoFacts /\ \A r \in Refs : OccurrencesOf(p, r)' = 0
  <2>1. CASE fileIDs[p] = 0
    BY <1>1, <2>1 DEF EntryOf, Indexed, OccurrencesOf
  <2>2. CASE fileIDs[p] # 0
    <3>1. /\ fileIDs[p] \in FileIDs
          /\ files' = [files EXCEPT ![fileIDs[p]] = NoFacts] /\ usages' = UsagesWithout(fileIDs[p])
      BY <2>2 DEF Delete, IndInv, TypeOK
    <3>2. \A n \in NameIDs : usages'[n][fileIDs[p]] = <<>>
      BY <3>1, RemoveKeeps DEF IndInv
    <3>3. EntryOf(p)' = NoFacts
      BY <1>1, <2>2, <3>1 DEF EntryOf, Indexed, IndInv, TypeOK
    <3>4. \A r \in Refs : OccurrencesOf(p, r)' = 0
      <4> TAKE r \in Refs
      <4>1. nameIDs[r.name] \in NameIDs \cup {0}
        BY OccurrencesAreCounted
      <4> QED
        BY <1>1, <2>2, <3>2, <4>1, CountOfEmpty DEF OccurrencesOf
    <3> QED
      BY <3>3, <3>4
  <2> QED
    BY <2>1, <2>2
<1>8. Progress(p, base, cs)'
  <2>1. Abstract!EntryAfter(base.entries[p], p, cs) = NoFacts
    BY <1>5 DEF Abstract!EntryAfter
  <2>2. \A r \in Refs : Abstract!PostingsAfter(base.postings[p], p, cs)[r] = 0
    BY <1>5 DEF Abstract!PostingsAfter, Abstract!NoPostings
  <2>3. ToCome(p)' = <<>>
    BY <1>2, <1>3 DEF ToCome
  <2>4. \A r \in Refs : Count(<<>>, r) = 0
    BY CountOfEmpty
  <2>5. AsItWillBe(p, base, cs)'
    BY <1>7, <2>1, <2>2, <2>3, <2>4 DEF AsItWillBe
  <2> QED
    BY <1>6, <2>5 DEF Progress
<1>9. ASSUME NEW q \in Paths, q # p
      PROVE  Progress(q, base, cs)' /\ (Waits(q)' <=> Waits(q))
  <2>1. \A g \in FileIDs : g # fileIDs'[p] =>
          files'[g] = files[g] /\ \A n \in NameIDs : usages'[n][g] = usages[n][g]
    <3>1. CASE fileIDs[p] = 0
      BY <3>1 DEF Delete, postings
    <3>2. CASE fileIDs[p] # 0
      <4>1. /\ fileIDs[p] \in FileIDs
            /\ files' = [files EXCEPT ![fileIDs[p]] = NoFacts] /\ usages' = UsagesWithout(fileIDs[p])
        BY <3>2 DEF Delete, IndInv, TypeOK
      <4>2. \A n \in NameIDs, g \in FileIDs : g # fileIDs[p] => usages'[n][g] = usages[n][g]
        BY <4>1, RemoveKeeps DEF IndInv
      <4>3. \A g \in FileIDs : g # fileIDs[p] => files'[g] = files[g]
        BY <4>1 DEF IndInv, TypeOK
      <4> QED
        BY <1>1, <4>2, <4>3
    <3> QED
      BY <3>1, <3>2
  <2>2. \A r \in Refs : KeepsID(r.name)
    BY <1>1 DEF KeepsID
  <2>3. EntryOf(q)' = EntryOf(q) /\ \A r \in Refs : OccurrencesOf(q, r)' = OccurrencesOf(q, r)
    BY <1>1, <1>9, <2>1, <2>2, OthersKept
  <2>4. Progress(q, base, cs) /\ q # 0 /\ (q \in job'.delete <=> q \in job.delete)
    BY <1>2, <1>9, MemoryStoreAssumption DEF Underway
  <2> QED
    BY <1>1, <1>2, <2>3, <2>4, NoProgress
<1>10. \A q \in Paths : Failed(q, base, cs)'
  <2> TAKE q \in Paths
  <2>1. CASE q = p
    BY <1>1, <1>2, <1>5, <1>6, <2>1 DEF Failed, InNoMap
  <2>2. CASE q # p
    <3>1. Failed(q, base, cs) /\ q # 0
      BY MemoryStoreAssumption DEF Underway
    <3> QED
      BY <1>1, <1>2, <1>9, <2>2, <3>1 DEF Failed
  <2> QED
    BY <2>1, <2>2
<1>11. \A q \in Paths : Progress(q, base, cs)'
  BY <1>8, <1>9
<1> QED
  BY <1>2, <1>10, <1>11 DEF Underway

LEMMA BeginKeepsUnderway ==
  ASSUME IndInv, IndInv', NEW base, NEW cs, Underway(base, cs), NEW p \in Paths,
         UpdateBegin(p) \/ AddBegin(p)
  PROVE  Underway(base, cs)'
<1>1. /\ job \in Jobs /\ job.at = 0 /\ job.phase = "files" /\ job.delete = {}
      /\ errors' = errors \ {p} /\ UNCHANGED <<names, nameIDs>> /\ InternFile(p)
      /\ job.update \in MaybeFiles /\ job.add \in MaybeFiles
  BY DEF IndInv, TypeOK, UpdateBegin, AddBegin, Looping, Jobs
<1>2. job.update[p] # NoFacts \/ job.add[p] # NoFacts
  BY DEF UpdateBegin, AddBegin, Given
<1>3. /\ InOneMap(p, cs) /\ Failed(p, base, cs) /\ Waits(p) /\ AsItWas(p, base, cs) /\ p # 0
  BY <1>1, <1>2, MemoryStoreAssumption DEF Underway, Progress, Waits
<1>4. /\ job.update[p] = NoFacts <=> cs.updated[p] = NoFacts
      /\ job.add[p] = NoFacts <=> cs.added[p] = NoFacts
      /\ job.update[p] # NoFacts => job.update[p] \in Facts /\ cs.updated[p] = [facts |-> job.update[p]]
      /\ job.add[p] # NoFacts => job.add[p] \in Facts /\ cs.added[p] = [facts |-> job.add[p]]
      /\ p \notin cs.deleted
  BY <1>1, <1>3, EntriesAreFacts DEF AsItWas
<1>5. /\ fileIDs'[p] \in FileIDs /\ fileIDs'[p] # 0
      /\ \A q \in Paths : q # p => fileIDs'[q] = fileIDs[q]
      /\ fileIDs[p] # 0 => fileIDs'[p] = fileIDs[p]
      /\ fileIDs[p] = 0 => \A n \in NameIDs : usages[n][fileIDs'[p]] = <<>>
  BY <1>1, FilesGrow DEF FileIDs
<1>6. \A r \in Refs : nameIDs[r.name] \in NameIDs \cup {0}
  BY OccurrencesAreCounted
\* What the two have in common, with f the facts and `after` the postings that
\* are left when the insertion begins.
<1>7. ASSUME NEW f \in Facts, NEW after,
             job' = [job EXCEPT !.at = p, !.rest = UsagesOf[f]],
             files' = [files EXCEPT ![fileIDs'[p]] = f],
             \A g \in FileIDs : g # fileIDs'[p] => \A n \in NameIDs : usages'[n][g] = usages[n][g],
             Abstract!EntryAfter(base.entries[p], p, cs) = [facts |-> f],
             \A r \in Refs : OccurrencesOf(p, r)' = after[r],
             \A r \in Refs : Abstract!PostingsAfter(base.postings[p], p, cs)[r]
                               = after[r] + Abstract!PostingsOf(f)[r]
      PROVE  Underway(base, cs)'
  <2>1. /\ job'.at = p /\ job'.rest = UsagesOf[f] /\ job'.phase = "files" /\ job'.errs = job.errs
        /\ job'.delete = {} /\ job'.update = job.update /\ job'.add = job.add
    BY <1>1, <1>7 DEF Jobs
  <2>2. EntryOf(p)' = [facts |-> f]
    <3>1. files'[fileIDs'[p]] = f /\ f # NoFacts
      BY <1>5, <1>7, MemoryStoreAssumption DEF IndInv, TypeOK
    <3> QED
      BY <1>5, <3>1 DEF EntryOf, Indexed
  <2>3. Progress(p, base, cs)'
    <3>1. ToCome(p)' = UsagesOf[f]
      BY <2>1 DEF ToCome
    <3>2. \A r \in Refs : Count(UsagesOf[f], r) = Abstract!PostingsOf(f)[r]
      BY CountOfFacts
    <3>3. AsItWillBe(p, base, cs)'
      BY <1>7, <2>2, <3>1, <3>2 DEF AsItWillBe
    <3> QED
      BY <2>1, <3>3 DEF Progress
  <2>4. ASSUME NEW q \in Paths, q # p
        PROVE  Progress(q, base, cs)' /\ (Waits(q)' <=> Waits(q))
    <3>1. \A g \in FileIDs : g # fileIDs'[p] =>
            files'[g] = files[g] /\ \A n \in NameIDs : usages'[n][g] = usages[n][g]
      BY <1>5, <1>7 DEF IndInv, TypeOK
    <3>2. \A r \in Refs : KeepsID(r.name)
      BY <1>1 DEF KeepsID
    <3>3. EntryOf(q)' = EntryOf(q) /\ \A r \in Refs : OccurrencesOf(q, r)' = OccurrencesOf(q, r)
      BY <1>5, <2>4, <3>1, <3>2, OthersKept
    <3>4. Progress(q, base, cs) /\ q # 0
      BY MemoryStoreAssumption DEF Underway
    <3> QED
      BY <1>1, <2>1, <2>4, <3>3, <3>4, NoProgress
  <2>5. \A q \in Paths : Failed(q, base, cs)'
    <3> TAKE q \in Paths
    <3>1. CASE q = p
      <4>1. ~InNoMap(p, cs)
        BY <1>2, <1>3, <1>4 DEF InNoMap
      <4> QED
        BY <1>1, <2>1, <3>1, <4>1 DEF Failed
    <3>2. CASE q # p
      <4>1. Failed(q, base, cs) /\ q # 0
        BY MemoryStoreAssumption DEF Underway
      <4>2. (Waits(q) /\ job.at # q)' <=> (Waits(q) /\ job.at # q)
        BY <1>1, <2>1, <2>4, <3>2, <4>1
      <4> QED
        BY <1>1, <2>1, <3>2, <4>1, <4>2 DEF Failed
    <3> QED
      BY <3>1, <3>2
  <2>6. \A q \in Paths : Progress(q, base, cs)'
    BY <2>3, <2>4
  <2> QED
    BY <2>1, <2>5, <2>6 DEF Underway
<1>8. CASE UpdateBegin(p)
  <2> DEFINE f == job.update[p]
  <2>1. /\ f \in Facts /\ f # NoFacts /\ job' = [job EXCEPT !.at = p, !.rest = UsagesOf[f]]
        /\ files' = [files EXCEPT ![fileIDs'[p]] = f]
    BY <1>4, <1>8 DEF UpdateBegin, Given
  <2>2. cs.updated[p] = [facts |-> f] /\ cs.updated[p] # NoFacts /\ cs.added[p] = NoFacts
    BY <1>3, <1>4, <2>1 DEF InOneMap
  <2>3. /\ \A n \in NameIDs : usages'[n][fileIDs'[p]] = <<>>
        /\ \A g \in FileIDs : g # fileIDs'[p] => \A n \in NameIDs : usages'[n][g] = usages[n][g]
    <3>1. CASE fileIDs[p] = 0
      BY <1>5, <1>8, <3>1 DEF UpdateBegin, postings
    <3>2. CASE fileIDs[p] # 0
      <4>1. usages' = UsagesWithout(fileIDs[p]) /\ fileIDs'[p] = fileIDs[p]
        BY <1>5, <1>8, <3>2 DEF UpdateBegin
      <4>2. \A n \in NameIDs, g \in FileIDs :
              usages'[n][g] = IF g = fileIDs[p] THEN <<>> ELSE usages[n][g]
        BY <1>5, <4>1, RemoveKeeps DEF IndInv
      <4> QED
        BY <1>5, <4>1, <4>2
    <3> QED
      BY <3>1, <3>2
  <2>4. \A r \in Refs : OccurrencesOf(p, r)' = Abstract!NoPostings[r]
    <3> TAKE r \in Refs
    <3>1. Abstract!NoPostings[r] = 0
      BY DEF Abstract!NoPostings
    <3> QED
      BY <1>1, <1>5, <1>6, <2>3, <3>1, CountOfEmpty DEF OccurrencesOf
  <2>5. Abstract!EntryAfter(base.entries[p], p, cs) = [facts |-> f]
    BY <2>2 DEF Abstract!EntryAfter
  <2>6. \A r \in Refs : Abstract!PostingsAfter(base.postings[p], p, cs)[r]
                          = Abstract!NoPostings[r] + Abstract!PostingsOf(f)[r]
    <3>1. p \in Abstract!PathsIn(cs.updated)
      BY <2>2 DEF Abstract!PathsIn
    <3>2. cs.updated[p].facts = f
      BY <2>2
    <3> HIDE DEF f
    <3> QED
      BY <2>2, <3>1, <3>2 DEF Abstract!PostingsAfter, Abstract!AddPostings
  <2> HIDE DEF f
  <2> QED
    BY <1>7, <2>1, <2>3, <2>4, <2>5, <2>6
<1>9. CASE AddBegin(p)
  <2> DEFINE f == job.add[p]
  <2>1. /\ f \in Facts /\ f # NoFacts /\ job' = [job EXCEPT !.at = p, !.rest = UsagesOf[f]]
        /\ files' = [files EXCEPT ![fileIDs'[p]] = f]
        /\ usages' = usages
    BY <1>4, <1>9 DEF AddBegin, Given, postings
  <2>2. cs.added[p] = [facts |-> f] /\ cs.added[p] # NoFacts /\ cs.updated[p] = NoFacts
    BY <1>3, <1>4, <2>1 DEF InOneMap
  <2>3. \A r \in Refs : OccurrencesOf(p, r)' = base.postings[p][r]
    <3> TAKE r \in Refs
    <3>1. OccurrencesOf(p, r) = base.postings[p][r]
      BY <1>3 DEF AsItWas
    <3>2. CASE fileIDs[p] # 0
      BY <1>1, <1>5, <2>1, <3>1, <3>2 DEF OccurrencesOf
    <3>3. CASE fileIDs[p] = 0
      BY <1>1, <1>5, <1>6, <2>1, <3>1, <3>3, CountOfEmpty DEF OccurrencesOf
    <3> QED
      BY <3>2, <3>3
  <2>4. Abstract!EntryAfter(base.entries[p], p, cs) = [facts |-> f]
    BY <2>2 DEF Abstract!EntryAfter
  <2>5. \A r \in Refs : Abstract!PostingsAfter(base.postings[p], p, cs)[r]
                          = base.postings[p][r] + Abstract!PostingsOf(f)[r]
    <3>1. p \notin cs.deleted \cup Abstract!PathsIn(cs.updated)
      BY <1>4, <2>2 DEF Abstract!PathsIn
    <3>2. cs.added[p].facts = f
      BY <2>2
    <3> HIDE DEF f
    <3> QED
      BY <2>2, <3>1, <3>2 DEF Abstract!PostingsAfter, Abstract!AddPostings
  <2> DEFINE after == base.postings[p]
  <2> HIDE DEF f, after
  <2>6. \A r \in Refs : OccurrencesOf(p, r)' = after[r]
    BY <2>3 DEF after
  <2>7. \A r \in Refs : Abstract!PostingsAfter(base.postings[p], p, cs)[r]
                          = after[r] + Abstract!PostingsOf(f)[r]
    BY <2>5 DEF after
  <2> QED
    BY <1>7, <2>1, <2>4, <2>6, <2>7
<1> QED
  BY <1>8, <1>9
\* An occurrence moves from those to come to the postings.
LEMMA InsertUsageKeepsUnderway ==
  ASSUME IndInv, IndInv', NEW base, NEW cs, Underway(base, cs), InsertUsage
  PROVE  Underway(base, cs)'
<1> PICK p, u, fid, m : /\ p = job.at /\ u = Head(job.rest)
                        /\ fid = fileIDs[p] /\ m = nameIDs'[u.name]
  OBVIOUS
<1>1. /\ job \in Jobs /\ p # 0 /\ p \in Paths
      /\ job.rest # <<>> /\ job.rest \in Seq(Occurrences) /\ u \in Occurrences
  <2>1. job \in Jobs /\ job.at # 0 /\ job.rest # <<>>
    BY Zenon DEF IndInv, TypeOK, InsertUsage
  <2>2. job.at \in Paths /\ job.rest \in Seq(Occurrences)
    BY <2>1 DEF Jobs
  <2>3. Head(job.rest) \in Occurrences
    BY <2>1, <2>2
  <2> QED
    BY <2>1, <2>2, <2>3
<1>2. /\ job' = [job EXCEPT !.rest = Tail(job.rest)]
      /\ UNCHANGED <<fileIDs, files, errors>> /\ InternName(u.name)
      /\ usages' = [usages EXCEPT ![m][fid] = Append(@, u)]
  BY Zenon, <1>1 DEF InsertUsage
<1>3. /\ job'.at = p /\ job'.rest = Tail(job.rest) /\ job'.phase = job.phase /\ job'.errs = job.errs
      /\ job'.delete = job.delete /\ job'.update = job.update /\ job'.add = job.add
  BY <1>1, <1>2 DEF Jobs
<1>4. u.name \in Keys
  BY <1>1 DEF Occurrences, Keys
<1>5. fid \in FileIDs /\ fid # 0
  BY <1>1 DEF IndInv, JobAtHand, TypeOK
<1>6. m \in NameIDs /\ m # 0
  <2>1. nameIDs'[u.name] \in NameIDs
    BY Zenon, <1>2, <1>4, InternNameKeeps DEF IndInv
  <2> QED
    BY <2>1 DEF NameIDs
<1>7. \A r \in Refs : KeepsID(r.name)
  BY Zenon, <1>2, <1>4, NamesGrow, RefsAreOccurrences
<1>8. \A n \in NameIDs, g \in FileIDs :
        usages'[n][g] = IF n = m /\ g = fid THEN Append(usages[m][fid], u) ELSE usages[n][g]
  <2>1. usages \in [NameIDs -> [FileIDs -> Seq(Occurrences)]]
    BY DEF IndInv, TypeOK
  <2> QED
    BY Zenon, <1>2, <1>5, <1>6, <2>1
<1>9. usages[m][fid] \in Seq(Occurrences)
  BY <1>5, <1>6 DEF IndInv, TypeOK
<1>10. ASSUME NEW r \in Refs
       PROVE  OccurrencesOf(p, r)' + Count(Tail(job.rest), r) = OccurrencesOf(p, r) + Count(job.rest, r)
  <2> PICK k, counted : k = nameIDs'[r.name] /\ counted = Count(usages[k][fid], r)
    OBVIOUS
  <2>1. r \in Occurrences /\ r.name \in Keys
    BY RefsAreOccurrences
  <2>2. k \in NameIDs \cup {0} /\ OccurrencesOf(p, r) \in Nat
    BY <1>1, <2>1, OccurrencesAreCounted DEF IndInv, TypeOK
  <2>3. OccurrencesOf(p, r) = IF k = 0 THEN 0 ELSE counted
    <3>1. KeepsID(r.name)
      BY <1>7
    <3>2. CASE k = nameIDs[r.name]
      BY <1>5, <3>2 DEF OccurrencesOf
    <3>3. CASE k # nameIDs[r.name]
      <4>1. nameIDs[r.name] = 0 /\ k # 0 /\ usages[k][fid] = <<>>
        BY <1>5, <3>1, <3>3 DEF KeepsID
      <4> QED
        BY <4>1, CountOfEmpty DEF OccurrencesOf
    <3> QED
      BY <3>2, <3>3
  <2>4. OccurrencesOf(p, r)' = IF k = 0 THEN 0 ELSE Count(usages'[k][fid], r)
    <3>1. fileIDs'[p] = fid
      BY Zenon, <1>2
    <3> QED
      BY <1>5, <3>1 DEF OccurrencesOf
  <2>5. Count(job.rest, r) = IF u = r THEN Count(Tail(job.rest), r) + 1 ELSE Count(Tail(job.rest), r)
    BY <1>1, CountOfHead
  <2>6. Count(Tail(job.rest), r) \in Nat
    <3>1. Tail(job.rest) \in Seq(Occurrences)
      BY <1>1
    <3> QED
      BY <3>1, CountIsTyped
  <2>7. CASE u = r
    <3>1. k = m
      BY <2>7
    <3>2. Count(usages'[k][fid], r) = counted + 1
      <4>1. usages'[k][fid] = Append(usages[m][fid], u)
        BY Zenon, <1>5, <1>6, <1>8, <3>1
      <4>2. Count(Append(usages[m][fid], u), r) = Count(usages[m][fid], r) + 1
        BY <1>1, <1>9, <2>7, CountOfAppend
      <4> QED
        BY Zenon, <3>1, <4>1, <4>2
    <3>3. k # 0
      BY <1>6, <3>1
    <3> QED
      BY <2>2, <2>3, <2>4, <2>5, <2>6, <2>7, <3>2, <3>3
  <2>8. CASE u # r
    <3>1. ASSUME k # 0
          PROVE  Count(usages'[k][fid], r) = counted
      <4>1. CASE k = m
        <5>1. usages'[k][fid] = Append(usages[m][fid], u)
          BY Zenon, <1>5, <1>6, <1>8, <4>1
        <5>2. Count(Append(usages[m][fid], u), r) = Count(usages[m][fid], r)
          BY <1>1, <1>9, <2>8, CountOfAppend
        <5> QED
          BY Zenon, <4>1, <5>1, <5>2
      <4>2. CASE k # m
        BY <1>5, <1>8, <2>2, <3>1, <4>2
      <4> QED
        BY <4>1, <4>2
    <3> QED
      BY <2>2, <2>3, <2>4, <2>5, <2>6, <2>8, <3>1
  <2> QED
    BY <2>7, <2>8
<1>11. Progress(p, base, cs)'
  <2>1. AsItWillBe(p, base, cs)
    BY <1>1 DEF Underway, Progress
  <2>2. EntryOf(p)' = EntryOf(p)
    BY Zenon, <1>2 DEF EntryOf, Indexed
  <2>3. ToCome(p)' = Tail(job.rest) /\ ToCome(p) = job.rest
    BY <1>3 DEF ToCome
  <2>4. AsItWillBe(p, base, cs)'
    BY <1>10, <2>1, <2>2, <2>3 DEF AsItWillBe
  <2> QED
    BY <1>3, <2>4 DEF Progress
<1>12. ASSUME NEW q \in Paths, q # p
       PROVE  Progress(q, base, cs)'
  <2>1. \A g \in FileIDs : g # fileIDs'[p] =>
          files'[g] = files[g] /\ \A n \in NameIDs : usages'[n][g] = usages[n][g]
    <3>1. fileIDs'[p] = fid /\ files' = files
      BY Zenon, <1>2
    <3> QED
      BY <1>8, <3>1
  <2>2. EntryOf(q)' = EntryOf(q) /\ \A r \in Refs : OccurrencesOf(q, r)' = OccurrencesOf(q, r)
    <3>1. p \in Paths /\ fileIDs'[q] = fileIDs[q]
      BY Zenon, <1>1, <1>2
    <3> QED
      BY <1>7, <1>12, <2>1, <3>1, OthersKept
  <2>3. Progress(q, base, cs)
    BY DEF Underway
  <2> QED
    BY <1>3, <1>12, <2>2, <2>3, NoProgress
<1>13. \A q \in Paths : (Waits(q)' <=> Waits(q)) /\ Failed(q, base, cs)'
  <2> TAKE q \in Paths
  <2>1. Waits(q)' <=> Waits(q)
    BY <1>3 DEF Waits
  <2>2. Failed(q, base, cs)
    BY DEF Underway
  <2> QED
    BY Zenon, <1>2, <1>3, <2>1, <2>2 DEF Failed
<1>14. \A q \in Paths : Progress(q, base, cs)'
  BY <1>11, <1>12
<1> QED
  BY <1>3, <1>13, <1>14 DEF Underway

\* The file at hand is done: it is in no map of the job any more.
LEMMA InsertDoneKeepsUnderway ==
  ASSUME IndInv, IndInv', NEW base, NEW cs, Underway(base, cs), InsertDone
  PROVE  Underway(base, cs)'
<1> PICK p : p = job.at
  OBVIOUS
<1>1. /\ job \in Jobs /\ p # 0 /\ p \in Paths /\ job.rest = <<>> /\ job.phase = "files"
      /\ UNCHANGED <<paths, fileIDs, names, nameIDs, files, usages, errors>>
      /\ job.update \in MaybeFiles /\ job.add \in MaybeFiles
  BY DEF IndInv, TypeOK, JobAtHand, InsertDone, Jobs, tables, postings
<1>2. /\ job'.at = 0 /\ job'.phase = "files" /\ job'.errs = job.errs
      /\ job'.delete = job.delete
      /\ job'.update = [job.update EXCEPT ![p] = NoFacts]
      /\ job'.add = [job.add EXCEPT ![p] = NoFacts]
  <2>1. job' = [job EXCEPT !.at = 0, !.update = [job.update EXCEPT ![p] = NoFacts],
                                     !.add = [job.add EXCEPT ![p] = NoFacts]]
    BY <1>1 DEF InsertDone, Jobs
  <2> QED
    BY <1>1, <2>1 DEF Jobs
<1>3. job.delete = {}
  BY <1>1 DEF Underway
<1>4. ~Waits(p)'
  BY <1>1, <1>2, <1>3 DEF Waits, MaybeFiles
<1>5. \A q \in Paths : EntryOf(q)' = EntryOf(q) /\ \A r \in Refs : OccurrencesOf(q, r)' = OccurrencesOf(q, r)
  BY <1>1 DEF EntryOf, Indexed, OccurrencesOf
<1>6. Progress(p, base, cs)'
  <2>1. AsItWillBe(p, base, cs)
    BY <1>1 DEF Underway, Progress
  <2>2. ToCome(p)' = ToCome(p)
    BY <1>1, <1>2 DEF ToCome
  <2>3. AsItWillBe(p, base, cs)'
    BY <1>1, <1>5, <2>1, <2>2 DEF AsItWillBe
  <2> QED
    BY <1>4, <2>3 DEF Progress
<1>7. ASSUME NEW q \in Paths, q # p
      PROVE  Progress(q, base, cs)' /\ (Waits(q)' <=> Waits(q))
  <2>1. Progress(q, base, cs) /\ q # 0
    BY MemoryStoreAssumption DEF Underway
  <2>2. job'.update[q] = job.update[q] /\ job'.add[q] = job.add[q]
    BY <1>1, <1>2, <1>7 DEF MaybeFiles
  <2> QED
    BY <1>2, <1>5, <1>7, <2>1, <2>2, NoProgress
<1>8. \A q \in Paths : Failed(q, base, cs)'
  <2> TAKE q \in Paths
  <2>1. Failed(q, base, cs) /\ q # 0
    BY MemoryStoreAssumption DEF Underway
  <2>2. (Waits(q) /\ job.at # q)' <=> (Waits(q) /\ job.at # q)
    <3>1. CASE q = p
      BY <1>4, <3>1
    <3>2. CASE q # p
      BY <1>2, <1>7, <2>1, <3>2
    <3> QED
      BY <3>1, <3>2
  <2> QED
    BY <1>1, <1>2, <2>1, <2>2 DEF Failed
<1>9. \A q \in Paths : Progress(q, base, cs)'
  BY <1>6, <1>7
<1> QED
  BY <1>1, <1>2, <1>8, <1>9 DEF Underway

\* The files are done; the errors of the call are added.
LEMMA EnrichBeginKeepsUnderway ==
  ASSUME IndInv, IndInv', NEW base, NEW cs, Underway(base, cs), EnrichBegin
  PROVE  Underway(base, cs)'
<1>1. /\ job \in Jobs /\ job.at = 0 /\ job.phase = "files" /\ job.delete = {}
      /\ Given(job.update) = {} /\ Given(job.add) = {}
      /\ UNCHANGED <<paths, fileIDs, names, nameIDs, files, usages>>
      /\ errors' = errors \cup job.errs
  BY DEF IndInv, TypeOK, EnrichBegin, Looping, tables, postings
<1>2. /\ job'.at = 0 /\ job'.phase = "enrich" /\ job'.errs = job.errs
      /\ job'.delete = job.delete /\ job'.update = job.update /\ job'.add = job.add
  BY <1>1 DEF EnrichBegin, Jobs
<1>3. \A q \in Paths : ~Waits(q) /\ ~Waits(q)' /\ q # 0
  BY <1>1, <1>2, MemoryStoreAssumption DEF Waits, Given
<1>4. \A q \in Paths : EntryOf(q)' = EntryOf(q) /\ \A r \in Refs : OccurrencesOf(q, r)' = OccurrencesOf(q, r)
  BY <1>1 DEF EntryOf, Indexed, OccurrencesOf
<1>5. \A q \in Paths : Progress(q, base, cs)'
  <2> TAKE q \in Paths
  <2>1. Progress(q, base, cs)
    BY DEF Underway
  <2> QED
    BY <1>1, <1>2, <1>3, <1>4, <2>1, NoProgress
<1>6. \A q \in Paths : Failed(q, base, cs)'
  <2> TAKE q \in Paths
  <2>1. Failed(q, base, cs) /\ job.errs = cs.errors
    BY DEF Underway
  <2>2. q \in errors <=> q \in base.errors /\ InNoMap(q, cs)
    <3>1. ~Waits(q) /\ job.phase # "enrich"
      BY <1>1, <1>3
    <3> QED
      BY <2>1, <3>1 DEF Failed
  <2>3. q \in errors' <=> (q \in base.errors /\ InNoMap(q, cs)) \/ q \in cs.errors
    BY <1>1, <2>1, <2>2
  <2> QED
    BY <1>2, <1>3, <2>3 DEF Failed
<1> QED
  BY <1>2, <1>3, <1>5, <1>6 DEF Underway

\* A canonical key is no name of a reference.
LEMMA EnrichNameKeepsUnderway ==
  ASSUME IndInv, IndInv', NEW base, NEW cs, Underway(base, cs), NEW n \in NameIDs, EnrichName(n)
  PROVE  Underway(base, cs)'
<1>1. /\ job \in Jobs /\ job.phase = "enrich" /\ n \in job.enrich /\ job.at = 0
      /\ job' = [job EXCEPT !.enrich = job.enrich \ {n}]
      /\ UNCHANGED <<fileIDs, files, usages, errors>>
  BY Zenon DEF EnrichName, IndInv, TypeOK, JobAtHand, postings
<1>2. /\ job'.at = 0 /\ job'.phase = job.phase /\ job'.errs = job.errs
      /\ job'.delete = job.delete /\ job'.update = job.update /\ job'.add = job.add
  BY <1>1 DEF Jobs
<1>3. \A r \in Refs : KeepsID(r.name)
  <2>1. CASE UNCHANGED <<names, nameIDs>>
    BY <2>1 DEF KeepsID
  <2>2. CASE \E g \in SoleDeclaration(names[n]) : InternName(<<paths[g], names[n]>>)
    <3>1. PICK g \in SoleDeclaration(names[n]) : InternName(<<paths[g], names[n]>>)
      BY <2>2
    <3>2. <<paths[g], names[n]>> \in Keys
      BY <1>1, SoleHasItsPath DEF IndInv, JobAtHand
    <3> QED
      BY <3>1, <3>2, NamesGrow, RefsAreOccurrences
  <2> QED
    BY Zenon, <2>1, <2>2 DEF EnrichName
<1>4. \A q \in Paths : EntryOf(q)' = EntryOf(q) /\ \A r \in Refs : OccurrencesOf(q, r)' = OccurrencesOf(q, r)
  <2> TAKE q \in Paths
  <2>1. EntryOf(q)' = EntryOf(q)
    BY <1>1 DEF EntryOf, Indexed
  <2> QED
    BY <1>1, <1>3, <2>1, OccurrencesKept
<1>5. \A q \in Paths : Progress(q, base, cs)' /\ (Waits(q)' <=> Waits(q)) /\ q # 0
  <2> TAKE q \in Paths
  <2>1. Progress(q, base, cs) /\ q # 0
    BY MemoryStoreAssumption DEF Underway
  <2> QED
    BY <1>1, <1>2, <1>4, <2>1, NoProgress
<1>6. \A q \in Paths : Failed(q, base, cs)'
  <2> TAKE q \in Paths
  <2>1. Failed(q, base, cs)
    BY DEF Underway
  <2> QED
    BY <1>1, <1>2, <1>5, <2>1 DEF Failed
<1> QED
  BY <1>1, <1>2, <1>5, <1>6 DEF Underway
-----------------------------------------------------------------------------
(* Every step of the store is a step of the abstract one, or none.         *)

\* The version is taken modulo its width, before or after it is counted on.
LEMMA ModuloOfTheNext ==
  ASSUME NEW v \in Nat, NEW w \in Nat \ {0}
  PROVE  /\ v % w \in 0..w - 1
         /\ (v + 1) % w = ((v % w) + 1) % w
<1> PICK q, r : q = v \div w /\ r = v % w
  OBVIOUS
<1>1. q \in Nat /\ r \in 0..w - 1 /\ v = w * q + r
  OBVIOUS
<1>2. ASSUME NEW a \in Nat, NEW b \in Nat, NEW c \in 0..w - 1, a = w * b + c
      PROVE  a % w = c
  BY <1>2
<1>3. CASE r + 1 < w
  <2>1. r + 1 \in 0..w - 1 /\ v + 1 = w * q + (r + 1)
    BY <1>1, <1>3
  <2>2. (v + 1) % w = r + 1
    <3>1. \A k : k = v + 1 => k % w = r + 1
      <4> TAKE k
      <4> HAVE k = v + 1
      <4>1. k \in Nat /\ k = w * q + (r + 1)
        BY <2>1
      <4> QED
        BY <1>1, <1>2, <2>1, <4>1
    <3> QED
      BY <3>1
  <2>3. r + 1 \in Nat /\ r + 1 = w * 0 + (r + 1)
    BY <1>1
  <2>4. (r + 1) % w = r + 1
    BY <1>2, <2>1, <2>3
  <2> QED
    BY <1>1, <2>2, <2>4
<1>4. CASE r + 1 = w
  <2>1. v + 1 = w * (q + 1) + 0 /\ r + 1 = w * 1 + 0 /\ 0 \in 0..w - 1 /\ q + 1 \in Nat
    BY <1>1, <1>4
  <2>2. (v + 1) % w = 0
    <3>1. \A k : k = v + 1 => k % w = 0
      <4> TAKE k
      <4> HAVE k = v + 1
      <4>1. k \in Nat /\ k = w * (q + 1) + 0
        BY <2>1
      <4> QED
        BY <1>2, <2>1, <4>1
    <3> QED
      BY <3>1
  <2>3. (r + 1) % w = 0
    BY <1>1, <1>2, <2>1
  <2> QED
    BY <1>1, <2>2, <2>3
<1> QED
  BY <1>1, <1>3, <1>4

LEMMA ViewIsAStore ==
  ASSUME IndInv, info.version \in Nat, info.state \in {"building", "refreshing", "ready", "partial"}
  PROVE  View \in Stores
<1>1. \A p \in Paths : EntryOf(p) \in [facts: Facts] \cup {NoFacts}
  <2> TAKE p \in Paths
  <2>1. Indexed(p) => files[fileIDs[p]] \in Facts
    BY DEF Indexed, IndInv, TypeOK
  <2> QED
    BY <2>1 DEF EntryOf
<1>2. \A p \in Paths, r \in Refs : OccurrencesOf(p, r) \in Nat
  BY OccurrencesAreCounted
<1>3. info.version % VersionWidth \in 0..VersionWidth - 1
  BY RefinementAssumption, ModuloOfTheNext
<1>4. errors \in SUBSET Paths
  BY DEF IndInv, TypeOK
<1> QED
  BY <1>1, <1>2, <1>3, <1>4 DEF View, Stores

LEMMA EntriesAreTyped ==
  ASSUME NEW m \in MaybeFiles
  PROVE  EntriesOf(m) \in Abstract!FileMaps
<1>1. \A p \in Paths : EntriesOf(m)[p] \in [facts: Facts] \cup {NoFacts}
  <2> TAKE p \in Paths
  <2>1. CASE m[p] = NoFacts
    BY <2>1, EntriesAreFacts
  <2>2. CASE m[p] # NoFacts
    <3>1. m[p] \in Facts /\ EntriesOf(m)[p] = [facts |-> m[p]]
      BY <2>2, EntriesAreFacts
    <3>2. \A f \in Facts : [facts |-> f] \in [facts: Facts]
      OBVIOUS
    <3> QED
      BY <3>1, <3>2
  <2> QED
    BY <2>1, <2>2
<1>2. EntriesOf(m) = [p \in Paths |-> EntriesOf(m)[p]]
  BY DEF EntriesOf
<1> QED
  BY <1>1, <1>2 DEF Abstract!FileMaps

\* Replace begins: nothing is indexed, and every file is to be added.
LEMMA ReplaceInvokes ==
  ASSUME IndInv, IndInv', Serving, NEW fs \in MaybeFiles, NEW errs \in SUBSET Paths,
         ReplaceBegin(fs, errs), served' = served, call' = CallOf(job')
  PROVE  Serving' /\ Abstract!Invoke
<1>1. job.op = "none" /\ served = View /\ call = NoCall /\ served \in Stores
  BY ViewIsAStore DEF ReplaceBegin, MayCall, Serving
<1>2. /\ job'.op = "replace" /\ job'.phase = "files" /\ job'.delete = {} /\ job'.update = NoFilesMap
      /\ job'.add = fs /\ job'.errs = errs /\ job'.at = 0 /\ job'.rest = <<>>
  BY DEF ReplaceBegin, NoJob
<1>3. /\ fileIDs' = [p \in Paths |-> 0] /\ errors' = {} /\ info' = info
  BY DEF ReplaceBegin
<1>4. call' = [op |-> "replace", files |-> EntriesOf(fs), errs |-> errs]
  BY <1>2 DEF CallOf
<1>5. call' \in Abstract!ReplaceCalls
  BY <1>4, EntriesAreTyped DEF Abstract!ReplaceCalls
<1>6. ASSUME NEW base, NEW cs, base = Base', cs = Changes'
      PROVE  Underway(base, cs)'
  <2>1. /\ base = [served EXCEPT !.entries = Abstract!NoFiles, !.errors = {},
                                 !.postings = [p \in Paths |-> Abstract!NoPostings]]
        /\ cs = [added |-> EntriesOf(fs), updated |-> Abstract!NoFiles, deleted |-> {}, errors |-> errs]
    BY <1>2, <1>4, <1>6 DEF Base, Changes
  <2>2. /\ base.entries = Abstract!NoFiles /\ base.errors = {}
        /\ base.postings = [p \in Paths |-> Abstract!NoPostings]
        /\ cs.added = EntriesOf(fs) /\ cs.updated = Abstract!NoFiles /\ cs.deleted = {} /\ cs.errors = errs
    BY <1>1, <2>1 DEF Stores
  <2>3. ASSUME NEW p \in Paths
        PROVE  InOneMap(p, cs) /\ Progress(p, base, cs)' /\ Failed(p, base, cs)'
    <3>1. cs.updated[p] = NoFacts /\ base.entries[p] = NoFacts /\ p # 0
      BY <2>2, MemoryStoreAssumption DEF Abstract!NoFiles
    <3>2. NoFilesMap \in MaybeFiles /\ NoFilesMap[p] = NoFacts
      BY DEF NoFilesMap, MaybeFiles
    <3>3. EntriesOf(NoFilesMap)[p] = NoFacts /\ (EntriesOf(fs)[p] = NoFacts <=> fs[p] = NoFacts)
      BY <3>2, EntriesAreFacts
    <3>4. EntryOf(p)' = NoFacts /\ (\A r \in Refs : OccurrencesOf(p, r)' = 0)
      BY <1>3 DEF EntryOf, Indexed, OccurrencesOf
    <3>5. \A r \in Refs : base.postings[p][r] = 0
      BY <2>2 DEF Abstract!NoPostings
    <3>6. Waits(p)' <=> fs[p] # NoFacts
      BY <1>2, <3>2 DEF Waits
    <3>7. InOneMap(p, cs)
      BY <2>2, <3>1 DEF InOneMap
    <3>8. Failed(p, base, cs)'
      BY <1>2, <1>3, <2>2 DEF Failed
    <3>9. CASE fs[p] # NoFacts
      <4>1. AsItWas(p, base, cs)'
        <5>1. EntriesOf(job.update)[p]' = NoFacts /\ EntriesOf(job.add)[p]' = EntriesOf(fs)[p]
          BY <1>2, <3>3
        <5> QED
          BY <1>2, <2>2, <3>1, <3>4, <3>5, <5>1 DEF AsItWas
      <4> QED
        BY <1>2, <3>1, <3>6, <3>7, <3>8, <3>9, <4>1 DEF Progress
    <3>10. CASE fs[p] = NoFacts
      <4>1. cs.added[p] = NoFacts
        BY <2>2, <3>3, <3>10
      <4>2. Abstract!EntryAfter(base.entries[p], p, cs) = NoFacts
        BY <2>2, <3>1, <4>1 DEF Abstract!EntryAfter
      <4>3. \A r \in Refs : Abstract!PostingsAfter(base.postings[p], p, cs)[r] = 0
        BY <2>2, <3>1, <3>5, <4>1 DEF Abstract!PostingsAfter, Abstract!NoPostings
      <4>4. ToCome(p)' = <<>> /\ \A r \in Refs : Count(<<>>, r) = 0
        BY <1>2, <3>1, CountOfEmpty DEF ToCome
      <4>5. AsItWillBe(p, base, cs)'
        BY <3>4, <4>2, <4>3, <4>4 DEF AsItWillBe
      <4> QED
        BY <3>6, <3>7, <3>8, <3>10, <4>5 DEF Progress
    <3> QED
      BY <3>9, <3>10
  <2> QED
    BY <1>2, <2>2, <2>3 DEF Underway
<1>7. Serving'
  <2>1. info.version \in Nat /\ info.state \in {"building", "refreshing", "ready", "partial"}
    BY DEF Serving
  <2>2. served.state = info.state /\ served.version = info.version % VersionWidth
    BY <1>1 DEF View
  <2> QED
    BY <1>1, <1>2, <1>3, <1>5, <1>6, <2>1, <2>2 DEF Serving
<1>8. Abstract!Invoke
  BY <1>1, <1>5 DEF Abstract!Invoke
<1> QED
  BY <1>7, <1>8

\* Apply begins: every path is as it was.
LEMMA ApplyInvokes ==
  ASSUME IndInv, IndInv', Serving, NEW del \in SUBSET Paths, NEW errs \in SUBSET Paths,
         NEW upd \in MaybeFiles, NEW add \in MaybeFiles,
         ApplyBegin(del, upd, add, errs), served' = served, call' = CallOf(job')
  PROVE  Serving' /\ Abstract!Invoke
<1>1. job.op = "none" /\ served = View /\ call = NoCall /\ served \in Stores
  BY ViewIsAStore DEF ApplyBegin, MayCall, Serving
<1>2. /\ job'.op = "apply" /\ job'.phase = "files" /\ job'.delete = del /\ job'.update = upd
      /\ job'.add = add /\ job'.errs = errs /\ job'.at = 0 /\ job'.rest = <<>>
  BY DEF ApplyBegin, NoJob
<1>3. UNCHANGED <<fileIDs, nameIDs, files, usages, errors, info>>
  BY DEF ApplyBegin, tables, postings
<1>4. call' = [op |-> "apply",
               changes |-> [added |-> EntriesOf(add), updated |-> EntriesOf(upd),
                            deleted |-> del, errors |-> errs]]
  BY <1>2 DEF CallOf
<1>5. call' \in Abstract!ApplyCalls
  BY <1>4, EntriesAreTyped DEF Abstract!ApplyCalls
<1>6. ASSUME NEW base, NEW cs, base = Base', cs = Changes'
      PROVE  Underway(base, cs)'
  <2>1. base = served /\ cs = call'.changes
    BY <1>2, <1>6 DEF Base, Changes
  <2>2. /\ base.entries = [p \in Paths |-> EntryOf(p)] /\ base.errors = errors
        /\ base.postings = [p \in Paths |-> [r \in Refs |-> OccurrencesOf(p, r)]]
        /\ cs.added = EntriesOf(add) /\ cs.updated = EntriesOf(upd) /\ cs.deleted = del /\ cs.errors = errs
    BY <1>1, <1>4, <2>1 DEF View
  <2>3. ASSUME NEW p \in Paths
        PROVE  InOneMap(p, cs) /\ Progress(p, base, cs)' /\ Failed(p, base, cs)'
    <3>1. /\ EntriesOf(upd)[p] = NoFacts <=> upd[p] = NoFacts
          /\ EntriesOf(add)[p] = NoFacts <=> add[p] = NoFacts
          /\ p # 0
      BY EntriesAreFacts, MemoryStoreAssumption
    <3>2. base.entries[p] = EntryOf(p) /\ \A r \in Refs : base.postings[p][r] = OccurrencesOf(p, r)
      BY <2>2
    <3>3. EntryOf(p)' = EntryOf(p) /\ (\A r \in Refs : OccurrencesOf(p, r)' = OccurrencesOf(p, r))
      BY <1>3 DEF EntryOf, Indexed, OccurrencesOf
    <3>4. Waits(p)' <=> p \in del \/ upd[p] # NoFacts \/ add[p] # NoFacts
      BY <1>2 DEF Waits
    <3>5. InNoMap(p, cs) <=> p \notin del /\ upd[p] = NoFacts /\ add[p] = NoFacts
      BY <2>2, <3>1 DEF InNoMap
    <3>6. InOneMap(p, cs)
      <4>1. /\ p \in del => upd[p] = NoFacts /\ add[p] = NoFacts
            /\ upd[p] # NoFacts => add[p] = NoFacts
        BY DEF ApplyBegin, Given
      <4> QED
        BY <2>2, <3>1, <4>1 DEF InOneMap
    <3>7. Failed(p, base, cs)'
      BY <1>2, <1>3, <2>2, <3>1, <3>4, <3>5 DEF Failed
    <3>8. CASE ~InNoMap(p, cs)
      <4>1. AsItWas(p, base, cs)'
        <5>1. EntriesOf(job.update)[p]' = EntriesOf(upd)[p] /\ EntriesOf(job.add)[p]' = EntriesOf(add)[p]
          BY <1>2
        <5> QED
          BY <1>2, <2>2, <3>2, <3>3, <5>1 DEF AsItWas
      <4> QED
        BY <1>2, <3>1, <3>4, <3>5, <3>6, <3>7, <3>8, <4>1 DEF Progress
    <3>9. CASE InNoMap(p, cs)
      <4>1. Abstract!EntryAfter(base.entries[p], p, cs) = EntryOf(p)
        BY <3>2, <3>9 DEF Abstract!EntryAfter, InNoMap
      <4>2. \A r \in Refs : Abstract!PostingsAfter(base.postings[p], p, cs)[r] = OccurrencesOf(p, r)
        BY <3>2, <3>9 DEF Abstract!PostingsAfter, Abstract!PathsIn, InNoMap
      <4>3. ToCome(p)' = <<>> /\ \A r \in Refs : Count(<<>>, r) = 0
        BY <1>2, <3>1, CountOfEmpty DEF ToCome
      <4>4. \A r \in Refs : OccurrencesOf(p, r) \in Nat
        BY OccurrencesAreCounted
      <4>5. AsItWillBe(p, base, cs)'
        BY <3>3, <4>1, <4>2, <4>3, <4>4 DEF AsItWillBe
      <4> QED
        BY <3>4, <3>5, <3>6, <3>7, <3>9, <4>5 DEF Progress
    <3> QED
      BY <3>8, <3>9
  <2> QED
    BY <1>2, <2>2, <2>3 DEF Underway
<1>7. Serving'
  <2>1. info.version \in Nat /\ info.state \in {"building", "refreshing", "ready", "partial"}
    BY DEF Serving
  <2>2. served.state = info.state /\ served.version = info.version % VersionWidth
    BY <1>1 DEF View
  <2> QED
    BY <1>1, <1>2, <1>3, <1>5, <1>6, <2>1, <2>2 DEF Serving
<1>8. Abstract!Invoke
  BY <1>1, <1>5 DEF Abstract!Invoke
<1> QED
  BY <1>7, <1>8
\* The steps in the middle of a call serve what was served.
LEMMA WorkServes ==
  ASSUME IndInv, IndInv', Serving, job.op # "none", job'.op = job.op,
         served' = served, call' = call, info' = info,
         \/ \E p \in Paths : Delete(p) \/ UpdateBegin(p) \/ AddBegin(p)
         \/ InsertUsage \/ InsertDone \/ EnrichBegin
         \/ \E n \in NameIDs : EnrichName(n)
  PROVE  Serving'
<1>1. Base' = Base /\ Changes' = Changes
  BY DEF Base, Changes
<1>2. ASSUME NEW base, NEW cs, base = Base, cs = Changes
      PROVE  Underway(base, cs)'
  <2>1. Underway(base, cs)
    BY <1>2 DEF Serving
  <2> QED
    BY <2>1, DeleteKeepsUnderway, BeginKeepsUnderway, InsertUsageKeepsUnderway,
       InsertDoneKeepsUnderway, EnrichBeginKeepsUnderway, EnrichNameKeepsUnderway
<1> QED
  BY <1>1, <1>2 DEF Serving

\* SetState is one step of the abstract store.
LEMMA SetStateServes ==
  ASSUME IndInv, IndInv', Serving, SetState("refreshing"), served' = View', call' = NoCall
  PROVE  Serving' /\ Abstract!SetRefreshing
<1>1. /\ job.op = "none" /\ job = NoJob /\ job' = job /\ served = View /\ call = NoCall
      /\ UNCHANGED <<fileIDs, nameIDs, files, usages, errors>>
      /\ info' = [info EXCEPT !.state = "refreshing"]
  BY DEF SetState, MayCall, Serving, tables, postings
<1>2. /\ \A p \in Paths : EntryOf(p)' = EntryOf(p)
      /\ \A p \in Paths, r \in Refs : OccurrencesOf(p, r)' = OccurrencesOf(p, r)
  BY <1>1 DEF EntryOf, Indexed, OccurrencesOf
<1>3. info'.state = "refreshing" /\ info'.version = info.version
  BY <1>1 DEF IndInv, TypeOK, Serving
<1>4. View' = [View EXCEPT !.state = "refreshing"]
  BY <1>1, <1>2, <1>3 DEF View
<1>5. Abstract!SetRefreshing
  BY <1>1, <1>4 DEF Abstract!SetRefreshing, Abstract!SetState
<1>6. Serving'
  BY <1>1, <1>3 DEF Serving, NoJob
<1> QED
  BY <1>5, <1>6
\* The end of a call: what is served next is what the abstract call makes of
\* what was served.
LEMMA PublishServes ==
  ASSUME IndInv, IndInv', Serving, Publish, served' = View', call' = NoCall
  PROVE  Serving' /\ Abstract!Commit
<1>1. /\ job \in Jobs /\ job.phase = "enrich" /\ job' = NoJob
      /\ UNCHANGED <<fileIDs, nameIDs, files, usages, errors>>
      /\ info'.version = info.version + 1 /\ info'.state \in {"ready", "partial"}
      /\ info' = [state |-> info'.state, files |-> info'.files, memory |-> info'.memory,
                  version |-> info'.version]
  BY DEF Publish, tables, postings, IndInv, TypeOK
<1>2. job.op \in {"replace", "apply"} /\ job.at = 0
  BY <1>1 DEF Jobs, NoJob, Serving, IndInv, JobAtHand
<1>3. /\ served \in Stores /\ served.version = info.version % VersionWidth /\ info.version \in Nat
      /\ job.op = "replace" => call \in Abstract!ReplaceCalls
      /\ job.op = "apply" => call \in Abstract!ApplyCalls
  BY <1>2 DEF Serving
<1>4. Serving'
  BY <1>1, <1>3 DEF Serving, NoJob
<1>5. View' = [entries  |-> [p \in Paths |-> EntryOf(p)],
               postings |-> [p \in Paths |-> [r \in Refs |-> OccurrencesOf(p, r)]],
               errors   |-> errors,
               state    |-> info'.state,
               version  |-> (served.version + 1) % VersionWidth]
  <2>1. /\ \A p \in Paths : EntryOf(p)' = EntryOf(p)
        /\ \A p \in Paths, r \in Refs : OccurrencesOf(p, r)' = OccurrencesOf(p, r)
    BY <1>1 DEF EntryOf, Indexed, OccurrencesOf
  <2>2. info'.version % VersionWidth = (served.version + 1) % VersionWidth
    BY <1>1, <1>3, RefinementAssumption, ModuloOfTheNext
  <2> QED
    BY <1>1, <2>1, <2>2 DEF View
<1>6. PICK base, cs : base = Base /\ cs = Changes
  OBVIOUS
<1>7. Underway(base, cs)
  BY <1>2, <1>6 DEF Serving
<1>8. ASSUME NEW p \in Paths
      PROVE  /\ EntryOf(p) = Abstract!EntryAfter(base.entries[p], p, cs)
             /\ \A r \in Refs : OccurrencesOf(p, r) = Abstract!PostingsAfter(base.postings[p], p, cs)[r]
             /\ p \in errors <=> (p \in base.errors /\ InNoMap(p, cs)) \/ p \in cs.errors
  <2>1. ~Waits(p) /\ Progress(p, base, cs) /\ Failed(p, base, cs) /\ p # 0
    BY <1>1, <1>7, MemoryStoreAssumption DEF Underway
  <2>2. AsItWillBe(p, base, cs)
    BY <2>1 DEF Progress
  <2>3. ToCome(p) = <<>>
    BY <1>2, <2>1 DEF ToCome
  <2>4. \A r \in Refs : OccurrencesOf(p, r) \in Nat /\ Count(<<>>, r) = 0
    BY OccurrencesAreCounted, CountOfEmpty
  <2>5. \A r \in Refs : OccurrencesOf(p, r) = Abstract!PostingsAfter(base.postings[p], p, cs)[r]
    BY <2>2, <2>3, <2>4 DEF AsItWillBe
  <2> QED
    BY <1>1, <2>1, <2>2, <2>5 DEF AsItWillBe, Failed
<1>9. errors \subseteq Paths
  BY DEF IndInv, TypeOK
<1>10. CASE job.op = "replace"
  <2>1. /\ call \in [op: {"replace"}, files: Abstract!FileMaps, errs: SUBSET Paths]
        /\ base = [served EXCEPT !.entries = Abstract!NoFiles, !.errors = {},
                                 !.postings = [p \in Paths |-> Abstract!NoPostings]]
        /\ cs = [added |-> call.files, updated |-> Abstract!NoFiles, deleted |-> {},
                 errors |-> call.errs]
    BY <1>3, <1>6, <1>10 DEF Base, Changes, Abstract!ReplaceCalls
  <2>2. /\ base.entries = Abstract!NoFiles /\ base.errors = {}
        /\ base.postings = [p \in Paths |-> Abstract!NoPostings]
        /\ cs.added = call.files /\ cs.updated = Abstract!NoFiles /\ cs.deleted = {}
        /\ cs.errors = call.errs
    BY <1>3, <2>1 DEF Stores
  <2>3. /\ call.op = "replace" /\ call.errs \subseteq Paths
        /\ call.files \in [Paths -> [facts: Facts] \cup {NoFacts}]
    BY <2>1 DEF Abstract!FileMaps
  <2>4. ASSUME NEW p \in Paths
        PROVE  /\ EntryOf(p) = call.files[p]
               /\ [r \in Refs |-> OccurrencesOf(p, r)] =
                    IF call.files[p] = NoFacts THEN Abstract!NoPostings
                    ELSE Abstract!PostingsOf(call.files[p].facts)
    <3>1. base.entries[p] = NoFacts /\ cs.updated[p] = NoFacts /\ base.postings[p] = Abstract!NoPostings
      BY <2>2 DEF Abstract!NoFiles
    <3>2. EntryOf(p) = call.files[p]
      BY <1>8, <2>2, <3>1 DEF Abstract!EntryAfter
    <3>3. \A r \in Refs : Abstract!NoPostings[r] = 0
      BY DEF Abstract!NoPostings
    <3>4. CASE call.files[p] = NoFacts
      <4>1. \A r \in Refs : OccurrencesOf(p, r) = 0
        BY <1>8, <2>2, <3>1, <3>3, <3>4 DEF Abstract!PostingsAfter
      <4> QED
        BY <3>2, <3>4, <4>1 DEF Abstract!NoPostings
    <3>5. CASE call.files[p] # NoFacts
      <4>1. PICK f : f = call.files[p].facts
        OBVIOUS
      <4>2. \A r \in Refs : Abstract!PostingsOf(f)[r] \in Nat
        BY DEF Abstract!PostingsOf
      <4>3. \A r \in Refs : Abstract!PostingsAfter(base.postings[p], p, cs)[r]
                              = Abstract!NoPostings[r] + Abstract!PostingsOf(f)[r]
        BY <2>2, <3>1, <3>5, <4>1 DEF Abstract!PostingsAfter, Abstract!AddPostings
      <4>4. \A r \in Refs : OccurrencesOf(p, r) = Abstract!PostingsOf(f)[r]
        BY <1>8, <3>3, <4>2, <4>3
      <4> QED
        BY <3>2, <3>5, <4>1, <4>4 DEF Abstract!PostingsOf
    <3> QED
      BY <3>4, <3>5
  <2>5. [p \in Paths |-> EntryOf(p)] = call.files
    BY <2>3, <2>4
  <2>6. errors = call.errs
    BY <1>8, <1>9, <2>2, <2>3
  <2>7. served' = Abstract!Replace(served, call.files, call.errs, info'.state)
    BY <1>5, <2>4, <2>5, <2>6 DEF Abstract!Replace, Abstract!Bump
  <2> QED
    BY <1>1, <1>3, <1>4, <1>10, <2>3, <2>7, RefinementAssumption DEF Abstract!Commit
<1>11. CASE job.op = "apply"
  <2>1. /\ call \in [op: {"apply"}, changes: [added: Abstract!FileMaps, updated: Abstract!FileMaps,
                                              deleted: SUBSET Paths, errors: SUBSET Paths]]
        /\ base = served /\ cs = call.changes
    BY <1>3, <1>6, <1>11 DEF Base, Changes, Abstract!ApplyCalls
  <2>2. call.op = "apply" /\ cs.deleted \subseteq Paths /\ cs.errors \subseteq Paths
    BY <2>1
  <2>3. base.errors \subseteq Paths /\ base.postings \in [Paths -> [Refs -> Nat]]
    BY <1>3, <2>1 DEF Stores
  <2>4. ASSUME NEW p \in Paths
        PROVE  [r \in Refs |-> OccurrencesOf(p, r)] = Abstract!PostingsAfter(base.postings[p], p, cs)
    <3>1. DOMAIN base.postings[p] = Refs
          /\ base.postings[p] = [r \in Refs |-> base.postings[p][r]]
      BY <2>3
    <3>2. Abstract!PostingsAfter(base.postings[p], p, cs) =
            [r \in Refs |-> Abstract!PostingsAfter(base.postings[p], p, cs)[r]]
      BY <3>1 DEF Abstract!PostingsAfter, Abstract!AddPostings, Abstract!NoPostings
    <3> QED
      BY <1>8, <3>2
  <2>5. errors = (base.errors \ (cs.deleted \cup Abstract!PathsIn(cs.updated)
                                   \cup Abstract!PathsIn(cs.added))) \cup cs.errors
    BY <1>8, <1>9, <2>2, <2>3 DEF InNoMap, Abstract!PathsIn
  <2>6. served' = Abstract!Apply(served, call.changes, info'.state)
    BY <1>5, <1>8, <2>1, <2>4, <2>5 DEF Abstract!Apply, Abstract!Bump
  <2> QED
    BY <1>1, <1>3, <1>4, <1>11, <2>2, <2>6, RefinementAssumption DEF Abstract!Commit
<1> QED
  BY <1>2, <1>10, <1>11
ServingInv == IndInv /\ Serving

\* Nothing is indexed, served or under way at first.
LEMMA InitServes == ServedInit => ServingInv /\ Abstract!Init
<1> SUFFICES ASSUME ServedInit PROVE ServingInv /\ Abstract!Init
  OBVIOUS
<1>1. Init /\ served = View /\ call = NoCall
  BY DEF ServedInit
<1>2. IndInv
  BY <1>1, InitInvariant
<1>3. Serving
  BY <1>1 DEF Init, Serving, NoJob
<1>4. \A p \in Paths : EntryOf(p) = NoFacts /\ \A r \in Refs : OccurrencesOf(p, r) = 0
  BY <1>1 DEF Init, EntryOf, Indexed, OccurrencesOf
<1>5. 0 % VersionWidth = 0
  BY RefinementAssumption
<1>6. errors = {} /\ info.state = "building" /\ info.version = 0
  BY <1>1 DEF Init
<1>7. View = Abstract!EmptyStore
  BY <1>4, <1>5, <1>6 DEF View, Abstract!EmptyStore, Abstract!NoFiles, Abstract!NoPostings
<1> QED
  BY <1>1, <1>2, <1>3, <1>7 DEF ServingInv, Abstract!Init

\* Every step keeps the invariant, and is an abstract step or none.
LEMMA NextServes ==
  ASSUME ServingInv, [ServedNext]_<<vars, served, call>>
  PROVE  ServingInv' /\ [Abstract!Next]_<<served, call>>
<1>1. [Next]_vars
  BY DEF ServedNext
<1>2. IndInv /\ IndInv' /\ Serving
  BY <1>1, NextKeepsInvariant DEF ServingInv
<1>3. job \in Jobs /\ (job.op = "none" => job = NoJob)
  BY <1>2 DEF Serving, IndInv, TypeOK
<1> USE DEF ServingInv, Abstract!Next
<1>4. CASE UNCHANGED <<vars, served, call>>
  <2>1. UNCHANGED <<job, info, fileIDs, nameIDs, files, usages, errors, served, call>>
    BY <1>4 DEF vars, tables, postings
  <2>2. /\ \A p \in Paths : EntryOf(p)' = EntryOf(p)
        /\ \A p \in Paths, r \in Refs : OccurrencesOf(p, r)' = OccurrencesOf(p, r)
    BY <2>1 DEF EntryOf, Indexed, OccurrencesOf
  <2>3. View' = View /\ Base' = Base /\ Changes' = Changes
    BY <2>1, <2>2 DEF View, Base, Changes
  <2>4. ASSUME NEW base, NEW cs, Underway(base, cs)
        PROVE  Underway(base, cs)'
    BY <2>1, <2>2, <2>4 DEF Underway, Progress, Failed, AsItWas, AsItWillBe, Waits, ToCome, EntriesOf
  <2>5. Serving'
    BY <1>2, <2>1, <2>3, <2>4 DEF Serving
  <2> QED
    BY <1>2, <2>1, <2>5
<1>5. CASE ServedNext
  <2>1. /\ Next
        /\ served' = IF job'.op = "none" THEN View' ELSE served
        /\ call' = IF job'.op = "none" THEN NoCall
                   ELSE IF job.op = "none" THEN CallOf(job') ELSE call
    BY <1>5 DEF ServedNext
  <2>2. ASSUME NEW fs \in MaybeFiles, NEW errs \in SUBSET Paths, ReplaceBegin(fs, errs)
        PROVE  ServingInv' /\ Abstract!Next
    <3>1. job.op = "none" /\ job'.op = "replace"
      BY <2>2 DEF ReplaceBegin, MayCall, NoJob
    <3> QED
      BY <1>2, <2>1, <2>2, <3>1, ReplaceInvokes
  <2>3. ASSUME NEW del \in SUBSET Paths, NEW errs \in SUBSET Paths,
               NEW upd \in MaybeFiles, NEW add \in MaybeFiles, ApplyBegin(del, upd, add, errs)
        PROVE  ServingInv' /\ Abstract!Next
    <3>1. job.op = "none" /\ job'.op = "apply"
      BY <2>3 DEF ApplyBegin, MayCall, NoJob
    <3> QED
      BY <1>2, <2>1, <2>3, <3>1, ApplyInvokes
  <2>4. CASE SetState("refreshing")
    <3>1. job.op = "none" /\ job' = job
      BY <2>4 DEF SetState, MayCall
    <3> QED
      BY <1>2, <2>1, <2>4, <3>1, SetStateServes
  <2>5. CASE Publish
    <3>1. job'.op = "none"
      BY <2>5 DEF Publish, NoJob
    <3> QED
      BY <1>2, <2>1, <2>5, <3>1, PublishServes
  <2>6. CASE \/ \E p \in Paths : Delete(p) \/ UpdateBegin(p) \/ AddBegin(p)
             \/ InsertUsage \/ InsertDone \/ EnrichBegin
             \/ \E n \in NameIDs : EnrichName(n)
    <3>1. job.op # "none"
      <4>1. job.at # 0 \/ job.phase = "enrich" => job.op # "none"
        BY <1>3 DEF NoJob
      <4> QED
        BY Zenon, <2>6, <4>1 DEF Delete, UpdateBegin, AddBegin, InsertUsage, InsertDone, EnrichBegin,
                          EnrichName, Looping
    <3>2. job'.op = job.op
      BY Zenon, <1>3, <2>6 DEF Delete, UpdateBegin, AddBegin, InsertUsage, InsertDone, EnrichBegin,
                        EnrichName, Jobs
    <3>3. info' = info
      BY Zenon, <2>6 DEF Delete, UpdateBegin, AddBegin, InsertUsage, InsertDone, EnrichBegin,
                         EnrichName
    <3>4. served' = served /\ call' = call
      BY <2>1, <3>1, <3>2
    <3> QED
      BY <1>2, <2>6, <3>1, <3>2, <3>3, <3>4, WorkServes
  <2> QED
    BY <2>1, <2>2, <2>3, <2>4, <2>5, <2>6 DEF Next, Call, Work
<1> QED
  BY <1>4, <1>5

THEOREM ServingHolds == ServedSpec => []ServingInv
BY InitServes, NextServes, PTL DEF ServedSpec

\* store.go behind its lock implements the store its callers may think of: a
\* call of Replace, Apply or SetState takes effect at once, whatever order the
\* loops over the maps take, and remove, insert and the interning tables lose,
\* double or misplace no occurrence.
THEOREM StoreImplementsAtomicCalls == ServedSpec => ImplementsIndexStore
<1>1. ServedSpec => Abstract!Init
  BY InitServes DEF ServedSpec
<1>2. ServingInv /\ [ServedNext]_<<vars, served, call>> => [Abstract!Next]_<<served, call>>
  BY NextServes
<1> QED
  BY <1>1, <1>2, ServingHolds, PTL DEF ServedSpec, ImplementsIndexStore, Abstract!Spec

\* The abstract calls leave every published file with its postings, and none
\* to a path that is not published.
LEMMA CallsKeepPostings ==
  ASSUME served \in Stores, ServesTheirPostings, [Abstract!Next]_<<served, call>>,
         call = NoCall \/ call \in Abstract!ReplaceCalls \cup Abstract!ApplyCalls
  PROVE  ServesTheirPostings'
<1>1. CASE UNCHANGED served
  BY <1>1 DEF ServesTheirPostings
<1>2. CASE Abstract!SetRefreshing
  <2>1. served'.entries = served.entries /\ served'.postings = served.postings
    BY <1>2 DEF Abstract!SetRefreshing, Abstract!SetState, Stores
  <2> QED
    BY <2>1 DEF ServesTheirPostings
<1>3. ASSUME NEW st, call \in Abstract!ReplaceCalls,
             served' = Abstract!Replace(served, call.files, call.errs, st)
      PROVE  ServesTheirPostings'
  <2>1. /\ served'.entries = call.files
        /\ served'.postings = [p \in Paths |-> IF call.files[p] = NoFacts THEN Abstract!NoPostings
                                               ELSE Abstract!PostingsOf(call.files[p].facts)]
    BY <1>3 DEF Abstract!Replace
  <2>2. \A f : \A r \in Refs : Abstract!PostingsOf(f)[r] >= Abstract!PostingsOf(f)[r]
    BY DEF Abstract!PostingsOf
  <2> QED
    BY <2>1, <2>2 DEF ServesTheirPostings
<1>4. ASSUME NEW st, call \in Abstract!ApplyCalls,
             served' = Abstract!Apply(served, call.changes, st)
      PROVE  ServesTheirPostings'
  <2> PICK cs : cs = call.changes
    OBVIOUS
  <2>1. /\ served'.entries = [p \in Paths |-> Abstract!EntryAfter(served.entries[p], p, cs)]
        /\ served'.postings = [p \in Paths |-> Abstract!PostingsAfter(served.postings[p], p, cs)]
    BY <1>4 DEF Abstract!Apply
  <2>2. ASSUME NEW p \in Paths
        PROVE  IF served'.entries[p] = NoFacts THEN served'.postings[p] = Abstract!NoPostings
               ELSE \A r \in Refs :
                      served'.postings[p][r] >= Abstract!PostingsOf(served'.entries[p].facts)[r]
    <3> PICK old, e, bag : old = served.entries[p] /\ bag = served.postings[p]
                           /\ e = Abstract!EntryAfter(old, p, cs)
      OBVIOUS
    <3>1. IF old = NoFacts THEN bag = Abstract!NoPostings
          ELSE \A r \in Refs : bag[r] >= Abstract!PostingsOf(old.facts)[r]
      BY DEF ServesTheirPostings
    <3>2. served'.entries[p] = e /\ served'.postings[p] = Abstract!PostingsAfter(bag, p, cs)
      BY <2>1
    <3>3. bag \in [Refs -> Nat] /\ Abstract!NoPostings \in [Refs -> Nat]
      BY DEF Stores, Abstract!NoPostings
    <3>4. \A f : Abstract!PostingsOf(f) \in [Refs -> Nat]
      BY DEF Abstract!PostingsOf
    <3>5. \A a, b \in [Refs -> Nat] : /\ Abstract!AddPostings(a, b) \in [Refs -> Nat]
                                      /\ \A r \in Refs : Abstract!AddPostings(a, b)[r] >= b[r]
      BY DEF Abstract!AddPostings
    <3>6. CASE cs.added[p] # NoFacts
      <4>1. e = cs.added[p]
        BY <3>6 DEF Abstract!EntryAfter
      <4>2. \E a \in [Refs -> Nat] : Abstract!PostingsAfter(bag, p, cs) =
                                       Abstract!AddPostings(a, Abstract!PostingsOf(cs.added[p].facts))
        BY <3>3, <3>4, <3>5, <3>6 DEF Abstract!PostingsAfter
      <4> QED
        BY <3>2, <3>4, <3>5, <3>6, <4>1, <4>2
    <3>7. CASE cs.added[p] = NoFacts /\ cs.updated[p] # NoFacts
      <4>1. e = cs.updated[p]
        BY <3>7 DEF Abstract!EntryAfter
      <4>2. Abstract!PostingsAfter(bag, p, cs) =
              Abstract!AddPostings(Abstract!NoPostings, Abstract!PostingsOf(cs.updated[p].facts))
        BY <3>7 DEF Abstract!PostingsAfter, Abstract!PathsIn
      <4> QED
        BY <3>2, <3>3, <3>4, <3>5, <3>7, <4>1, <4>2
    <3>8. CASE cs.added[p] = NoFacts /\ cs.updated[p] = NoFacts
      <4>1. e = IF p \in cs.deleted THEN NoFacts ELSE old
        BY <3>8 DEF Abstract!EntryAfter
      <4>2. Abstract!PostingsAfter(bag, p, cs) = IF p \in cs.deleted THEN Abstract!NoPostings ELSE bag
        BY <3>8 DEF Abstract!PostingsAfter, Abstract!PathsIn
      <4> QED
        BY <3>1, <3>2, <4>1, <4>2
    <3> QED
      BY <3>6, <3>7, <3>8
  <2> QED
    BY <2>2 DEF ServesTheirPostings
<1>5. CASE Abstract!Commit
  <2>1. PICK st \in {"ready", "partial"} :
          served' = IF call.op = "replace" THEN Abstract!Replace(served, call.files, call.errs, st)
                                           ELSE Abstract!Apply(served, call.changes, st)
    BY <1>5 DEF Abstract!Commit
  <2>2. /\ call \in Abstract!ReplaceCalls \/ call \in Abstract!ApplyCalls
        /\ call \in Abstract!ReplaceCalls => call.op = "replace"
        /\ call \in Abstract!ApplyCalls => call.op = "apply"
    BY <1>5 DEF Abstract!Commit, Abstract!ReplaceCalls, Abstract!ApplyCalls
  <2> QED
    BY <1>3, <1>4, <2>1, <2>2
<1> QED
  BY <1>1, <1>2, <1>5 DEF Abstract!Next, Abstract!Invoke

\* Every occurrence of a published file is served, and a path that is not
\* published has none (remove and insert, store.go:598-656).
THEOREM PostingsAreServed == ServedSpec => []ServesTheirPostings
<1>1. ServedInit => ServesTheirPostings
  BY InitServes DEF Abstract!Init, Abstract!EmptyStore, Abstract!NoFiles, ServesTheirPostings
<1>2. ServingInv => /\ served \in Stores
                    /\ call = NoCall \/ call \in Abstract!ReplaceCalls \cup Abstract!ApplyCalls
  <2> SUFFICES ASSUME ServingInv
               PROVE  /\ served \in Stores
                      /\ call = NoCall \/ call \in Abstract!ReplaceCalls \cup Abstract!ApplyCalls
    OBVIOUS
  <2>1. job.op \in {"none", "replace", "apply"}
    BY DEF ServingInv, IndInv, TypeOK, Jobs
  <2>2. View \in Stores
    BY ViewIsAStore DEF ServingInv, Serving
  <2> QED
    BY <2>1, <2>2 DEF ServingInv, Serving
<1>3. ServingInv /\ ServesTheirPostings /\ [ServedNext]_<<vars, served, call>>
        => ServesTheirPostings'
  BY <1>2, NextServes, CallsKeepPostings
<1> QED
  BY <1>1, <1>3, ServingHolds, PTL DEF ServedSpec
=============================================================================
