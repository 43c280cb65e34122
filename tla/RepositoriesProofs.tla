-------------------------- MODULE RepositoriesProofs --------------------------
(***************************************************************************)
(* Proofs about Repositories, for any roots, languages and command lines:  *)
(* the safety properties of its run and the types they need.               *)
(*                                                                         *)
(* Typed is type correctness with what it needs to be inductive.  Placing  *)
(* says where an identifier is at every point of Index and drop; it gives  *)
(* EveryIndexIsReachable and is what the other invariants stand on.        *)
(* OneHolder, WithinLanguages and Searching, the invariant of the loop of  *)
(* ResolveIndex, give OneRefreshPerIndex, FitsLanguages and                *)
(* AnswersFromInnermost.  Each is preserved by a step of Index and by a    *)
(* step of a goroutine; what the latter can change at all is in            *)
(* ReposFrame, ProcFrame and OwnStep.                                      *)
(***************************************************************************)
EXTENDS Repositories, TLAPS

\* Until an index is created there is one left to create.
Creating ==
  indexer.pc \in {"drop", "unregister", "forget watch", "forget languages", "forget lock",
                  "create"}
    => nextID < Len(cmd.repo) /\ indexer.root \in Roots

\* From then on the index at hand is the last one.
AtHand ==
  indexer.pc \in {"register", "languages", "restore", "build", "set watch", "start watch",
                  "refresh"}
    => indexer.id = nextID /\ nextID \in Ids /\ indexer.root \in Roots

Typed == TypeOK /\ Creating /\ AtHand

-----------------------------------------------------------------------------
LEMMA Constants ==
  /\ NoId \notin Ids /\ Ids \subseteq Nat /\ NoId \in MaybeIds
  /\ Filter({}) \in Languages
  /\ \A l \in Languages : Filter(l) \in Languages
  /\ \A c \in CommandLines : c.repo \in Seq(Roots \X Languages) /\ Len(c.repo) \in 0..MaxIndexes
BY RepositoriesAssumption DEF Ids, NoId, MaybeIds, Filter, Languages

\* What main asks to have indexed is a root and languages.
LEMMA CommandIsTyped ==
  ASSUME TypeOK, NEW i \in 1..Len(cmd.repo)
  PROVE  cmd.repo[i][1] \in Roots /\ cmd.repo[i][2] \in Languages
<1>1. cmd.repo \in Seq(Roots \X Languages)
  BY Constants DEF TypeOK
<1>2. cmd.repo[i] \in Roots \X Languages
  BY <1>1
<1> QED
  BY <1>2

LEMMA InitTyped ==
  ASSUME Init
  PROVE  Typed
<1>1. Idle \in Procs /\ NoRepo \in RepoRecords /\ NoCall \in IndexCalls
  BY RepositoriesAssumption
     DEF Idle, NoRepo, NoCall, Procs, RepoRecords, IndexCalls, ProcPcs, RepoStates, IndexPcs,
         NoMutex, NoId, MaybeRoots, MaybeIds, Languages
<1>2. cmd \in CommandLines
  BY DEF Init
<1>3. \A r \in Roots : Earlier(r) \subseteq Snapshots
  <2> SUFFICES ASSUME NEW r \in Roots, NEW x \in Earlier(r)
               PROVE  x \in Snapshots
    OBVIOUS
  <2>1. CASE x = NoSnapshot
    BY <2>1 DEF NoSnapshot, Snapshots, Languages
  <2>2. CASE x # NoSnapshot
    <3>1. PICK i \in {j \in DOMAIN cmd.repo : cmd.repo[j][1] = r} :
            x \in {[there |-> TRUE, label |-> cmd.repo[i][2], files |-> f] :
                     f \in {{}, Filter(cmd.repo[i][2])}}
      BY <2>2 DEF Earlier
    <3>2. cmd.repo \in Seq(Roots \X Languages)
      BY <1>2, Constants
    <3>3. cmd.repo[i] \in Roots \X Languages
      BY <3>1, <3>2
    <3>4. cmd.repo[i][2] \in Languages
      BY <3>3
    <3>5. Filter(cmd.repo[i][2]) \in Languages /\ {} \in Languages
      BY <3>4, Constants DEF Languages
    <3>6. PICK f \in {{}, Filter(cmd.repo[i][2])} :
            x = [there |-> TRUE, label |-> cmd.repo[i][2], files |-> f]
      BY <3>1
    <3>7. f \in Languages
      BY <3>5, <3>6
    <3> QED
      BY <3>4, <3>6, <3>7 DEF Snapshots
  <2> QED
    BY <2>1, <2>2
<1>4. snapshot \in [Roots -> Snapshots]
  BY <1>3 DEF Init
<1>5. TypeOK
  BY <1>1, <1>2, <1>4, RepositoriesAssumption, Constants
     DEF Init, TypeOK, NoRequest, NoId, NoMutex, MaybeIds, MaybeRoots, Answers, Languages
<1>6. Creating /\ AtHand
  BY DEF Init, Creating, AtHand, NoCall
<1> QED
  BY <1>5, <1>6 DEF Typed

\* A step of Index.
LEMMA IndexTyped ==
  ASSUME Typed, IndexStep
  PROVE  Typed'
<1> USE Constants
<1>1. CASE IndexCall
  <2> DEFINE i == nextID + 1
  <2>1. i \in 1..Len(cmd.repo)
    BY <1>1 DEF IndexCall, Typed, TypeOK
  <2>2. cmd.repo[i][1] \in Roots /\ cmd.repo[i][2] \in Languages
    BY <2>1, CommandIsTyped DEF Typed
  <2>3. indexer' \in IndexCalls /\ indexer'.root \in Roots /\ indexer'.pc \in {"create", "drop"}
    BY <1>1, <2>2 DEF IndexCall, Typed, TypeOK, IndexCalls, NoCall, Replaced, IndexPcs, MaybeRoots,
                      Languages
  <2>4. UNCHANGED <<cmd, nextID, repos, maps, snapshot, proc, edits, request>>
        /\ nextID < Len(cmd.repo)
    BY <1>1 DEF IndexCall
  <2>5. TypeOK'
    BY <2>3, <2>4 DEF Typed, TypeOK, maps
  <2> QED
    BY <2>3, <2>4, <2>5 DEF Typed, Creating, AtHand
<1>2. CASE Serve
  BY <1>2 DEF Serve, IndexGoto, Typed, TypeOK, Creating, AtHand, maps, IndexCalls, IndexPcs
<1>3. CASE Drop
  <2>1. NoRepo \in RepoRecords
    BY DEF NoRepo, RepoRecords, RepoStates, MaybeRoots, Languages
  <2>2. {} \in Languages
    BY DEF Languages
  <2>3. indexer' \in IndexCalls /\ indexer'.root = indexer.root
    <3>1. PICK pc \in IndexPcs : indexer' = [indexer EXCEPT !.pc = pc]
      BY <1>3 DEF Drop, DropStore, DropRoot, DropWatchLangs, DropSnapshotLangs, DropLock, IndexGoto,
                  IndexPcs
    <3> QED
      BY <3>1 DEF Typed, TypeOK, IndexCalls
  <2>4. UNCHANGED <<cmd, nextID, mutexes, snapshot, proc, edits, request>>
    BY <1>3 DEF Drop, DropStore, DropRoot, DropWatchLangs, DropSnapshotLangs, DropLock, maps
  <2>6. repos' \in [Ids -> RepoRecords]
    BY <1>3, <2>1 DEF Drop, DropStore, DropRoot, DropWatchLangs, DropSnapshotLangs, DropLock, Typed,
                      TypeOK
  <2>7. roots' \in [Roots -> MaybeIds]
    BY <1>3 DEF Drop, DropStore, DropRoot, DropWatchLangs, DropSnapshotLangs, DropLock, Typed,
                TypeOK, maps
  <2>8. watchLangs' \in [Ids -> Languages] /\ snapshotLangs' \in [Ids -> Languages]
    <3>1. UNCHANGED watchLangs \/ watchLangs' = [watchLangs EXCEPT ![indexer.id] = {}]
      BY <1>3 DEF Drop, DropStore, DropRoot, DropWatchLangs, DropSnapshotLangs, DropLock, maps
    <3>2. UNCHANGED snapshotLangs \/ snapshotLangs' = [snapshotLangs EXCEPT ![indexer.id] = {}]
      BY <1>3 DEF Drop, DropStore, DropRoot, DropWatchLangs, DropSnapshotLangs, DropLock, maps
    <3>3. watchLangs' \in [Ids -> Languages]
      BY <2>2, <3>1 DEF Typed, TypeOK
    <3>4. snapshotLangs' \in [Ids -> Languages]
      BY <2>2, <3>2 DEF Typed, TypeOK
    <3> QED
      BY <3>3, <3>4
  <2>9. locks' \in [Ids -> Nat]
    <3>1. UNCHANGED locks \/ locks' = [locks EXCEPT ![indexer.id] = NoMutex]
      BY <1>3 DEF Drop, DropStore, DropRoot, DropWatchLangs, DropSnapshotLangs, DropLock, maps
    <3> QED
      BY <3>1 DEF Typed, TypeOK, NoMutex
  <2>10. TypeOK'
    BY <2>3, <2>4, <2>6, <2>7, <2>8, <2>9 DEF Typed, TypeOK
  <2>5. (Creating /\ AtHand)'
    <3>1. indexer.pc \in {"drop", "unregister", "forget watch", "forget languages", "forget lock"}
      BY <1>3 DEF Drop, DropStore, DropRoot, DropWatchLangs, DropSnapshotLangs, DropLock
    <3>2. indexer'.pc \in {"unregister", "forget watch", "forget languages", "forget lock", "create"}
      BY <1>3 DEF Drop, DropStore, DropRoot, DropWatchLangs, DropSnapshotLangs, DropLock, IndexGoto,
                  Typed, TypeOK, IndexCalls
    <3>3. UNCHANGED <<cmd, nextID>>
      BY <1>3 DEF Drop, DropStore, DropRoot, DropWatchLangs, DropSnapshotLangs, DropLock
    <3> QED
      BY <2>3, <3>1, <3>2, <3>3 DEF Typed, Creating, AtHand
  <2> QED
    BY <2>5, <2>10 DEF Typed
<1>4. CASE Create
  <2>1. nextID' \in Ids /\ nextID' = nextID + 1 /\ indexer.root \in Roots
    <3>1. cmd \in CommandLines /\ nextID \in Nat /\ nextID < Len(cmd.repo) /\ indexer.root \in Roots
      BY <1>4 DEF Create, Typed, TypeOK, Creating
    <3>2. Len(cmd.repo) \in 0..MaxIndexes /\ MaxIndexes \in Nat
      BY <3>1, RepositoriesAssumption
    <3> QED
      BY <1>4, <3>1, <3>2 DEF Create, Ids
  <2>2. [NoRepo EXCEPT !.root = indexer.root, !.state = "building"] \in RepoRecords
    BY <2>1 DEF NoRepo, RepoRecords, RepoStates, MaybeRoots, Languages
  <2>3. indexer' \in IndexCalls /\ indexer'.pc = "register" /\ indexer'.id = nextID'
        /\ indexer'.root = indexer.root
    BY <1>4, <2>1 DEF Create, Typed, TypeOK, IndexCalls, IndexPcs, MaybeIds
  <2>4. TypeOK'
    BY <1>4, <2>1, <2>2, <2>3 DEF Create, Typed, TypeOK, maps, Ids
  <2> QED
    BY <2>1, <2>3, <2>4 DEF Typed, Creating, AtHand
<1>5. CASE Register
  BY <1>5 DEF Register, IndexGoto, Typed, TypeOK, Creating, AtHand, IndexCalls, IndexPcs, MaybeIds
<1>6. CASE LoadSnapshot
  <2>1. snapshot[indexer.root] \in Snapshots
    BY <1>6 DEF LoadSnapshot, Typed, TypeOK, AtHand
  <2>2. indexer' \in IndexCalls /\ indexer'.pc \in {"restore", "build"}
        /\ indexer'.id = indexer.id /\ indexer'.root = indexer.root
    BY <1>6, <2>1 DEF LoadSnapshot, Typed, TypeOK, IndexCalls, IndexPcs, Snapshots, Valid, Languages
  <2>3. snapshotLangs' \in [Ids -> Languages]
    BY <1>6 DEF LoadSnapshot, Typed, TypeOK, IndexCalls
  <2> QED
    BY <1>6, <2>2, <2>3 DEF LoadSnapshot, Typed, TypeOK, Creating, AtHand
<1>7. CASE Restore
  <2>1. PICK state \in Verdicts :
          repos' = [repos EXCEPT ![indexer.id].files = indexer.files, ![indexer.id].state = state]
    BY <1>7 DEF Restore
  <2>2. repos' \in [Ids -> RepoRecords]
    <3>1. state \in RepoStates /\ indexer.files \in Languages
      BY DEF Typed, TypeOK, RepoStates, IndexCalls
    <3>2. indexer.id \in Ids /\ repos[indexer.id] \in RepoRecords
      BY <1>7 DEF Restore, Typed, TypeOK, AtHand
    <3>3. [[repos[indexer.id] EXCEPT !.files = indexer.files] EXCEPT !.state = state] \in RepoRecords
      BY <3>1, <3>2 DEF RepoRecords
    <3>4. repos' = [repos EXCEPT ![indexer.id] =
                      [[repos[indexer.id] EXCEPT !.files = indexer.files] EXCEPT !.state = state]]
      BY <2>1, <3>2 DEF Typed, TypeOK
    <3> QED
      BY <3>3, <3>4 DEF Typed, TypeOK
  <2>3. indexer' \in IndexCalls /\ indexer'.pc \in {"set watch", "refresh"}
        /\ indexer'.id = indexer.id /\ indexer'.root = indexer.root
    BY <1>7 DEF Restore, IndexGoto, Typed, TypeOK, IndexCalls, IndexPcs
  <2> QED
    BY <1>7, <2>2, <2>3 DEF Restore, Typed, TypeOK, Creating, AtHand, maps
<1>8. CASE StartBuild \/ StartWatch \/ StartRefresh
  <2>1. \A pc \in ProcPcs, langs \in Languages :
          /\ [[Idle EXCEPT !.pc = pc] EXCEPT !.langs = langs] \in Procs
          /\ [Idle EXCEPT !.pc = pc] \in Procs
    BY DEF Procs, Idle, MaybeRoots, Languages, NoMutex
  <2>2. "parse" \in ProcPcs /\ "tick" \in ProcPcs /\ "refresh" \in ProcPcs
    BY DEF ProcPcs
  <2>3. indexer.langs \in Languages
    BY DEF Typed, TypeOK, IndexCalls
  <2>4. PICK g \in Goroutines, rec \in Procs : proc' = [proc EXCEPT ![g] = rec]
    <3>1. indexer.id \in Ids
      BY <1>8 DEF StartBuild, StartWatch, StartRefresh, Typed, AtHand
    <3>2. \A k \in {"build", "watch", "restore"} : <<k, indexer.id>> \in Goroutines
      BY <3>1 DEF Goroutines
    <3> QED
      BY <1>8, <2>1, <2>2, <2>3, <3>2 DEF StartBuild, StartWatch, StartRefresh
  <2>5. proc' \in [Goroutines -> Procs]
    BY <2>4 DEF Typed, TypeOK
  <2>6. NoCall \in IndexCalls
    BY DEF NoCall, IndexCalls, IndexPcs, MaybeRoots, MaybeIds, Languages
  <2>7. \/ indexer' = NoCall
        \/ \E pc \in {"set watch", "refresh"} : indexer' = [indexer EXCEPT !.pc = pc]
    BY <1>8 DEF StartBuild, StartWatch, StartRefresh
  <2>8. indexer' \in IndexCalls
    BY <2>6, <2>7 DEF Typed, TypeOK, IndexCalls, IndexPcs
  <2>9. watchLangs' \in [Ids -> Languages]
    BY <1>8, <2>3 DEF StartBuild, StartWatch, StartRefresh, Typed, TypeOK, maps
  <2>10. UNCHANGED <<cmd, nextID, repos, roots, snapshotLangs, locks, mutexes, snapshot, edits,
                     request>>
    BY <1>8 DEF StartBuild, StartWatch, StartRefresh, maps
  <2>11. TypeOK'
    BY <2>5, <2>8, <2>9, <2>10 DEF Typed, TypeOK
  <2>12. (Creating /\ AtHand)'
    <3>1. CASE indexer' = NoCall
      BY <3>1 DEF Creating, AtHand, NoCall
    <3>2. CASE indexer' # NoCall
      <4>1. PICK pc \in {"set watch", "refresh"} : indexer' = [indexer EXCEPT !.pc = pc]
        BY <2>7, <3>2
      <4>2. indexer'.pc = pc /\ indexer'.id = indexer.id /\ indexer'.root = indexer.root
        BY <4>1 DEF Typed, TypeOK, IndexCalls
      <4>3. indexer.id = nextID /\ nextID \in Ids /\ indexer.root \in Roots
        BY <1>8 DEF StartBuild, StartWatch, StartRefresh, Typed, AtHand
      <4> QED
        BY <2>10, <4>2, <4>3 DEF Creating, AtHand
    <3> QED
      BY <3>1, <3>2
  <2> QED
    BY <2>11, <2>12 DEF Typed
<1>9. CASE SetWatch
  <2>1. repos' \in [Ids -> RepoRecords]
    BY <1>9 DEF SetWatch, Typed, TypeOK, RepoRecords
  <2>2. indexer' \in IndexCalls /\ (Creating /\ AtHand)'
    BY <1>9 DEF SetWatch, IndexGoto, Typed, TypeOK, IndexCalls, IndexPcs, Creating, AtHand
  <2> QED
    BY <1>9, <2>1, <2>2 DEF SetWatch, Typed, TypeOK, maps
<1> QED
  BY <1>1, <1>2, <1>3, <1>4, <1>5, <1>6, <1>7, <1>8, <1>9 DEF IndexStep

-----------------------------------------------------------------------------
LEMMA IdleIsTyped ==
  /\ Idle \in Procs
  /\ \A pc \in ProcPcs : [Idle EXCEPT !.pc = pc] \in Procs
  /\ \A pc \in ProcPcs, langs \in Languages :
       [[Idle EXCEPT !.pc = pc] EXCEPT !.langs = langs] \in Procs
BY DEF Procs, ProcPcs, Idle, MaybeRoots, Languages, NoMutex

LEMMA GotoTyped ==
  ASSUME TypeOK, NEW g \in Goroutines, NEW pc \in ProcPcs, Goto(g, pc)
  PROVE  proc' \in [Goroutines -> Procs]
BY DEF Goto, TypeOK, Procs

LEMMA ReturnTyped ==
  ASSUME TypeOK, NEW g \in Goroutines, Return(g)
  PROVE  proc' \in [Goroutines -> Procs]
<1>1. After(g) \in ProcPcs
  BY DEF After, ProcPcs
<1>2. [Idle EXCEPT !.pc = After(g)] \in Procs
  BY <1>1, IdleIsTyped
<1> QED
  BY <1>2 DEF Return, TypeOK

\* What the watcher, a refresh, a build or a save does.
LEMMA ProcTyped ==
  ASSUME Typed, NEW g \in Goroutines, Step(g)
  PROVE  Typed'
<1> USE DEF Typed
<1>0. /\ g[1] \in {"build", "watch", "restore"} /\ g[2] \in Ids
      /\ <<"build", g[2]>> \in Goroutines
      /\ g = <<g[1], g[2]>>
      /\ proc[g] \in Procs /\ repos[g[2]] \in RepoRecords
  BY DEF Goroutines, TypeOK
<1>a. {"off", "tick", "refresh", "lock", "parse", "diff", "apply", "rebuild", "save", "label", "write"}
        \subseteq ProcPcs
  BY DEF ProcPcs, Locked
<1>1. UNCHANGED <<cmd, nextID, roots, watchLangs, snapshotLangs, indexer, request>>
  BY DEF Step, Tick, Refresh, RefreshInfo, Lock, Diff, Apply, Rebuild, BuildReplace, Save, SaveMeta,
         SaveLabel, SaveWrite, maps
<1>2. (Creating /\ AtHand)'
  BY <1>1 DEF Creating, AtHand
<1>3. mutexes' \in Nat /\ locks' \in [Ids -> Nat]
  <2>1. CASE Lock(g)
    <3>1. \/ mutexes' = mutexes + 1 /\ locks' = [locks EXCEPT ![g[2]] = mutexes']
          \/ UNCHANGED <<mutexes, locks>>
      BY <2>1 DEF Lock
    <3> QED
      BY <3>1 DEF TypeOK
  <2>2. CASE ~Lock(g)
    BY <2>2 DEF Step, Tick, Refresh, RefreshInfo, Diff, Apply, Rebuild, BuildReplace, Save, SaveMeta,
                SaveLabel, SaveWrite, maps, TypeOK
  <2> QED
    BY <2>1, <2>2
<1>4. edits' \in 0..MaxEdits
  BY RepositoriesAssumption
     DEF Step, Tick, Refresh, RefreshInfo, Lock, Diff, Apply, Rebuild, BuildReplace, Save, SaveMeta,
         SaveLabel, SaveWrite, TypeOK
<1>5. snapshot' \in [Roots -> Snapshots]
  <2>1. CASE SaveWrite(g)
    <3>1. [there |-> TRUE, label |-> proc[g].label, files |-> proc[g].files] \in Snapshots
      BY <1>0 DEF Procs, Snapshots
    <3> QED
      BY <2>1, <3>1 DEF SaveWrite, TypeOK
  <2>2. CASE ~SaveWrite(g)
    BY <2>2 DEF Step, Tick, Refresh, RefreshInfo, Lock, Diff, Apply, Rebuild, BuildReplace, Save,
                SaveMeta, SaveLabel, TypeOK
  <2> QED
    BY <2>1, <2>2
<1>6. repos' \in [Ids -> RepoRecords]
  <2>1. proc[g].langs \in Languages
    BY <1>0 DEF Procs
  <2>2. \A st \in RepoStates :
          /\ [repos[g[2]] EXCEPT !.state = st] \in RepoRecords
          /\ [[repos[g[2]] EXCEPT !.files = Filter(proc[g].langs)] EXCEPT !.state = st] \in RepoRecords
    BY <1>0, <2>1, Constants DEF RepoRecords
  <2>3. \/ UNCHANGED repos
        \/ \E st \in RepoStates :
             \/ repos' = [repos EXCEPT ![g[2]] = [@ EXCEPT !.state = st]]
             \/ repos' = [repos EXCEPT ![g[2]] =
                           [[@ EXCEPT !.files = Filter(proc[g].langs)] EXCEPT !.state = st]]
    <3>1. CASE Apply(g)
      <4>1. CASE UNCHANGED repos
        BY <4>1
      <4>2. CASE ~UNCHANGED repos
        <5>1. PICK st \in Verdicts :
                repos' = [repos EXCEPT ![g[2]].files = Filter(proc[g].langs), ![g[2]].state = st]
          BY <3>1, <4>2 DEF Apply
        <5>2. repos' = [repos EXCEPT ![g[2]] =
                         [[@ EXCEPT !.files = Filter(proc[g].langs)] EXCEPT !.state = st]]
          BY <1>0, <5>1 DEF TypeOK
        <5> QED
          BY <5>2 DEF RepoStates
      <4> QED
        BY <4>1, <4>2
    <3>2. CASE g[1] = "build" /\ BuildReplace(g[2])
      <4>1. CASE UNCHANGED repos
        BY <4>1
      <4>2. CASE ~UNCHANGED repos
        <5>1. PICK st \in Verdicts :
                repos' = [repos EXCEPT ![g[2]].files = Filter(proc[g].langs), ![g[2]].state = st]
          BY <1>0, <3>2, <4>2 DEF BuildReplace
        <5>2. repos' = [repos EXCEPT ![g[2]] =
                         [[@ EXCEPT !.files = Filter(proc[g].langs)] EXCEPT !.state = st]]
          BY <1>0, <5>1 DEF TypeOK
        <5> QED
          BY <5>2 DEF RepoStates
      <4> QED
        BY <4>1, <4>2
    <3>3. CASE Rebuild(g)
      <4>1. "refreshing" \in RepoStates
        BY DEF RepoStates
      <4> QED
        BY <3>3, <4>1 DEF Rebuild
    <3> QED
      BY <3>1, <3>2, <3>3 DEF Step, Tick, Refresh, RefreshInfo, Lock, Diff, Save, SaveMeta, SaveLabel,
                              SaveWrite
  <2> QED
    BY <1>0, <2>2, <2>3 DEF TypeOK
<1>7. proc' \in [Goroutines -> Procs]
  <2>1. CASE \/ Return(g)
             \/ \E pc \in ProcPcs : Goto(g, pc)
    BY <2>1, GotoTyped, ReturnTyped
  <2>2. ASSUME NEW rec \in Procs, proc' = [proc EXCEPT ![g] = rec]
        PROVE  proc' \in [Goroutines -> Procs]
    BY <2>2 DEF TypeOK
  <2>3. CASE g[1] = "watch" /\ Tick(g[2])
    <3>1. [[proc[g] EXCEPT !.pc = "refresh"] EXCEPT !.langs = watchLangs[g[2]]] \in Procs
      BY <1>0, <1>a DEF Procs, TypeOK
    <3>2. \/ Goto(g, "off")
          \/ proc' = [proc EXCEPT ![g] = [[@ EXCEPT !.pc = "refresh"] EXCEPT !.langs = watchLangs[g[2]]]]
      BY <1>0, <2>3 DEF Tick, TypeOK
    <3> QED
      BY <1>a, <2>1, <2>2, <3>1, <3>2
  <2>4. CASE Lock(g)
    <3>1. locks'[g[2]] \in Nat
      BY <1>0, <1>3
    <3>2. [[proc[g] EXCEPT !.pc = "diff"] EXCEPT !.mutex = locks'[g[2]]] \in Procs
      BY <1>0, <1>a, <3>1 DEF Procs
    <3>3. \/ Return(g)
          \/ proc' = [proc EXCEPT ![g] = [[@ EXCEPT !.pc = "diff"] EXCEPT !.mutex = locks'[g[2]]]]
      BY <1>0, <2>4 DEF Lock, TypeOK
    <3> QED
      BY <2>1, <2>2, <3>2, <3>3
  <2>5. CASE RefreshInfo(g) \/ Diff(g) \/ Apply(g) \/ (g[1] = "build" /\ BuildReplace(g[2]))
             \/ SaveWrite(g)
    BY <1>0, <1>a, <2>1, <2>5 DEF RefreshInfo, Diff, Apply, BuildReplace, SaveWrite
  <2>6. CASE Rebuild(g)
    <3>1. BuildStarted(g[2], proc[g].langs) \in Procs
      BY <1>0, <1>a, IdleIsTyped DEF BuildStarted, Procs
    <3>2. [Idle EXCEPT !.pc = After(g)] \in Procs
      BY <1>a, IdleIsTyped DEF After
    <3> QED
      BY <1>0, <2>1, <2>6, <3>1, <3>2 DEF Rebuild, TypeOK
  <2>7. CASE SaveMeta(g)
    <3>1. [[[proc[g] EXCEPT !.pc = "label"] EXCEPT !.root = repos[g[2]].root]
             EXCEPT !.files = repos[g[2]].files] \in Procs
      BY <1>0, <1>a DEF Procs, RepoRecords
    <3>2. \/ Return(g)
          \/ proc' = [proc EXCEPT ![g] = [[[@ EXCEPT !.pc = "label"] EXCEPT !.root = repos[g[2]].root]
                                             EXCEPT !.files = repos[g[2]].files]]
      BY <1>0, <2>7 DEF SaveMeta, TypeOK
    <3> QED
      BY <2>1, <2>2, <3>1, <3>2
  <2>8. CASE SaveLabel(g)
    <3>1. [[proc[g] EXCEPT !.pc = "write"] EXCEPT !.label = snapshotLangs[g[2]]] \in Procs
      BY <1>0, <1>a DEF Procs, TypeOK
    <3>2. proc' = [proc EXCEPT ![g] = [[@ EXCEPT !.pc = "write"] EXCEPT !.label = snapshotLangs[g[2]]]]
      BY <1>0, <2>8 DEF SaveLabel, TypeOK
    <3> QED
      BY <2>2, <3>1, <3>2
  <2> QED
    BY <2>3, <2>4, <2>5, <2>6, <2>7, <2>8 DEF Step, Refresh, Save
<1> QED
  BY <1>1, <1>2, <1>3, <1>4, <1>5, <1>6, <1>7 DEF TypeOK

\* A step of a request is its own.
LEMMA RequestFrame ==
  ASSUME Request
  PROVE  UNCHANGED <<cmd, nextID, repos, maps, snapshot, indexer, proc, edits>>
BY DEF Request, Ask, Visit, FirstLookup, SecondLookup

LEMMA RequestTyped ==
  ASSUME Typed, Request
  PROVE  Typed'
<1> USE DEF Typed
<1>1. UNCHANGED <<cmd, nextID, repos, maps, snapshot, indexer, proc, edits>>
  BY RequestFrame
<1> DEFINE Requests == [pc: {"idle", "first", "second", "done"}, tool: Tools \cup {"none"},
                        path: cmd.ask \cup {<<>>}, left: SUBSET Roots, best: MaybeRoots,
                        id: MaybeIds, answer: Answers]
<1>2. /\ request \in Requests /\ NoRequest \in Requests
      /\ NoId \in MaybeIds /\ <<>> \in MaybeRoots /\ roots \in [Roots -> MaybeIds]
      /\ {"none", "indexed", "nothing"} \subseteq Answers
      /\ \A tool \in Tools \cup {"none"} : Otherwise(tool) \in Answers
  BY DEF TypeOK, NoRequest, MaybeIds, MaybeRoots, Answers, Otherwise
<1>3. ASSUME NEW pc \in {"first", "second"}, NEW tool \in Tools \cup {"none"},
             NEW path \in cmd.ask \cup {<<>>}, Lookup(pc, tool, path)
      PROVE  request' \in Requests
  BY <1>2, <1>3 DEF Lookup
<1>4. ASSUME NEW path \in cmd.ask \cup {<<>>}, NEW id \in MaybeIds, NEW answer \in Answers,
             Answer(path, id, answer)
      PROVE  request' \in Requests
  BY <1>2, <1>4 DEF Answer
<1>5. request' \in Requests
  <2>1. ASSUME NEW tool \in Tools, NEW path \in cmd.ask, Ask(tool, path)
        PROVE  request' \in Requests
    BY <1>3, <2>1 DEF Ask
  <2>2. ASSUME NEW r \in Roots, Visit(r)
        PROVE  request' \in Requests
    <3>1. roots[r] \in MaybeIds /\ r \in MaybeRoots /\ request.left \ {r} \in SUBSET Roots
      BY <1>2 DEF MaybeRoots
    <3> QED
      BY <1>2, <2>2, <3>1 DEF Visit
  <2>3. CASE FirstLookup
    <3>1. /\ request.tool \in Tools \cup {"none"} /\ request.path \in cmd.ask \cup {<<>>}
          /\ request.id \in MaybeIds
      BY <1>2
    <3> HIDE DEF Requests
    <3> QED
      BY <1>2, <1>3, <1>4, <2>3, <3>1 DEF FirstLookup
  <2>4. CASE SecondLookup
    <3>1. request.path \in cmd.ask \cup {<<>>} /\ request.id \in MaybeIds
      BY <1>2
    <3> HIDE DEF Requests
    <3> QED
      BY <1>2, <1>4, <2>4, <3>1 DEF SecondLookup
  <2> HIDE DEF Requests
  <2> QED
    BY <2>1, <2>2, <2>3, <2>4 DEF Request
<1>6. TypeOK'
  BY <1>1, <1>5 DEF TypeOK, maps
<1> QED
  BY <1>1, <1>6 DEF Creating, AtHand

LEMMA NextTyped ==
  ASSUME Typed, [Next]_vars
  PROVE  Typed'
<1>1. CASE UNCHANGED vars
  BY <1>1 DEF vars, maps, Typed, TypeOK, Creating, AtHand
<1> QED
  BY <1>1, IndexTyped, ProcTyped, RequestTyped DEF Next

\* The maps of RepoService and MemoryStore and the locals of Index, the goroutines
\* and the handlers keep their types, and an identifier is given out only while
\* there is one left.
THEOREM TypesHold == Spec => [](TypeOK /\ Creating /\ AtHand)
BY InitTyped, NextTyped, PTL DEF Spec, Typed

-----------------------------------------------------------------------------
(* The inductive invariant.                                                *)

Dropping == {"unregister", "forget watch", "forget languages", "forget lock"}
Unregistered == {"forget watch", "forget languages", "forget lock", "create", "register"}
Installing == {"register", "languages", "restore", "build", "set watch", "start watch", "refresh"}

\* Nothing is there of an identifier that is not given out yet.
Unborn ==
  /\ \A id \in Ids : Held(id) => id <= nextID
  /\ \A g \in Goroutines : proc[g].pc # "off" => g[2] <= nextID

\* Where Index stands between the store and the roots of the service.
Placed ==
  /\ indexer.pc = "drop" => indexer.id = roots[indexer.root] /\ indexer.id \in Ids
  /\ indexer.pc = "unregister" => indexer.id = roots[indexer.root]
  /\ indexer.pc \in Dropping => indexer.id \in Ids /\ ~Held(indexer.id)
  /\ indexer.pc \in Unregistered => roots[indexer.root] = NoId
  /\ indexer.pc \in Installing => Held(indexer.id) /\ repos[indexer.id].root = indexer.root

HeldAreRegistered ==
  \A id \in Ids :
    Held(id) => /\ repos[id].root \in Roots
                /\ roots[repos[id].root] = id \/ (indexer.pc = "register" /\ indexer.id = id)

RegisteredAreHeld ==
  \A r \in Roots :
    roots[r] # NoId => \/ Held(roots[r]) /\ repos[roots[r]].root = r
                       \/ indexer.pc = "unregister" /\ indexer.id = roots[r]

Watched ==
  \A id \in Ids :
    repos[id].watch => /\ Held(id)
                       /\ \/ proc[<<"watch", id>>].pc # "off"
                          \/ indexer.pc = "start watch" /\ indexer.id = id

\* A mutex has one holder, and while an index is held the mutex its refreshers
\* hold is the one in refreshLocks.
OneHolder ==
  /\ \A g \in Refreshers :
       proc[g].pc \in Locked =>
         /\ proc[g].mutex # NoMutex
         /\ Held(g[2]) => proc[g].mutex = locks[g[2]]
  /\ \A g, h \in Refreshers :
       g # h /\ proc[g].pc \in Locked /\ proc[h].pc \in Locked => proc[g].mutex # proc[h].mutex

\* Everyone who is about to read files, or to label them, does so within the
\* languages that the snapshot of the index is for ({}, all of them, once the
\* index is dropped).
Reading(g) == proc[g].pc \notin {"off", "tick"}
WithinLanguages ==
  /\ \A id \in Ids : repos[id].files \subseteq Filter(snapshotLangs[id])
  /\ \A r \in Roots : snapshot[r].files \subseteq Filter(snapshot[r].label)
  /\ \A id \in Ids :
       Held(id) /\ proc[<<"watch", id>>].pc # "off" => watchLangs[id] = snapshotLangs[id]
  /\ \A g \in Goroutines :
       /\ Reading(g) => Filter(proc[g].langs) \subseteq Filter(snapshotLangs[g[2]])
       /\ proc[g].pc = "label" => proc[g].files \subseteq Filter(snapshotLangs[g[2]])
       /\ proc[g].pc = "write" => proc[g].files \subseteq Filter(proc[g].label)
  /\ indexer.pc \in {"register", "languages"} =>
       /\ repos[indexer.id].files = {}
       /\ \A g \in Goroutines : g[2] = indexer.id => proc[g].pc = "off"
  /\ indexer.pc \in Installing \ {"register", "languages"} =>
       snapshotLangs[indexer.id] = indexer.langs
  /\ indexer.pc = "restore" => indexer.files \subseteq Filter(indexer.langs)

\* Requests come only since Index is through.  The loop over the registered
\* roots: best covers the path, and what covers it and has been visited is no
\* longer than best.
Searching ==
  LookingUp =>
    /\ indexer.pc = "serving" /\ request.answer = "none"
    /\ \A r \in request.left : roots[r] # NoId
    /\ IF request.id = NoId THEN request.best = <<>>
         ELSE /\ request.best \in Roots /\ roots[request.best] = request.id
              /\ Covers(request.best, request.path)
    /\ \A r \in Roots :
         roots[r] # NoId /\ Covers(r, request.path)
           => r \in request.left \/ Len(r) <= Len(request.best)

Answered ==
  request.answer = "indexed" => indexer.pc = "serving" /\ request.id \in Ids

Placing == Typed /\ Unborn /\ Placed /\ HeldAreRegistered /\ RegisteredAreHeld /\ Watched

-----------------------------------------------------------------------------
(* What a goroutine leaves alone.                                          *)

\* Of the index of a goroutine only the files and the state change, and only
\* while the store holds it.
LEMMA ReposOfStep ==
  ASSUME Typed, NEW g \in Goroutines, Step(g)
  PROVE  \/ UNCHANGED repos
         \/ \E st \in RepoStates \ {"none"} :
              /\ Held(g[2])
              /\ \/ repos' = [repos EXCEPT ![g[2]] = [@ EXCEPT !.state = st]]
                 \/ repos' = [repos EXCEPT ![g[2]] =
                               [[@ EXCEPT !.files = Filter(proc[g].langs)] EXCEPT !.state = st]]
<1>0. g[2] \in Ids /\ g = <<g[1], g[2]>> /\ repos[g[2]] \in RepoRecords
  BY DEF Goroutines, Typed, TypeOK
<1>a. Verdicts \subseteq RepoStates \ {"none"} /\ "refreshing" \in RepoStates \ {"none"}
  BY RepositoriesAssumption DEF RepoStates
<1>b. ASSUME NEW st \in Verdicts,
             repos' = [repos EXCEPT ![g[2]].files = Filter(proc[g].langs), ![g[2]].state = st]
      PROVE  repos' = [repos EXCEPT ![g[2]] =
                        [[@ EXCEPT !.files = Filter(proc[g].langs)] EXCEPT !.state = st]]
  BY <1>0, <1>b DEF Typed, TypeOK
<1>1. CASE Apply(g)
  <2>1. CASE UNCHANGED repos
    BY <2>1
  <2>2. CASE ~UNCHANGED repos
    <3>1. PICK st \in Verdicts :
            repos' = [repos EXCEPT ![g[2]].files = Filter(proc[g].langs), ![g[2]].state = st]
      BY <1>1, <2>2 DEF Apply
    <3>2. Held(g[2])
      BY <1>1, <2>2 DEF Apply
    <3> QED
      BY <1>a, <1>b, <3>1, <3>2
  <2> QED
    BY <2>1, <2>2
<1>2. CASE g[1] = "build" /\ BuildReplace(g[2])
  <2>1. CASE UNCHANGED repos
    BY <2>1
  <2>2. CASE ~UNCHANGED repos
    <3>1. PICK st \in Verdicts :
            repos' = [repos EXCEPT ![g[2]].files = Filter(proc[g].langs), ![g[2]].state = st]
      BY <1>0, <1>2, <2>2 DEF BuildReplace
    <3>2. Held(g[2])
      BY <1>2, <2>2 DEF BuildReplace
    <3> QED
      BY <1>a, <1>b, <3>1, <3>2
  <2> QED
    BY <2>1, <2>2
<1>3. CASE Rebuild(g)
  BY <1>a, <1>3 DEF Rebuild
<1> QED
  BY <1>1, <1>2, <1>3 DEF Step, Tick, Refresh, RefreshInfo, Lock, Diff, Save, SaveMeta, SaveLabel,
                          SaveWrite

\* No goroutine makes, drops, moves or watches an index.
LEMMA ReposFrame ==
  ASSUME Typed, NEW g \in Goroutines, Step(g)
  PROVE  \A id \in Ids :
           /\ repos'[id].root = repos[id].root /\ repos'[id].watch = repos[id].watch
           /\ Held(id)' <=> Held(id)
           /\ \/ repos'[id].files = repos[id].files
              \/ /\ id = g[2] /\ Reading(g)
                 /\ repos'[id].files = Filter(proc[g].langs)
<1> TAKE id \in Ids
<1>1. g[2] \in Ids /\ repos[g[2]] \in RepoRecords /\ repos[id] \in RepoRecords
  BY DEF Goroutines, Typed, TypeOK
<1>2. CASE UNCHANGED repos
  BY <1>2 DEF Held
<1>3. CASE repos' # repos
  <2>1. PICK st \in RepoStates \ {"none"} :
           /\ Held(g[2])
           /\ \/ repos' = [repos EXCEPT ![g[2]] = [@ EXCEPT !.state = st]]
              \/ repos' = [repos EXCEPT ![g[2]] =
                            [[@ EXCEPT !.files = Filter(proc[g].langs)] EXCEPT !.state = st]]
    BY <1>3, ReposOfStep
  <2>2. CASE id # g[2]
    <3>1. repos'[id] = repos[id]
      BY <1>1, <2>1, <2>2 DEF Typed, TypeOK
    <3> QED
      BY <3>1 DEF Held
  <2>3. CASE id = g[2]
    <3>1. \/ repos'[id] = [repos[id] EXCEPT !.state = st]
          \/ repos'[id] = [[repos[id] EXCEPT !.files = Filter(proc[g].langs)] EXCEPT !.state = st]
      BY <1>1, <2>1, <2>3 DEF Typed, TypeOK
    <3>2. /\ repos'[id].root = repos[id].root /\ repos'[id].watch = repos[id].watch
          /\ repos'[id].state = st
          /\ repos'[id].files \in {repos[id].files, Filter(proc[g].langs)}
      BY <1>1, <3>1 DEF RepoRecords
    <3>3. Reading(g)
      BY <1>3, <1>1 DEF Step, Tick, Refresh, RefreshInfo, Lock, Diff, Apply, Rebuild, BuildReplace,
                        Save, SaveMeta, SaveLabel, SaveWrite, Reading, Goroutines
    <3> QED
      BY <2>1, <2>3, <3>2, <3>3 DEF Held
  <2> QED
    BY <2>2, <2>3
<1> QED
  BY <1>2, <1>3

\* Of the other goroutines a step changes at most the build it starts, and a
\* watcher ends only when its index is gone.
LEMMA ProcFrame ==
  ASSUME Typed, NEW g \in Goroutines, Step(g)
  PROVE  /\ UNCHANGED <<cmd, nextID, roots, watchLangs, snapshotLangs, indexer, request>>
         /\ proc[g].pc # "off"
         /\ \A h \in Goroutines \ {g} :
              \/ proc'[h] = proc[h]
              \/ /\ h = <<"build", g[2]>> /\ Rebuild(g) /\ g \in Refreshers
                 /\ proc'[h] = [[Idle EXCEPT !.pc = "parse"] EXCEPT !.langs = proc[g].langs]
         /\ g[1] = "watch" => proc'[g].pc # "off" \/ ~Held(g[2])
<1>0. g[2] \in Ids /\ g = <<g[1], g[2]>> /\ proc[g] \in Procs
  BY DEF Goroutines, Typed, TypeOK
<1>1. UNCHANGED <<cmd, nextID, roots, watchLangs, snapshotLangs, indexer, request>>
  BY DEF Step, Tick, Refresh, RefreshInfo, Lock, Diff, Apply, Rebuild, BuildReplace, Save, SaveMeta,
         SaveLabel, SaveWrite, maps
<1>2. proc[g].pc # "off"
  BY <1>0 DEF Step, Tick, Refresh, RefreshInfo, Lock, Diff, Apply, Rebuild, BuildReplace, Save, SaveMeta,
              SaveLabel, SaveWrite
<1>3. ASSUME NEW h \in Goroutines \ {g}
      PROVE  \/ proc'[h] = proc[h]
             \/ /\ h = <<"build", g[2]>> /\ Rebuild(g) /\ g \in Refreshers
                /\ proc'[h] = [[Idle EXCEPT !.pc = "parse"] EXCEPT !.langs = proc[g].langs]
  <2>1. CASE Rebuild(g) /\ g \in Refreshers
    <3>1. CASE Return(g)
      BY <3>1 DEF Return, Typed, TypeOK
    <3>2. CASE proc' = [proc EXCEPT ![g] = [Idle EXCEPT !.pc = After(g)],
                                    ![<<"build", g[2]>>] = BuildStarted(g[2], proc[g].langs)]
      BY <2>1, <3>2 DEF BuildStarted, Typed, TypeOK
    <3> QED
      BY <2>1, <3>1, <3>2 DEF Rebuild
  <2>2. CASE ~(Rebuild(g) /\ g \in Refreshers)
    <3>0. proc \in [Goroutines -> Procs]
      BY DEF Typed, TypeOK
    <3>a. Return(g) => proc'[h] = proc[h]
      BY <3>0 DEF Return
    <3>b. CASE g[1] = "watch" /\ Tick(g[2])
      <4>1. g = <<"watch", g[2]>>
        BY <1>0, <3>b
      <4>2. \/ proc' = [proc EXCEPT ![g].pc = "off"]
            \/ proc' = [proc EXCEPT ![g].pc = "refresh", ![g].langs = watchLangs[g[2]]]
        BY <3>b, <4>1 DEF Tick, Goto
      <4> QED
        BY <3>0, <4>2
    <3>c. CASE RefreshInfo(g)
      BY <3>0, <3>a, <3>c DEF RefreshInfo, Goto
    <3>d. CASE Diff(g)
      BY <3>0, <3>a, <3>d DEF Diff, Goto
    <3>e. CASE Apply(g)
      BY <3>0, <3>a, <3>e DEF Apply, Goto
    <3>f. CASE Lock(g)
      <4>1. Return(g) \/ proc' = [proc EXCEPT ![g].pc = "diff", ![g].mutex = locks'[g[2]]]
        BY <3>f DEF Lock
      <4> QED
        BY <3>0, <3>a, <4>1
    <3>g. CASE g[1] = "build" /\ BuildReplace(g[2])
      <4>1. g = <<"build", g[2]>>
        BY <1>0, <3>g
      <4>2. proc' = [proc EXCEPT ![g].pc = "save"]
        BY <3>g, <4>1 DEF BuildReplace, Goto
      <4> QED
        BY <3>0, <4>2
    <3>h. CASE Save(g)
      BY <3>0, <3>a, <3>h DEF Save, SaveMeta, SaveLabel, SaveWrite
    <3> QED
      BY <2>2, <3>b, <3>c, <3>d, <3>e, <3>f, <3>g, <3>h DEF Step, Refresh
  <2> QED
    BY <2>1, <2>2
<1>4. ASSUME g[1] = "watch"
      PROVE  proc'[g].pc # "off" \/ ~Held(g[2])
  <2>1. After(g) = "tick"
    BY <1>4 DEF After
  <2>2. Return(g) => proc'[g].pc = "tick"
    BY <2>1 DEF Return, Idle, Typed, TypeOK
  <2>3. \A pc : Goto(g, pc) => proc'[g].pc = pc
    BY <1>0 DEF Goto, Typed, TypeOK, Procs
  <2>4. g # <<"build", g[2]>>
    BY <1>4, <1>0
  <2>5. CASE Tick(g[2])
    <3>1. CASE Goto(g, "off")
      <4>1. CASE Gone(g[2])
        BY <4>1 DEF Gone
      <4>2. CASE ~Gone(g[2])
        <5>1. proc' = [proc EXCEPT ![g].pc = "refresh", ![g].langs = watchLangs[g[2]]]
          BY <1>0, <1>4, <2>5, <4>2 DEF Tick
        <5> QED
          BY <1>0, <5>1 DEF Typed, TypeOK, Procs
      <4> QED
        BY <4>1, <4>2
    <3>2. CASE ~Goto(g, "off")
      <4>1. proc' = [proc EXCEPT ![g].pc = "refresh", ![g].langs = watchLangs[g[2]]]
        BY <1>0, <1>4, <2>5, <3>2 DEF Tick
      <4> QED
        BY <1>0, <4>1 DEF Typed, TypeOK, Procs
    <3> QED
      BY <3>1, <3>2
  <2>6. CASE Rebuild(g)
    <3>1. CASE Return(g)
      BY <2>2, <3>1
    <3>2. CASE proc' = [proc EXCEPT ![g] = [Idle EXCEPT !.pc = After(g)],
                                    ![<<"build", g[2]>>] = BuildStarted(g[2], proc[g].langs)]
      BY <2>1, <2>4, <3>2 DEF Idle, Typed, TypeOK
    <3> QED
      BY <2>6, <3>1, <3>2 DEF Rebuild
  <2>7. CASE RefreshInfo(g) \/ Diff(g) \/ Apply(g) \/ SaveWrite(g)
    BY <2>2, <2>3, <2>7 DEF RefreshInfo, Diff, Apply, SaveWrite
  <2>8. CASE Lock(g) \/ SaveMeta(g) \/ SaveLabel(g)
    BY <1>0, <2>2, <2>8 DEF Lock, SaveMeta, SaveLabel, Typed, TypeOK, Procs
  <2> QED
    BY <1>4, <2>5, <2>6, <2>7, <2>8 DEF Step, Refresh, Save
<1> QED
  BY <1>1, <1>2, <1>3, <1>4

\* What a step makes of its own goroutine.
LEMMA OwnStep ==
  ASSUME Typed, NEW g \in Goroutines, Step(g)
  PROVE  \/ ~Reading(g)'
         \/ /\ g[1] = "watch" /\ Held(g[2])
            /\ proc[g].pc = "tick" /\ proc'[g].pc = "refresh"
            /\ proc'[g].langs = watchLangs[g[2]]
         \/ /\ g \in Refreshers /\ Lock(g) /\ ~Taken(locks'[g[2]])
            /\ proc[g].pc = "lock" /\ proc'[g].pc = "diff"
            /\ proc'[g].langs = proc[g].langs /\ proc'[g].mutex = locks'[g[2]]
         \/ /\ Reading(g) /\ proc'[g].langs = proc[g].langs
            /\ proc'[g].mutex = proc[g].mutex
            /\ g \in Refreshers /\ proc'[g].pc \in Locked => proc[g].pc \in Locked
            /\ \/ proc'[g].pc \in {"lock", "apply", "rebuild", "save"}
               \/ /\ Held(g[2]) /\ proc'[g].pc = "label"
                  /\ proc'[g].files = repos[g[2]].files
               \/ /\ proc[g].pc = "label" /\ proc'[g].pc = "write"
                  /\ proc'[g].files = proc[g].files
                  /\ proc'[g].label = snapshotLangs[g[2]]
<1>0. /\ g[2] \in Ids /\ g = <<g[1], g[2]>> /\ proc[g] \in Procs
      /\ proc \in [Goroutines -> Procs]
      /\ g \in Refreshers => g # <<"build", g[2]>>
  BY DEF Goroutines, Refreshers, Typed, TypeOK
<1>1. CASE Return(g)
  BY <1>0, <1>1 DEF Return, After, Idle, Reading
<1>2. ASSUME NEW pc, Goto(g, pc)
      PROVE  /\ proc'[g].pc = pc
             /\ proc'[g].langs = proc[g].langs /\ proc'[g].mutex = proc[g].mutex
  <2>1. proc'[g] = [proc[g] EXCEPT !.pc = pc]
    BY <1>0, <1>2 DEF Goto
  <2> QED
    BY <1>0, <2>1 DEF Procs
<1>4. CASE g[1] = "watch" /\ Tick(g[2])
  <2>1. CASE Gone(g[2])
    <3>1. Goto(g, "off")
      BY <1>0, <1>4, <2>1 DEF Tick
    <3> QED
      BY <1>2, <3>1 DEF Reading
  <2>2. CASE ~Gone(g[2])
    <3>1. proc' = [proc EXCEPT ![g].pc = "refresh", ![g].langs = watchLangs[g[2]]]
      BY <1>0, <1>4, <2>2 DEF Tick
    <3>2. proc'[g] = [[proc[g] EXCEPT !.pc = "refresh"] EXCEPT !.langs = watchLangs[g[2]]]
      BY <1>0, <3>1
    <3>3. proc'[g].pc = "refresh" /\ proc'[g].langs = watchLangs[g[2]]
      BY <1>0, <3>2 DEF Procs
    <3> QED
      BY <1>0, <1>4, <2>2, <3>3 DEF Tick, Gone
  <2> QED
    BY <2>1, <2>2
<1>5. CASE RefreshInfo(g) /\ g \in Refreshers
  <2>1. proc[g].pc = "refresh" /\ (Return(g) \/ Goto(g, "lock"))
    BY <1>5 DEF RefreshInfo
  <2>2. CASE Goto(g, "lock")
    BY <1>2, <1>5, <2>1, <2>2 DEF Reading, Locked
  <2> QED
    BY <1>1, <2>1, <2>2
<1>6. CASE Lock(g) /\ g \in Refreshers
  <2>1. CASE Taken(locks'[g[2]])
    BY <1>1, <1>6, <2>1 DEF Lock
  <2>2. CASE ~Taken(locks'[g[2]])
    <3>1. proc' = [proc EXCEPT ![g].pc = "diff", ![g].mutex = locks'[g[2]]]
      BY <1>6, <2>2 DEF Lock
    <3>2. proc'[g] = [[proc[g] EXCEPT !.pc = "diff"] EXCEPT !.mutex = locks'[g[2]]]
      BY <1>0, <3>1
    <3>3. /\ proc'[g].pc = "diff" /\ proc'[g].mutex = locks'[g[2]]
          /\ proc'[g].langs = proc[g].langs
      BY <1>0, <3>2 DEF Procs
    <3>4. proc[g].pc = "lock"
      BY <1>6 DEF Lock
    <3> QED
      BY <1>6, <2>2, <3>3, <3>4
  <2> QED
    BY <2>1, <2>2
<1>7. CASE Diff(g) /\ g \in Refreshers
  <2>1. proc[g].pc = "diff" /\ (Return(g) \/ Goto(g, "apply") \/ Goto(g, "rebuild"))
    BY <1>7 DEF Diff
  <2>2. CASE Goto(g, "apply") \/ Goto(g, "rebuild")
    BY <1>2, <1>7, <2>1, <2>2 DEF Reading, Locked
  <2> QED
    BY <1>1, <2>1, <2>2
<1>8. CASE Apply(g) /\ g \in Refreshers
  <2>1. proc[g].pc = "apply" /\ (Return(g) \/ Goto(g, "save"))
    BY <1>8 DEF Apply
  <2>2. CASE Goto(g, "save")
    BY <1>2, <1>8, <2>1, <2>2 DEF Reading, Locked
  <2> QED
    BY <1>1, <2>1, <2>2
<1>9. CASE Rebuild(g) /\ g \in Refreshers
  <2>1. CASE ~Return(g)
    <3>1. proc'[g] = [Idle EXCEPT !.pc = After(g)]
      BY <1>0, <1>9, <2>1 DEF Rebuild
    <3> QED
      BY <3>1 DEF Reading, Idle, After
  <2> QED
    BY <1>1, <2>1
<1>10. CASE g[1] = "build" /\ BuildReplace(g[2])
  <2>1. proc[g].pc = "parse" /\ Goto(g, "save") /\ g \notin Refreshers
    BY <1>0, <1>10 DEF BuildReplace, Refreshers
  <2> QED
    BY <1>2, <2>1 DEF Reading
<1>11. CASE SaveMeta(g)
  <2>1. CASE ~Held(g[2])
    BY <1>1, <1>11, <2>1 DEF SaveMeta
  <2>2. CASE Held(g[2])
    <3>1. proc'[g] = [[[proc[g] EXCEPT !.pc = "label"] EXCEPT !.root = repos[g[2]].root]
                        EXCEPT !.files = repos[g[2]].files]
      BY <1>0, <1>11, <2>2 DEF SaveMeta
    <3>2. /\ proc'[g].pc = "label" /\ proc'[g].files = repos[g[2]].files
          /\ proc'[g].langs = proc[g].langs /\ proc'[g].mutex = proc[g].mutex
      BY <1>0, <3>1 DEF Procs
    <3> QED
      BY <1>11, <2>2, <3>2 DEF SaveMeta, Reading, Locked
  <2> QED
    BY <2>1, <2>2
<1>12. CASE SaveLabel(g)
  <2>1. proc'[g] = [[proc[g] EXCEPT !.pc = "write"] EXCEPT !.label = snapshotLangs[g[2]]]
    BY <1>0, <1>12 DEF SaveLabel
  <2>2. /\ proc'[g].pc = "write" /\ proc'[g].label = snapshotLangs[g[2]]
        /\ proc'[g].files = proc[g].files
        /\ proc'[g].langs = proc[g].langs /\ proc'[g].mutex = proc[g].mutex
    BY <1>0, <2>1 DEF Procs
  <2> QED
    BY <1>12, <2>2 DEF SaveLabel, Reading, Locked
<1>13. CASE SaveWrite(g)
  BY <1>1, <1>13 DEF SaveWrite
<1> QED
  BY <1>4, <1>5, <1>6, <1>7, <1>8, <1>9, <1>10, <1>11, <1>12, <1>13 DEF Step, Refresh, Save

-----------------------------------------------------------------------------
(* Placing is inductive.                                                   *)

LEMMA InitPlacing ==
  ASSUME Init
  PROVE  Placing
<1>1. Typed
  BY InitTyped
<1>2. /\ indexer.pc = "idle" /\ \A g \in Goroutines : proc[g].pc = "off"
      /\ \A id \in Ids : ~Held(id) /\ ~repos[id].watch
      /\ \A r \in Roots : roots[r] = NoId
  BY DEF Init, NoCall, Idle, NoRepo, Held
<1> QED
  BY <1>1, <1>2 DEF Placing, Unborn, Placed, HeldAreRegistered, RegisteredAreHeld, Watched, Dropping,
                    Unregistered, Installing

LEMMA PlacingOfStep ==
  ASSUME Placing, NEW g \in Goroutines, Step(g)
  PROVE  Placing'
<1> USE DEF Placing
<1>1. Typed'
  BY ProcTyped
<1>2. UNCHANGED <<nextID, roots, indexer>>
  BY ProcFrame
<1>3. \A id \in Ids : /\ repos'[id].root = repos[id].root /\ repos'[id].watch = repos[id].watch
                      /\ Held(id)' <=> Held(id)
  BY ReposFrame
<1>4. Unborn'
  <2>1. ASSUME NEW h \in Goroutines, proc'[h].pc # "off"
        PROVE  h[2] <= nextID
    <3>1. proc[h].pc # "off" \/ h = g \/ h = <<"build", g[2]>>
      BY <2>1, ProcFrame
    <3>2. proc[g].pc # "off"
      BY ProcFrame
    <3> QED
      BY <3>1, <3>2 DEF Unborn
  <2> QED
    BY <1>2, <1>3, <2>1 DEF Unborn
<1>5. Placed'
  <2>1. indexer.pc \in Dropping => indexer.id \in Ids /\ ~Held(indexer.id)'
    BY <1>2, <1>3 DEF Placed
  <2>2. indexer.pc \in Installing => Held(indexer.id)' /\ repos'[indexer.id].root = indexer.root
    BY <1>2, <1>3 DEF Placed, Installing, Typed, AtHand
  <2> QED
    BY <1>2, <2>1, <2>2 DEF Placed, Dropping, Unregistered
<1>6. HeldAreRegistered' /\ RegisteredAreHeld'
  <2>1. \A r \in Roots : roots[r] # NoId => roots[r] \in Ids
    BY DEF Typed, TypeOK, MaybeIds
  <2> QED
    BY <1>2, <1>3, <2>1 DEF HeldAreRegistered, RegisteredAreHeld
<1>7. Watched'
  <2> SUFFICES ASSUME NEW id \in Ids, repos'[id].watch
               PROVE  /\ Held(id)'
                      /\ \/ proc'[<<"watch", id>>].pc # "off"
                         \/ indexer.pc = "start watch" /\ indexer.id = id
    BY <1>2 DEF Watched
  <2>1. Held(id) /\ Held(id)'
    BY <1>3 DEF Watched
  <2>2. proc[<<"watch", id>>].pc # "off" => proc'[<<"watch", id>>].pc # "off"
    <3> DEFINE w == <<"watch", id>>
    <3>1. w \in Goroutines /\ w[1] = "watch" /\ w[2] = id
      BY DEF Goroutines
    <3>2. CASE w = g
      BY <2>1, <3>1, <3>2, ProcFrame
    <3>3. CASE w # g
      BY <3>1, <3>3, ProcFrame
    <3> QED
      BY <3>2, <3>3
  <2> QED
    BY <1>3, <2>1, <2>2 DEF Watched
<1> QED
  BY <1>1, <1>4, <1>5, <1>6, <1>7

LEMMA PlacingOfIndex ==
  ASSUME Placing, IndexStep
  PROVE  Placing'
<1> USE DEF Placing
<1> USE Constants
<1>0. Typed'
  BY IndexTyped
<1>a. \A r \in Roots : roots[r] # NoId => roots[r] \in Ids
  BY DEF Typed, TypeOK, MaybeIds
<1>1. CASE IndexCall
  <2> DEFINE r == cmd.repo[nextID + 1][1]
  <2>1. r \in Roots
    BY <1>1, CommandIsTyped DEF IndexCall, Typed, TypeOK
  <2>2. /\ indexer'.pc = (IF roots[r] = NoId THEN "create" ELSE "drop")
        /\ indexer'.root = r /\ indexer'.id = roots[r]
    BY <1>1 DEF IndexCall, NoCall, Replaced
  <2>3. UNCHANGED <<nextID, repos, roots, proc>> /\ indexer.pc = "idle"
    BY <1>1 DEF IndexCall, maps
  <2>4. Placed'
    BY <1>a, <2>1, <2>2, <2>3 DEF Placed, Dropping, Unregistered, Installing
  <2> QED
    BY <1>0, <2>3, <2>4 DEF Unborn, HeldAreRegistered, RegisteredAreHeld, Watched, Held
<1>2. CASE Serve
  <2>1. UNCHANGED <<nextID, repos, roots, proc>> /\ indexer.pc = "idle" /\ indexer'.pc = "serving"
    BY <1>2 DEF Serve, IndexGoto, maps, Typed, TypeOK, IndexCalls
  <2> QED
    BY <1>0, <2>1 DEF Unborn, Placed, HeldAreRegistered, RegisteredAreHeld, Watched, Held, Dropping,
                      Unregistered, Installing
<1>3. CASE DropStore
  <2>1. UNCHANGED <<nextID, roots, proc>> /\ indexer.pc = "drop" /\ indexer'.pc = "unregister"
        /\ indexer'.id = indexer.id /\ indexer'.root = indexer.root
    BY <1>3 DEF DropStore, IndexGoto, maps, Typed, TypeOK, IndexCalls
  <2>2. indexer.id \in Ids /\ indexer.id = roots[indexer.root]
    BY <2>1 DEF Placed
  <2>3. ~Held(indexer.id)' /\ ~repos'[indexer.id].watch
    BY <1>3, <2>1, <2>2 DEF DropStore, Typed, TypeOK, Held, NoRepo
  <2>4. \A id \in Ids : id # indexer.id => repos'[id] = repos[id] /\ (Held(id)' <=> Held(id))
    BY <1>3, <2>2 DEF DropStore, Typed, TypeOK, Held
  <2>5. Unborn' /\ Placed'
    BY <2>1, <2>2, <2>3, <2>4 DEF Unborn, Placed, Dropping, Unregistered, Installing, Held
  <2>6. HeldAreRegistered' /\ Watched'
    BY <2>1, <2>3, <2>4 DEF HeldAreRegistered, Watched
  <2>7. RegisteredAreHeld'
    BY <1>a, <2>1, <2>4 DEF RegisteredAreHeld
  <2> QED
    BY <1>0, <2>5, <2>6, <2>7
<1>4. CASE DropRoot
  <2>1. UNCHANGED <<nextID, repos, proc>> /\ indexer.pc = "unregister"
        /\ indexer'.pc = "forget watch" /\ indexer'.id = indexer.id /\ indexer'.root = indexer.root
    BY <1>4 DEF DropRoot, IndexGoto, maps, Typed, TypeOK, IndexCalls
  <2>2. indexer.id \in Ids /\ indexer.id = roots[indexer.root] /\ ~Held(indexer.id)
        /\ indexer.root \in Roots
    BY <2>1 DEF Placed, Dropping, Typed, Creating
  <2>3. \A r \in Roots : roots'[r] = IF roots[r] = indexer.id THEN NoId ELSE roots[r]
    BY <1>4 DEF DropRoot
  <2>4. \A id \in Ids : Held(id)' <=> Held(id)
    BY <2>1 DEF Held
  <2>5. Unborn' /\ Watched'
    BY <2>1, <2>4 DEF Unborn, Watched
  <2>6. Placed'
    BY <2>1, <2>2, <2>3, <2>4 DEF Placed, Dropping, Unregistered, Installing
  <2>7. HeldAreRegistered'
    BY <2>1, <2>2, <2>3, <2>4 DEF HeldAreRegistered
  <2>8. RegisteredAreHeld'
    BY <1>a, <2>1, <2>2, <2>3, <2>4 DEF RegisteredAreHeld
  <2> QED
    BY <1>0, <2>5, <2>6, <2>7, <2>8
<1>5. CASE DropWatchLangs \/ DropSnapshotLangs \/ DropLock
  <2>1. /\ UNCHANGED <<nextID, repos, roots, proc>>
        /\ indexer'.id = indexer.id /\ indexer'.root = indexer.root
        /\ indexer.pc \in {"forget watch", "forget languages", "forget lock"}
        /\ indexer'.pc \in {"forget languages", "forget lock", "create"}
    BY <1>5 DEF DropWatchLangs, DropSnapshotLangs, DropLock, IndexGoto, maps, Typed, TypeOK, IndexCalls
  <2>2. ~Held(indexer.id)' /\ indexer.id \in Ids
    BY <2>1 DEF Held, Placed, Dropping
  <2>3. Placed'
    BY <2>1, <2>2 DEF Placed, Dropping, Unregistered, Installing
  <2> QED
    BY <1>0, <2>1, <2>3 DEF Unborn, HeldAreRegistered, RegisteredAreHeld, Watched, Held
<1>6. CASE Create
  <2>1. /\ UNCHANGED <<roots, proc>> /\ nextID' = nextID + 1 /\ nextID \in Nat /\ nextID' \in Ids
        /\ indexer.pc = "create" /\ indexer.root \in Roots
        /\ indexer'.pc = "register" /\ indexer'.id = nextID' /\ indexer'.root = indexer.root
    BY <1>0, <1>6 DEF Create, maps, Typed, TypeOK, IndexCalls, Creating, AtHand
  <2>2. /\ repos'[nextID'].root = indexer.root /\ repos'[nextID'].watch = FALSE
        /\ Held(nextID)'
    BY <1>6, <2>1 DEF Create, Typed, TypeOK, NoRepo, Held, NoId, Ids
  <2>3. \A id \in Ids : id # nextID' => repos'[id] = repos[id] /\ (Held(id)' <=> Held(id))
    BY <1>6, <2>1 DEF Create, Typed, TypeOK, Held
  <2>4. ~Held(nextID')
    BY <2>1 DEF Unborn
  <2>5. Unborn'
    <3>1. \A id \in Ids : Held(id)' => id = nextID' \/ id <= nextID
      BY <2>3 DEF Unborn
    <3>2. \A id \in Ids : id \in Nat
      OBVIOUS
    <3>3. \A g \in Goroutines : g[2] \in Ids
      BY DEF Goroutines
    <3>4. \A g \in Goroutines : proc'[g].pc # "off" => g[2] <= nextID
      BY <2>1 DEF Unborn
    <3>5. \A n \in Nat : n <= nextID \/ n = nextID' => n <= nextID'
      BY <2>1
    <3> QED
      BY <3>1, <3>2, <3>3, <3>4, <3>5 DEF Unborn
  <2>6. Placed'
    <3>1. Held(indexer.id)' /\ repos'[indexer'.id].root = indexer'.root
      BY <2>1, <2>2 DEF Held
    <3>2. roots'[indexer'.root] = NoId
      BY <2>1 DEF Placed, Unregistered
    <3> QED
      BY <2>1, <3>1, <3>2 DEF Placed, Dropping, Unregistered, Installing
  <2>7. HeldAreRegistered'
    BY <2>1, <2>2, <2>3 DEF HeldAreRegistered
  <2>8. RegisteredAreHeld'
    BY <1>a, <2>1, <2>3, <2>4 DEF RegisteredAreHeld
  <2>9. Watched'
    BY <2>1, <2>2, <2>3 DEF Watched
  <2> QED
    BY <1>0, <2>5, <2>6, <2>7, <2>8, <2>9
<1>7. CASE Register
  <2>1. /\ UNCHANGED <<nextID, repos, proc>> /\ indexer.pc = "register"
        /\ indexer'.pc = "languages" /\ indexer'.id = indexer.id /\ indexer'.root = indexer.root
        /\ indexer.root \in Roots /\ indexer.id \in Ids
    BY <1>7 DEF Register, IndexGoto, maps, Typed, TypeOK, IndexCalls, AtHand
  <2>2. Held(indexer.id) /\ repos[indexer.id].root = indexer.root /\ roots[indexer.root] = NoId
    BY <2>1 DEF Placed, Unregistered, Installing
  <2>3. roots' = [roots EXCEPT ![indexer.root] = indexer.id] /\ roots \in [Roots -> MaybeIds]
    BY <1>7 DEF Register, Typed, TypeOK
  <2>4. \A id \in Nat : Held(id)' <=> Held(id)
    BY <2>1 DEF Held
  <2>5. Unborn' /\ Watched'
    BY <2>1 DEF Unborn, Watched, Held
  <2>6. Placed'
    <3>1. Held(indexer.id)'
      BY <2>1, <2>2 DEF Held
    <3> QED
      BY <2>1, <2>2, <3>1 DEF Placed, Dropping, Unregistered, Installing
  <2>7. HeldAreRegistered'
    <3> SUFFICES ASSUME NEW id \in Ids, Held(id)
                 PROVE  repos[id].root \in Roots /\ roots'[repos[id].root] = id
      BY <2>1, <2>4 DEF HeldAreRegistered
    <3>1. CASE id = indexer.id
      BY <2>1, <2>2, <2>3, <3>1
    <3>2. CASE id # indexer.id
      <4>1. repos[id].root \in Roots /\ roots[repos[id].root] = id /\ id # NoId
        BY <3>2 DEF HeldAreRegistered, Held
      <4> QED
        BY <2>2, <2>3, <4>1
    <3> QED
      BY <3>1, <3>2
  <2>8. RegisteredAreHeld'
    <3> SUFFICES ASSUME NEW r \in Roots, roots'[r] # NoId
                 PROVE  Held(roots'[r]) /\ repos[roots'[r]].root = r
      BY <2>1 DEF RegisteredAreHeld, Held
    <3>1. CASE r = indexer.root
      BY <2>1, <2>2, <2>3, <3>1
    <3>2. CASE r # indexer.root
      BY <2>1, <2>3, <3>2 DEF RegisteredAreHeld
    <3> QED
      BY <3>1, <3>2
  <2> QED
    BY <1>0, <2>5, <2>6, <2>7, <2>8
<1>8. CASE LoadSnapshot
  <2>1. /\ UNCHANGED <<nextID, repos, roots, proc>> /\ indexer.pc = "languages"
        /\ indexer'.pc \in {"restore", "build"}
        /\ indexer'.id = indexer.id /\ indexer'.root = indexer.root
    BY <1>8 DEF LoadSnapshot, maps, Typed, TypeOK, IndexCalls
  <2>2. Placed'
    BY <2>1 DEF Placed, Dropping, Unregistered, Installing, Held
  <2> QED
    BY <1>0, <2>1, <2>2 DEF Unborn, HeldAreRegistered, RegisteredAreHeld, Watched, Held
<1>9. CASE Restore \/ SetWatch
  <2>1. /\ UNCHANGED <<nextID, roots, proc>> /\ indexer.pc \in {"restore", "set watch"}
        /\ \/ indexer'.pc = "start watch"
           \/ indexer'.pc \in {"set watch", "refresh"} /\ Restore
        /\ indexer'.id = indexer.id /\ indexer'.root = indexer.root /\ indexer.id \in Ids
    BY <1>9 DEF Restore, SetWatch, IndexGoto, maps, Typed, TypeOK, IndexCalls, AtHand
  <2>2. \A id \in Ids : id # indexer.id => repos'[id] = repos[id]
    BY <1>9, <2>1 DEF Restore, SetWatch, Typed, TypeOK
  <2>3. Held(indexer.id) /\ repos[indexer.id].root = indexer.root
    BY <2>1 DEF Placed, Installing
  <2>4. /\ repos'[indexer.id].root = indexer.root
        /\ Held(indexer.id)'
        /\ repos'[indexer.id].watch => repos[indexer.id].watch \/ indexer'.pc = "start watch"
    <3>1. CASE SetWatch
      BY <2>1, <2>3, <3>1 DEF SetWatch, IndexGoto, Typed, TypeOK, RepoRecords, IndexCalls, Held
    <3>2. CASE Restore
      <4>1. PICK state \in Verdicts :
              repos' = [repos EXCEPT ![indexer.id].files = indexer.files, ![indexer.id].state = state]
        BY <3>2 DEF Restore
      <4>2. state # "none"
        BY RepositoriesAssumption
      <4>3. repos'[indexer.id].state = state /\ repos'[indexer.id].root = repos[indexer.id].root
            /\ repos'[indexer.id].watch = repos[indexer.id].watch
        BY <2>1, <4>1 DEF Typed, TypeOK, RepoRecords
      <4> QED
        BY <2>1, <2>3, <3>2, <4>2, <4>3 DEF Held
    <3> QED
      BY <1>9, <3>1, <3>2
  <2>5. \A id \in Ids : (Held(id)' <=> Held(id)) /\ repos'[id].root = repos[id].root
    BY <2>1, <2>2, <2>3, <2>4 DEF Held
  <2>6. Unborn'
    BY <2>1, <2>5 DEF Unborn
  <2>7. Placed'
    <3>1. Held(indexer.id)'
      BY <2>1, <2>4 DEF Held
    <3> QED
      BY <2>1, <2>4, <3>1 DEF Placed, Dropping, Unregistered, Installing
  <2>8. HeldAreRegistered' /\ RegisteredAreHeld'
    BY <1>a, <2>1, <2>5 DEF HeldAreRegistered, RegisteredAreHeld
  <2>9. Watched'
    <3> SUFFICES ASSUME NEW id \in Ids, repos'[id].watch
                 PROVE  /\ Held(id)'
                        /\ \/ proc[<<"watch", id>>].pc # "off"
                           \/ indexer'.pc = "start watch" /\ indexer'.id = id
      BY <2>1 DEF Watched
    <3>1. CASE repos[id].watch
      BY <2>1, <2>5, <3>1 DEF Watched
    <3>2. CASE ~repos[id].watch
      BY <2>1, <2>2, <2>4, <3>2
    <3> QED
      BY <3>1, <3>2
  <2> QED
    BY <1>0, <2>6, <2>7, <2>8, <2>9
<1>10. CASE StartBuild \/ StartWatch \/ StartRefresh
  <2>1. /\ UNCHANGED <<nextID, repos, roots>>
        /\ indexer.pc \in {"build", "start watch", "refresh"}
        /\ indexer.pc = "start watch" => StartWatch
        /\ indexer.id = nextID /\ indexer.id \in Ids
        /\ \/ indexer'.pc = "idle"
           \/ indexer'.pc \in {"set watch", "refresh"} /\ indexer'.id = indexer.id
              /\ indexer'.root = indexer.root
    <3>1. UNCHANGED <<nextID, repos, roots>> /\ indexer.pc \in {"build", "start watch", "refresh"}
      BY <1>10 DEF StartBuild, StartWatch, StartRefresh, maps
    <3>2. indexer.pc = "start watch" => StartWatch
      BY <1>10 DEF StartBuild, StartRefresh
    <3>3. indexer' = NoCall \/ \E pc \in {"set watch", "refresh"} : indexer' = [indexer EXCEPT !.pc = pc]
      BY <1>10 DEF StartBuild, StartWatch, StartRefresh
    <3>4. \/ indexer'.pc = "idle"
          \/ indexer'.pc \in {"set watch", "refresh"} /\ indexer'.id = indexer.id
             /\ indexer'.root = indexer.root
      <4>1. CASE indexer' = NoCall
        BY <4>1 DEF NoCall
      <4>2. CASE indexer' # NoCall
        BY <3>3, <4>2 DEF Typed, TypeOK, IndexCalls
      <4> QED
        BY <4>1, <4>2
    <3> QED
      BY <3>1, <3>2, <3>4 DEF Typed, AtHand
  <2>2. Placed'
    <3>1. Held(indexer.id) /\ repos[indexer.id].root = indexer.root
      BY <2>1 DEF Placed, Installing
    <3>2. indexer'.pc # "idle" => Held(indexer.id)'
      BY <2>1, <3>1 DEF Held
    <3> QED
      BY <2>1, <3>1, <3>2 DEF Placed, Dropping, Unregistered, Installing
  <2>3. \A g \in Goroutines :
          \/ proc'[g] = proc[g] /\ (StartWatch => g # <<"watch", indexer.id>>)
          \/ /\ proc'[g].pc \in {"parse", "tick", "refresh"} /\ g[2] = indexer.id
             /\ StartWatch => g[1] = "watch"
    <3>1. PICK k \in {"build", "watch", "restore"}, rec \in Procs :
            /\ rec.pc \in {"parse", "tick", "refresh"}
            /\ proc' = [proc EXCEPT ![<<k, indexer.id>>] = rec]
            /\ StartWatch => k = "watch" /\ rec.pc = "tick"
      <4>1. indexer.langs \in Languages
        BY DEF Typed, TypeOK, IndexCalls
      <4>2. {"parse", "tick", "refresh"} \subseteq ProcPcs
        BY DEF ProcPcs
      <4>3. \A pc \in {"parse", "tick", "refresh"} :
              /\ [Idle EXCEPT !.pc = pc].pc = pc
              /\ [[Idle EXCEPT !.pc = pc] EXCEPT !.langs = indexer.langs].pc = pc
        BY DEF Idle
      <4>4. CASE StartBuild
        BY <4>1, <4>2, <4>3, <4>4, IdleIsTyped DEF StartBuild, StartWatch
      <4>5. CASE StartWatch
        BY <4>1, <4>2, <4>3, <4>5, IdleIsTyped DEF StartWatch
      <4>6. CASE StartRefresh
        BY <4>1, <4>2, <4>3, <4>6, IdleIsTyped DEF StartRefresh, StartWatch
      <4> QED
        BY <1>10, <4>4, <4>5, <4>6
    <3>2. proc \in [Goroutines -> Procs]
      BY DEF Typed, TypeOK
    <3>3. <<k, indexer.id>> \in Goroutines
      BY <2>1 DEF Goroutines
    <3> QED
      BY <3>1, <3>2, <3>3
  <2>4. Unborn'
    <3>1. \A g \in Goroutines : proc'[g].pc # "off" => g[2] <= nextID
      <4>1. nextID \in Nat
        BY DEF Typed, TypeOK
      <4>2. nextID <= nextID
        BY <4>1
      <4> SUFFICES ASSUME NEW g \in Goroutines, proc'[g].pc # "off"
                   PROVE  g[2] <= nextID
        OBVIOUS
      <4>3. CASE proc'[g] = proc[g]
        BY <4>3 DEF Unborn
      <4>4. CASE proc'[g] # proc[g]
        <5>1. g[2] = nextID
          BY <2>1, <2>3, <4>4
        <5> QED
          BY <4>2, <5>1
      <4> QED
        BY <4>3, <4>4
    <3> QED
      BY <2>1, <3>1 DEF Unborn, Held
  <2>5. HeldAreRegistered' /\ RegisteredAreHeld'
    BY <2>1 DEF HeldAreRegistered, RegisteredAreHeld, Held
  <2>6. Watched'
    <3>1. \A id \in Ids : <<"watch", id>> \in Goroutines
      BY DEF Goroutines
    <3>2. \A id \in Ids : proc[<<"watch", id>>].pc # "off" => proc'[<<"watch", id>>].pc # "off"
      BY <2>3, <3>1
    <3>3. StartWatch => proc'[<<"watch", indexer.id>>].pc # "off"
      BY <2>1, <2>3, <3>1
    <3>4. \A id \in Ids : repos'[id] = repos[id] /\ (Held(id)' <=> Held(id))
      BY <2>1 DEF Held
    <3>5. \A id \in Ids : repos[id].watch => proc'[<<"watch", id>>].pc # "off"
      BY <2>1, <3>2, <3>3 DEF Watched
    <3> QED
      BY <3>4, <3>5 DEF Watched
  <2> QED
    BY <1>0, <2>2, <2>4, <2>5, <2>6
<1> QED
  BY <1>1, <1>2, <1>3, <1>4, <1>5, <1>6, <1>7, <1>8, <1>9, <1>10 DEF IndexStep, Drop

LEMMA NextPlacing ==
  ASSUME Placing, [Next]_vars
  PROVE  Placing'
<1>1. CASE UNCHANGED <<nextID, repos, roots, indexer, proc>>
  BY <1>1, NextTyped DEF Placing, Unborn, Placed, HeldAreRegistered, RegisteredAreHeld, Watched, Held
<1>2. UNCHANGED vars \/ Request => UNCHANGED <<nextID, repos, roots, indexer, proc>>
  BY RequestFrame DEF vars, maps
<1> QED
  BY <1>1, <1>2, PlacingOfStep, PlacingOfIndex DEF Next

\* Between calls of Index every index held is registered for its root, every
\* registration is of an index held, and an index that says it is watched has a
\* watcher that will tick again.
THEOREM IndexesAreReachable == Spec => []EveryIndexIsReachable
<1>1. Placing => EveryIndexIsReachable
  BY DEF Placing, HeldAreRegistered, RegisteredAreHeld, Watched, EveryIndexIsReachable
<1> QED
  BY <1>1, InitPlacing, NextPlacing, PTL DEF Spec

-----------------------------------------------------------------------------
(* The locks of refreshes.                                                 *)

LEMMA HolderOfStep ==
  ASSUME Placing, OneHolder, NEW g \in Goroutines, Step(g)
  PROVE  OneHolder'
<1> USE DEF Placing
<1>0. /\ Typed /\ Typed' /\ Refreshers \subseteq Goroutines
      /\ proc' \in [Goroutines -> Procs] /\ locks' \in [Ids -> Nat]
      /\ \A h \in Refreshers : h[2] \in Ids
  BY ProcTyped DEF Refreshers, Goroutines, Typed, TypeOK
<1>1. \A h \in Refreshers \ {g} : proc'[h] = proc[h]
  <2>1. \A h \in Refreshers : h # <<"build", g[2]>>
    BY DEF Refreshers
  <2> QED
    BY <1>0, <2>1, ProcFrame
<1>2. \A id \in Ids : Held(id)' <=> Held(id)
  BY ReposFrame
<1>3. CASE ~Lock(g) \/ g \notin Refreshers
  <2>1. UNCHANGED locks
    BY <1>3 DEF Step, Tick, Refresh, RefreshInfo, Diff, Apply, Rebuild, BuildReplace, Save, SaveMeta,
                SaveLabel, SaveWrite, maps
  <2>2. \A h \in Refreshers :
          proc'[h].pc \in Locked => proc[h].pc \in Locked /\ proc'[h].mutex = proc[h].mutex
    <3>1. g \in Refreshers /\ proc'[g].pc \in Locked
            => proc[g].pc \in Locked /\ proc'[g].mutex = proc[g].mutex
      BY <1>3, OwnStep DEF Reading, Locked
    <3> QED
      BY <1>1, <3>1
  <2> QED
    BY <1>0, <1>2, <2>1, <2>2 DEF OneHolder
<1>4. CASE Lock(g) /\ g \in Refreshers
  <2>1. /\ locks'[g[2]] # NoMutex
        /\ \A id \in Ids : locks[id] # NoMutex => locks'[id] = locks[id]
    <3>1. CASE Missing(g[2])
      BY <1>0, <1>4, <3>1 DEF Lock, Missing, Typed, TypeOK, NoMutex
    <3>2. CASE ~Missing(g[2])
      BY <1>0, <1>4, <3>2 DEF Lock, Missing, Typed, TypeOK, NoMutex
    <3> QED
      BY <3>1, <3>2
  <2>2. proc'[g].pc \in Locked => proc'[g].mutex = locks'[g[2]] /\ ~Taken(locks'[g[2]])
    BY <1>4, OwnStep DEF Reading, Locked, Lock
  <2>3. \A h \in Refreshers \ {g} :
          proc'[h].pc \in Locked =>
            /\ proc'[h].mutex = proc[h].mutex /\ proc[h].mutex # NoMutex
            /\ Held(h[2])' => proc'[h].mutex = locks'[h[2]]
            /\ ~Taken(locks'[g[2]]) => proc'[h].mutex # locks'[g[2]]
    BY <1>0, <1>1, <1>2, <2>1 DEF OneHolder, Taken
  <2>4. \A h \in Refreshers \ {g}, k \in Refreshers \ {g} :
          h # k /\ proc'[h].pc \in Locked /\ proc'[k].pc \in Locked => proc'[h].mutex # proc'[k].mutex
    BY <1>1 DEF OneHolder
  <2> QED
    BY <2>1, <2>2, <2>3, <2>4 DEF OneHolder
<1> QED
  BY <1>3, <1>4

LEMMA HolderOfIndex ==
  ASSUME Placing, OneHolder, IndexStep
  PROVE  OneHolder'
<1> USE DEF Placing
<1>0. /\ Refreshers \subseteq Goroutines /\ \A g \in Refreshers : g[2] \in Ids
      /\ proc \in [Goroutines -> Procs] /\ repos \in [Ids -> RepoRecords]
  BY DEF Refreshers, Goroutines, Typed, TypeOK
<1>1. \A g \in Refreshers : proc'[g].pc \in Locked => proc'[g] = proc[g]
  <2>1. \A g \in Refreshers : proc'[g] = proc[g] \/ proc'[g].pc \in {"tick", "refresh"}
    <3>1. CASE UNCHANGED proc
      BY <3>1
    <3>2. CASE StartBuild
      <4>1. \A g \in Refreshers : g # <<"build", indexer.id>>
        BY DEF Refreshers
      <4> QED
        BY <1>0, <3>2, <4>1 DEF StartBuild
    <3>3. CASE StartWatch \/ StartRefresh
      BY <1>0, <3>3 DEF StartWatch, StartRefresh, Refreshers, Idle
    <3> QED
      BY <3>1, <3>2, <3>3 DEF IndexStep, IndexCall, Serve, Drop, DropStore, DropRoot, DropWatchLangs,
                              DropSnapshotLangs, DropLock, Create, Register, LoadSnapshot, Restore,
                              SetWatch
  <2> QED
    BY <2>1 DEF Locked
<1>2. \A g \in Refreshers : proc[g].pc \in Locked /\ Held(g[2])' => Held(g[2]) /\ locks'[g[2]] = locks[g[2]]
  <2> SUFFICES ASSUME NEW g \in Refreshers, proc[g].pc \in Locked, Held(g[2])'
               PROVE  Held(g[2]) /\ locks'[g[2]] = locks[g[2]]
    OBVIOUS
  <2>1. Held(g[2])
    <3>1. CASE UNCHANGED repos
      BY <3>1 DEF Held
    <3>2. CASE Create
      <4>1. g[2] <= nextID /\ nextID \in Nat
        BY <1>0 DEF Unborn, Locked, Typed, TypeOK
      <4>2. g[2] # nextID' /\ g[2] \in Ids
        BY <1>0, <3>2, <4>1, Constants DEF Create
      <4> QED
        BY <1>0, <3>2, <4>2 DEF Create, Held
    <3>3. CASE DropStore
      BY <1>0, <3>3 DEF DropStore, Held, NoRepo
    <3>4. CASE Restore \/ SetWatch
      <4>1. Held(indexer.id) /\ indexer.id \in Ids
        BY <3>4 DEF Restore, SetWatch, Placed, Installing, Typed, AtHand
      <4> QED
        BY <1>0, <3>4, <4>1 DEF Restore, SetWatch, Held
    <3> QED
      BY <3>1, <3>2, <3>3, <3>4
         DEF IndexStep, IndexCall, Serve, Drop, DropRoot, DropWatchLangs, DropSnapshotLangs, DropLock,
             Register, LoadSnapshot, StartBuild, StartWatch, StartRefresh
  <2>2. locks'[g[2]] = locks[g[2]]
    <3>1. CASE UNCHANGED locks
      BY <3>1
    <3>2. CASE DropLock
      <4>1. g[2] # indexer.id
        BY <2>1, <3>2 DEF DropLock, Placed, Dropping
      <4> QED
        BY <1>0, <3>2, <4>1 DEF DropLock, Typed, TypeOK
    <3> QED
      BY <3>1, <3>2
         DEF IndexStep, IndexCall, Serve, Drop, DropStore, DropRoot, DropWatchLangs, DropSnapshotLangs,
             Create, Register, LoadSnapshot, Restore, SetWatch, StartBuild, StartWatch, StartRefresh, maps
  <2> QED
    BY <2>1, <2>2
<1> QED
  BY <1>1, <1>2 DEF OneHolder

LEMMA NextHolder ==
  ASSUME Placing, OneHolder, [Next]_vars
  PROVE  OneHolder'
<1>1. CASE UNCHANGED <<repos, locks, proc>>
  BY <1>1 DEF OneHolder, Held
<1>2. UNCHANGED vars \/ Request => UNCHANGED <<repos, locks, proc>>
  BY RequestFrame DEF vars, maps
<1> QED
  BY <1>1, <1>2, HolderOfStep, HolderOfIndex DEF Next

\* Of the watcher and the refresh of a restore at most one is between the
\* TryLock and the unlock of refresh for an index the store holds, although
\* drop deletes the mutex under them.
THEOREM OneRefresh == Spec => []OneRefreshPerIndex
<1>1. Init => OneHolder
  BY DEF Init, OneHolder, Idle, Locked, Refreshers, Goroutines
<1>2. OneHolder => OneRefreshPerIndex
  BY DEF OneHolder, OneRefreshPerIndex
<1> QED
  BY <1>1, <1>2, InitPlacing, NextPlacing, NextHolder, PTL DEF Spec

-----------------------------------------------------------------------------
(* The answers of an index.                                                *)

\* One more root visited, in whatever order.
LEMMA SearchingOfVisit ==
  ASSUME Typed, Searching, NEW r \in Roots, Visit(r)
  PROVE  Searching'
<1> USE DEF Typed
<1>1. /\ LookingUp /\ r \in request.left /\ roots[r] # NoId
      /\ UNCHANGED <<roots, indexer>>
      /\ \A q \in Roots : Len(q) \in Nat \ {0}
      /\ request.best \in MaybeRoots /\ Len(<<>>) = 0
  BY RepositoriesAssumption DEF Visit, maps, Searching, TypeOK
<1>2. Len(request.best) \in Nat
  BY <1>1 DEF MaybeRoots
<1>3. CASE Better(r)
  <2>1. /\ request'.pc = request.pc /\ request'.path = request.path
        /\ request'.answer = request.answer /\ request'.left = request.left \ {r}
        /\ request'.best = r /\ request'.id = roots[r]
    BY <1>3 DEF Visit, TypeOK
  <2>2. Covers(r, request.path) /\ Len(r) > Len(request.best)
    BY <1>3 DEF Better
  <2>3. \A q \in Roots :
          roots[q] # NoId /\ Covers(q, request.path) => q \in request'.left \/ Len(q) <= Len(r)
    <3> SUFFICES ASSUME NEW q \in Roots, roots[q] # NoId, Covers(q, request.path),
                        q \notin request'.left
                 PROVE  Len(q) <= Len(r)
      OBVIOUS
    <3>1. CASE q = r
      BY <1>1, <3>1
    <3>2. CASE q # r
      <4>1. Len(q) <= Len(request.best)
        BY <1>1, <2>1, <3>2 DEF Searching
      <4> QED
        BY <1>1, <1>2, <2>2, <4>1
    <3> QED
      BY <3>1, <3>2
  <2> QED
    BY <1>1, <2>1, <2>2, <2>3 DEF Searching, LookingUp
<1>4. CASE ~Better(r)
  <2>1. /\ request'.pc = request.pc /\ request'.path = request.path
        /\ request'.answer = request.answer /\ request'.left = request.left \ {r}
        /\ request'.best = request.best /\ request'.id = request.id
    BY <1>4 DEF Visit, TypeOK
  <2>2. Covers(r, request.path) => Len(r) <= Len(request.best)
    BY <1>1, <1>2, <1>4 DEF Better
  <2> QED
    BY <1>1, <2>1, <2>2 DEF Searching, LookingUp
<1> QED
  BY <1>3, <1>4

\* What a lookup finds once every root is visited.
LEMMA FoundIsInnermost ==
  ASSUME Placing, Searching, Visited, Found
  PROVE  /\ request.id \in Ids /\ Covers(repos[request.id].root, request.path)
         /\ \A r \in Roots : roots[r] # NoId /\ Covers(r, request.path)
                              => Len(r) <= Len(repos[request.id].root)
<1>1. request.id # NoId /\ request.left = {} /\ indexer.pc = "serving"
  BY DEF Visited, Found, Searching
<1>2. /\ request.best \in Roots /\ roots[request.best] = request.id
      /\ Covers(request.best, request.path)
      /\ \A r \in Roots :
           roots[r] # NoId /\ Covers(r, request.path) => Len(r) <= Len(request.best)
  BY <1>1 DEF Visited, Searching
<1>3. repos[request.id].root = request.best
  BY <1>1, <1>2 DEF Placing, RegisteredAreHeld
<1>4. request.id \in Ids
  BY <1>1 DEF Placing, Typed, TypeOK, MaybeIds
<1> QED
  BY <1>2, <1>3, <1>4

LEMMA NextAnswered ==
  ASSUME Placing, Searching, Answered, AnswersFromInnermost, [Next]_vars
  PROVE  (Searching /\ Answered /\ AnswersFromInnermost)'
<1> USE DEF Placing
<1>1. CASE UNCHANGED <<repos, roots, indexer, request>>
  BY <1>1 DEF Searching, LookingUp, Answered, AnswersFromInnermost
<1>2. CASE IndexStep
  <2>1. request.answer # "indexed" /\ ~LookingUp /\ UNCHANGED request
    BY <1>2 DEF Searching, Answered, IndexStep, IndexCall, Serve, Drop, DropStore, DropRoot,
                DropWatchLangs, DropSnapshotLangs, DropLock, Create, Register, LoadSnapshot, Restore,
                StartBuild, SetWatch, StartWatch, StartRefresh
  <2> QED
    BY <2>1 DEF Searching, LookingUp, Answered, AnswersFromInnermost
<1>3. ASSUME NEW g \in Goroutines, Step(g)
      PROVE  (Searching /\ Answered /\ AnswersFromInnermost)'
  <2>1. UNCHANGED <<roots, indexer, request>>
    BY <1>3, ProcFrame
  <2>2. \A id \in Ids : repos'[id].root = repos[id].root
    BY <1>3, ReposFrame
  <2> QED
    BY <2>1, <2>2 DEF Searching, LookingUp, Answered, AnswersFromInnermost
<1>4. CASE Request
  <2>1. UNCHANGED <<repos, roots, indexer>>
    BY <1>4, RequestFrame DEF maps
  <2>2. ASSUME NEW pc \in {"first", "second"}, NEW tool, NEW path, Lookup(pc, tool, path),
               indexer.pc = "serving"
        PROVE  (Searching /\ Answered /\ AnswersFromInnermost)'
    <3>1. /\ request'.answer = "none" /\ request'.id = NoId /\ request'.best = <<>>
          /\ request'.left = {r \in Roots : roots[r] # NoId}
      BY <2>2 DEF Lookup, NoRequest
    <3> QED
      BY <2>1, <2>2, <3>1 DEF Searching, Answered, AnswersFromInnermost
  <2>3. ASSUME NEW path, NEW id, NEW answer, answer # "indexed", Answer(path, id, answer)
        PROVE  (Searching /\ Answered /\ AnswersFromInnermost)'
    <3>1. request'.answer # "indexed" /\ request'.pc = "done"
      BY <2>3 DEF Answer, NoRequest
    <3> QED
      BY <3>1 DEF Searching, LookingUp, Answered, AnswersFromInnermost
  <2>4. ASSUME LookingUp, Visited, Found, Answer(request.path, request.id, "indexed")
        PROVE  (Searching /\ Answered /\ AnswersFromInnermost)'
    <3>1. /\ request'.id = request.id /\ request'.path = request.path
          /\ request'.answer = "indexed" /\ request'.pc = "done"
      BY <2>4 DEF Answer, NoRequest
    <3>2. /\ request.id \in Ids /\ Covers(repos[request.id].root, request.path)
          /\ \A r \in Roots : roots[r] # NoId /\ Covers(r, request.path)
                               => Len(r) <= Len(repos[request.id].root)
      BY <2>4, FoundIsInnermost
    <3>3. indexer.pc = "serving"
      BY <2>4 DEF Searching
    <3> QED
      BY <2>1, <3>1, <3>2, <3>3 DEF Searching, LookingUp, Answered, AnswersFromInnermost
  <2>5. ASSUME NEW tool \in Tools, NEW path \in cmd.ask, Ask(tool, path)
        PROVE  (Searching /\ Answered /\ AnswersFromInnermost)'
    BY <2>2, <2>5 DEF Ask
  <2>6. ASSUME NEW r \in Roots, Visit(r)
        PROVE  (Searching /\ Answered /\ AnswersFromInnermost)'
    <3>1. Searching'
      BY <2>6, SearchingOfVisit
    <3>2. request'.answer = "none"
      BY <2>6 DEF Visit, Searching, Typed, TypeOK
    <3> QED
      BY <3>1, <3>2 DEF Answered, AnswersFromInnermost
  <2>7. CASE FirstLookup
    <3>1. LookingUp /\ Visited /\ indexer.pc = "serving"
      BY <2>7 DEF FirstLookup, Visited, Searching
    <3>2. Otherwise(request.tool) # "indexed"
      BY DEF Otherwise
    <3> QED
      BY <2>2, <2>3, <2>4, <2>7, <3>1, <3>2 DEF FirstLookup
  <2>8. CASE SecondLookup
    BY <2>3, <2>4, <2>8 DEF SecondLookup, Visited
  <2> QED
    BY <1>4, <2>5, <2>6, <2>7, <2>8 DEF Request
<1> QED
  BY <1>1, <1>2, <1>3, <1>4 DEF Next, vars, maps

\* An answer from an index is from the innermost root around the path, in
\* whatever order ResolveIndex visits the registered roots.
THEOREM InnermostAnswers == Spec => []AnswersFromInnermost
<1>1. Init => Searching /\ Answered /\ AnswersFromInnermost
  BY DEF Init, NoRequest, Searching, LookingUp, Answered, AnswersFromInnermost
<1> QED
  BY <1>1, InitPlacing, NextPlacing, NextAnswered, PTL DEF Spec

-----------------------------------------------------------------------------
(* The languages of indexes and snapshots.                                 *)

\* Nothing lies outside the languages of an index that has been dropped.
LEMMA AllLanguages ==
  /\ Filter({}) = Langs
  /\ \A l \in Languages : Filter(l) \subseteq Langs
BY DEF Filter, Languages

LEMMA LanguagesOfStep ==
  ASSUME Placing, WithinLanguages, NEW g \in Goroutines, Step(g)
  PROVE  WithinLanguages'
<1> USE DEF Placing
<1>0. /\ g[2] \in Ids /\ proc[g] \in Procs /\ proc[g].pc # "off"
      /\ UNCHANGED <<nextID, watchLangs, snapshotLangs, indexer>>
  BY ProcFrame DEF Goroutines, Typed, TypeOK
<1>1. \A h \in Goroutines \ {g} :
        \/ proc'[h] = proc[h]
        \/ /\ h[2] = g[2] /\ Reading(g) /\ proc'[h].pc = "parse" /\ h[1] = "build"
           /\ proc'[h].langs = proc[g].langs
  <2> SUFFICES ASSUME NEW h \in Goroutines \ {g}, proc'[h] # proc[h]
               PROVE  /\ h[2] = g[2] /\ Reading(g) /\ proc'[h].pc = "parse" /\ h[1] = "build"
                      /\ proc'[h].langs = proc[g].langs
    OBVIOUS
  <2>1. /\ h = <<"build", g[2]>> /\ Rebuild(g)
        /\ proc'[h] = [[Idle EXCEPT !.pc = "parse"] EXCEPT !.langs = proc[g].langs]
    BY ProcFrame
  <2> QED
    BY <2>1 DEF Rebuild, Reading, Idle
<1>2. \A id \in Ids : repos'[id].files \subseteq Filter(snapshotLangs[id])
  BY <1>0, ReposFrame DEF WithinLanguages
<1>3. \A r \in Roots : snapshot'[r].files \subseteq Filter(snapshot'[r].label)
  <2>1. CASE SaveWrite(g)
    <3> DEFINE file == [there |-> TRUE, label |-> proc[g].label, files |-> proc[g].files]
    <3>1. snapshot' = [snapshot EXCEPT ![proc[g].root] = file]
      BY <2>1 DEF SaveWrite
    <3>2. file.files \subseteq Filter(file.label)
      BY <2>1 DEF SaveWrite, WithinLanguages
    <3> HIDE DEF file
    <3> QED
      BY <3>1, <3>2 DEF WithinLanguages, Typed, TypeOK
  <2>2. CASE ~SaveWrite(g)
    <3>1. UNCHANGED snapshot
      BY <2>2 DEF Step, Tick, Refresh, RefreshInfo, Lock, Diff, Apply, Rebuild, BuildReplace, Save,
                  SaveMeta, SaveLabel
    <3> QED
      BY <3>1 DEF WithinLanguages
  <2> QED
    BY <2>1, <2>2
<1>4. \A id \in Ids :
        Held(id)' /\ proc'[<<"watch", id>>].pc # "off" => watchLangs[id] = snapshotLangs[id]
  <2> TAKE id \in Ids
  <2> DEFINE w == <<"watch", id>>
  <2>1. w \in Goroutines /\ w[1] # "build"
    BY DEF Goroutines
  <2>2. proc'[w].pc # "off" => proc[w].pc # "off"
    BY <1>0, <1>1, <2>1
  <2>3. Held(id)' <=> Held(id)
    BY ReposFrame
  <2> QED
    BY <2>2, <2>3 DEF WithinLanguages
<1>5. /\ Reading(g)' => Filter(proc'[g].langs) \subseteq Filter(snapshotLangs[g[2]])
      /\ proc'[g].pc = "label" => proc'[g].files \subseteq Filter(snapshotLangs[g[2]])
      /\ proc'[g].pc = "write" => proc'[g].files \subseteq Filter(proc'[g].label)
  <2>1. CASE ~Reading(g)'
    BY <2>1 DEF Reading
  <2>2. CASE /\ g[1] = "watch" /\ Held(g[2]) /\ proc'[g].pc = "refresh"
             /\ proc'[g].langs = watchLangs[g[2]]
    <3>1. watchLangs[g[2]] = snapshotLangs[g[2]]
      <4>1. g = <<"watch", g[2]>>
        BY <2>2 DEF Goroutines
      <4> QED
        BY <1>0, <2>2, <4>1 DEF WithinLanguages
    <3> QED
      BY <2>2, <3>1
  <2>3. CASE Reading(g) /\ proc'[g].langs = proc[g].langs
    <3>1. Filter(proc'[g].langs) \subseteq Filter(snapshotLangs[g[2]])
      BY <2>3 DEF WithinLanguages
    <3>2. proc'[g].pc = "label" => proc'[g].files = repos[g[2]].files
      BY OwnStep DEF Reading
    <3>3. proc'[g].pc = "write" =>
            /\ proc[g].pc = "label" /\ proc'[g].files = proc[g].files
            /\ proc'[g].label = snapshotLangs[g[2]]
      BY OwnStep DEF Reading
    <3> QED
      BY <1>0, <3>1, <3>2, <3>3 DEF WithinLanguages
  <2> QED
    BY <2>1, <2>2, <2>3, OwnStep DEF Reading
<1>6. \A h \in Goroutines :
        /\ Reading(h)' => Filter(proc'[h].langs) \subseteq Filter(snapshotLangs[h[2]])
        /\ proc'[h].pc = "label" => proc'[h].files \subseteq Filter(snapshotLangs[h[2]])
        /\ proc'[h].pc = "write" => proc'[h].files \subseteq Filter(proc'[h].label)
  <2> TAKE h \in Goroutines
  <2>1. CASE h = g
    BY <1>5, <2>1
  <2>2. CASE h # g /\ proc'[h] = proc[h]
    BY <2>2 DEF WithinLanguages, Reading
  <2>3. CASE h # g /\ proc'[h] # proc[h]
    <3>1. Filter(proc[g].langs) \subseteq Filter(snapshotLangs[g[2]])
      BY <1>1, <2>3 DEF WithinLanguages
    <3> QED
      BY <1>1, <2>3, <3>1
  <2> QED
    BY <2>1, <2>2, <2>3
<1>7. indexer.pc \in {"register", "languages"} =>
        /\ repos'[indexer.id].files = {}
        /\ \A h \in Goroutines : h[2] = indexer.id => proc'[h].pc = "off"
  <2> HAVE indexer.pc \in {"register", "languages"}
  <2>1. indexer.id \in Ids /\ g[2] # indexer.id
    BY <1>0 DEF WithinLanguages, Typed, AtHand
  <2>2. repos'[indexer.id].files = {}
    BY <2>1, ReposFrame DEF WithinLanguages
  <2>3. ASSUME NEW h \in Goroutines, h[2] = indexer.id
        PROVE  proc'[h].pc = "off"
    BY <1>1, <2>1, <2>3 DEF WithinLanguages
  <2> QED
    BY <2>2, <2>3
<1> QED
  BY <1>0, <1>2, <1>3, <1>4, <1>6, <1>7 DEF WithinLanguages

LEMMA LanguagesOfIndex ==
  ASSUME Placing, WithinLanguages, IndexStep
  PROVE  WithinLanguages'
<1> USE DEF Placing
<1>0. /\ repos \in [Ids -> RepoRecords] /\ proc \in [Goroutines -> Procs]
      /\ snapshotLangs \in [Ids -> Languages] /\ watchLangs \in [Ids -> Languages]
      /\ indexer \in IndexCalls /\ \A g \in Goroutines : g[2] \in Ids
  BY DEF Typed, TypeOK, Goroutines
<1>1. UNCHANGED snapshot
  BY DEF IndexStep, IndexCall, Serve, Drop, DropStore, DropRoot, DropWatchLangs, DropSnapshotLangs,
         DropLock, Create, Register, LoadSnapshot, Restore, StartBuild, SetWatch, StartWatch,
         StartRefresh
<1>2. CASE IndexCall \/ Serve \/ DropRoot \/ DropLock
  <2>1. UNCHANGED <<repos, proc, watchLangs, snapshotLangs>>
    BY <1>2 DEF IndexCall, Serve, DropRoot, DropLock, maps
  <2>2. indexer'.pc \in {"create", "drop", "serving", "forget watch"}
    BY <1>0, <1>2 DEF IndexCall, Serve, DropRoot, DropLock, IndexGoto, IndexCalls, NoCall
  <2> QED
    BY <1>1, <2>1, <2>2 DEF WithinLanguages, Held, Reading, Installing
<1>3. CASE DropStore
  <2>1. UNCHANGED <<proc, watchLangs, snapshotLangs>> /\ indexer'.pc = "unregister"
    BY <1>0, <1>3 DEF DropStore, maps, IndexGoto, IndexCalls
  <2>2. \A id \in Ids : repos'[id] = repos[id] \/ repos'[id] = NoRepo
    BY <1>0, <1>3 DEF DropStore
  <2>3. \A id \in Ids : (Held(id)' => Held(id)) /\ repos'[id].files \subseteq Filter(snapshotLangs[id])
    BY <2>2 DEF Held, NoRepo, WithinLanguages
  <2> QED
    BY <1>1, <2>1, <2>3 DEF WithinLanguages, Reading, Installing
<1>4. CASE DropWatchLangs \/ DropSnapshotLangs
  <2>1. /\ UNCHANGED <<repos, proc>> /\ indexer'.pc \in {"forget languages", "forget lock"}
        /\ indexer.id \in Ids /\ ~Held(indexer.id)
    BY <1>0, <1>4 DEF DropWatchLangs, DropSnapshotLangs, IndexGoto, IndexCalls, Placed, Dropping
  <2>2. \A id \in Ids \ {indexer.id} :
          watchLangs'[id] = watchLangs[id] /\ snapshotLangs'[id] = snapshotLangs[id]
    BY <1>0, <1>4 DEF DropWatchLangs, DropSnapshotLangs
  <2>3. \A id \in Ids : Filter(snapshotLangs[id]) \subseteq Filter(snapshotLangs'[id])
    <3>1. \A id \in Ids : snapshotLangs'[id] = snapshotLangs[id] \/ snapshotLangs'[id] = {}
      BY <1>0, <1>4 DEF DropWatchLangs, DropSnapshotLangs
    <3> QED
      BY <1>0, <3>1, AllLanguages
  <2>4. \A id \in Ids :
          Held(id)' /\ proc'[<<"watch", id>>].pc # "off" => watchLangs'[id] = snapshotLangs'[id]
    BY <2>1, <2>2 DEF WithinLanguages, Held
  <2>5. \A g \in Goroutines :
          /\ Reading(g)' => Filter(proc'[g].langs) \subseteq Filter(snapshotLangs'[g[2]])
          /\ proc'[g].pc = "label" => proc'[g].files \subseteq Filter(snapshotLangs'[g[2]])
          /\ proc'[g].pc = "write" => proc'[g].files \subseteq Filter(proc'[g].label)
    BY <1>0, <2>1, <2>3 DEF WithinLanguages, Reading
  <2>6. \A id \in Ids : repos'[id].files \subseteq Filter(snapshotLangs'[id])
    BY <2>1, <2>3 DEF WithinLanguages
  <2> QED
    BY <1>1, <2>1, <2>4, <2>5, <2>6 DEF WithinLanguages, Installing
<1>5. CASE Create
  <2>1. /\ UNCHANGED <<proc, watchLangs, snapshotLangs>> /\ indexer'.pc = "register"
        /\ indexer'.id = nextID' /\ nextID' = nextID + 1 /\ nextID \in Nat /\ nextID' \in Ids
    BY <1>0, <1>5, IndexTyped DEF Create, maps, IndexCalls, Typed, TypeOK, AtHand
  <2>2. repos'[nextID'].files = {} /\ \A id \in Ids \ {nextID'} : repos'[id] = repos[id]
    BY <1>0, <1>5, <2>1 DEF Create, NoRepo
  <2>3. \A g \in Goroutines : g[2] = nextID' => proc[g].pc = "off"
    <3>1. \A g \in Goroutines : proc[g].pc # "off" => g[2] <= nextID
      BY DEF Unborn
    <3>2. ~(nextID + 1 <= nextID)
      BY <2>1
    <3> QED
      BY <2>1, <3>1, <3>2
  <2>4. \A id \in Ids : repos'[id].files \subseteq Filter(snapshotLangs[id])
    BY <2>2 DEF WithinLanguages
  <2>5. \A id \in Ids :
          Held(id)' /\ proc[<<"watch", id>>].pc # "off" => watchLangs[id] = snapshotLangs[id]
    <3>1. \A id \in Ids : <<"watch", id>> \in Goroutines
      BY DEF Goroutines
    <3>2. \A id \in Ids : proc[<<"watch", id>>].pc # "off" => id # nextID'
      BY <2>3, <3>1
    <3> QED
      BY <2>2, <3>2 DEF WithinLanguages, Held
  <2> QED
    BY <1>1, <2>1, <2>2, <2>3, <2>4, <2>5 DEF WithinLanguages, Reading, Installing
<1>6. CASE Register
  <2>1. /\ UNCHANGED <<repos, proc, watchLangs, snapshotLangs>> /\ indexer.pc = "register"
        /\ indexer'.pc = "languages" /\ indexer'.id = indexer.id
    BY <1>0, <1>6 DEF Register, IndexGoto, IndexCalls
  <2> QED
    BY <1>1, <2>1 DEF WithinLanguages, Held, Reading, Installing
<1>7. CASE LoadSnapshot
  <2>1. /\ UNCHANGED <<repos, proc, watchLangs>> /\ indexer.pc = "languages"
        /\ indexer'.pc \in {"restore", "build"} /\ indexer'.id = indexer.id
        /\ indexer'.langs = indexer.langs /\ indexer.id \in Ids /\ indexer.root \in Roots
        /\ snapshotLangs' = [snapshotLangs EXCEPT ![indexer.id] = indexer.langs]
    BY <1>0, <1>7 DEF LoadSnapshot, IndexCalls, Typed, AtHand
  <2>2. indexer'.pc = "restore" => indexer'.files \subseteq Filter(indexer'.langs)
    <3>1. CASE Valid(snapshot[indexer.root], indexer.langs)
      <4>1. indexer'.files = snapshot[indexer.root].files
        BY <1>0, <1>7, <3>1 DEF LoadSnapshot, IndexCalls
      <4> QED
        BY <2>1, <3>1, <4>1 DEF Valid, WithinLanguages
    <3>2. CASE ~Valid(snapshot[indexer.root], indexer.langs)
      BY <1>0, <1>7, <3>2 DEF LoadSnapshot, IndexCalls
    <3> QED
      BY <3>1, <3>2
  <2>3. /\ repos[indexer.id].files = {}
        /\ \A g \in Goroutines : g[2] = indexer.id => proc[g].pc = "off"
    BY <2>1 DEF WithinLanguages
  <2>4. \A id \in Ids : snapshotLangs'[id] = IF id = indexer.id THEN indexer.langs ELSE snapshotLangs[id]
    BY <1>0, <2>1
  <2>5. \A id \in Ids : repos[id].files \subseteq Filter(snapshotLangs'[id])
    BY <2>3, <2>4 DEF WithinLanguages
  <2>6. \A id \in Ids :
          Held(id)' /\ proc[<<"watch", id>>].pc # "off" => watchLangs[id] = snapshotLangs'[id]
    <3>1. \A id \in Ids : <<"watch", id>> \in Goroutines
      BY DEF Goroutines
    <3>2. \A id \in Ids : proc[<<"watch", id>>].pc # "off" => id # indexer.id
      BY <2>3, <3>1
    <3> QED
      BY <2>1, <2>4, <3>2 DEF WithinLanguages, Held
  <2>7. \A g \in Goroutines :
          /\ Reading(g) => Filter(proc[g].langs) \subseteq Filter(snapshotLangs'[g[2]])
          /\ proc[g].pc = "label" => proc[g].files \subseteq Filter(snapshotLangs'[g[2]])
          /\ proc[g].pc = "write" => proc[g].files \subseteq Filter(proc[g].label)
    BY <1>0, <2>3, <2>4 DEF WithinLanguages, Reading
  <2>8. \A g \in Goroutines : Reading(g)' <=> Reading(g)
    BY <2>1 DEF Reading
  <2> QED
    BY <1>1, <2>1, <2>2, <2>4, <2>5, <2>6, <2>7, <2>8 DEF WithinLanguages, Installing
<1>8. CASE Restore \/ SetWatch
  <2>1. /\ UNCHANGED <<proc, watchLangs, snapshotLangs>>
        /\ indexer.pc \in {"restore", "set watch"}
        /\ indexer'.pc \in {"set watch", "start watch", "refresh"}
        /\ indexer'.id = indexer.id /\ indexer'.langs = indexer.langs /\ indexer.id \in Ids
    BY <1>0, <1>8 DEF Restore, SetWatch, IndexGoto, maps, IndexCalls, Typed, AtHand
  <2>2. snapshotLangs[indexer.id] = indexer.langs /\ Held(indexer.id)
    BY <2>1 DEF WithinLanguages, Installing, Placed
  <2>3. \A id \in Ids : repos'[id].files \subseteq Filter(snapshotLangs[id])
    <3>1. CASE SetWatch
      <4>1. \A id \in Ids : repos'[id].files = repos[id].files
        BY <1>0, <2>1, <3>1 DEF SetWatch, RepoRecords
      <4> QED
        BY <4>1 DEF WithinLanguages
    <3>2. CASE Restore
      <4>1. PICK state \in Verdicts :
              repos' = [repos EXCEPT ![indexer.id].files = indexer.files, ![indexer.id].state = state]
        BY <3>2 DEF Restore
      <4>2. \A id \in Ids : repos'[id].files = IF id = indexer.id THEN indexer.files ELSE repos[id].files
        BY <1>0, <2>1, <4>1 DEF RepoRecords
      <4>3. indexer.files \subseteq Filter(indexer.langs)
        BY <3>2 DEF Restore, WithinLanguages
      <4> QED
        BY <2>2, <4>2, <4>3 DEF WithinLanguages
    <3> QED
      BY <1>8, <3>1, <3>2
  <2>4. \A id \in Ids : Held(id)' => Held(id)
    BY <1>0, <1>8, <2>1, <2>2 DEF Restore, SetWatch, Held
  <2> QED
    BY <1>1, <2>1, <2>2, <2>3, <2>4 DEF WithinLanguages, Reading, Installing
<1>9. CASE StartBuild \/ StartWatch \/ StartRefresh
  <2>1. /\ UNCHANGED <<repos, snapshotLangs>> /\ indexer.id \in Ids
        /\ snapshotLangs[indexer.id] = indexer.langs
    BY <1>9 DEF StartBuild, StartWatch, StartRefresh, maps, Typed, AtHand, WithinLanguages, Installing
  <2>2. \/ indexer'.pc = "idle"
        \/ /\ indexer'.pc \in {"set watch", "refresh"} /\ indexer'.id = indexer.id
           /\ indexer'.langs = indexer.langs
    <3>1. indexer' = NoCall \/ \E pc \in {"set watch", "refresh"} : indexer' = [indexer EXCEPT !.pc = pc]
      BY <1>9 DEF StartBuild, StartWatch, StartRefresh
    <3>2. CASE indexer' = NoCall
      BY <3>2 DEF NoCall
    <3>3. CASE indexer' # NoCall
      BY <1>0, <3>1, <3>3 DEF IndexCalls
    <3> QED
      BY <3>2, <3>3
  <2>3. \A g \in Goroutines :
          \/ proc'[g] = proc[g]
          \/ /\ g[2] = indexer.id /\ proc'[g].pc \in {"parse", "tick", "refresh"}
             /\ proc'[g].pc = "tick" <=> g[1] = "watch"
             /\ g[1] # "watch" => proc'[g].langs = indexer.langs
    <3>1. \A pc : /\ [Idle EXCEPT !.pc = pc].pc = pc
                  /\ [[Idle EXCEPT !.pc = pc] EXCEPT !.langs = indexer.langs].pc = pc
                  /\ [[Idle EXCEPT !.pc = pc] EXCEPT !.langs = indexer.langs].langs = indexer.langs
      BY DEF Idle
    <3>a. PICK k \in {"build", "watch", "restore"} : \E rec :
            /\ proc' = [proc EXCEPT ![<<k, indexer.id>>] = rec]
            /\ rec.pc \in {"parse", "tick", "refresh"}
            /\ rec.pc = "tick" <=> k = "watch"
            /\ k # "watch" => rec.langs = indexer.langs
      <4>1. CASE StartBuild
        <5> DEFINE rec == [[Idle EXCEPT !.pc = "parse"] EXCEPT !.langs = indexer.langs]
        <5>1. proc' = [proc EXCEPT ![<<"build", indexer.id>>] = rec]
          BY <4>1 DEF StartBuild
        <5>2. rec.pc = "parse" /\ rec.langs = indexer.langs
          BY <3>1
        <5> HIDE DEF rec
        <5> QED
          BY <5>1, <5>2
      <4>2. CASE StartWatch
        BY <3>1, <4>2 DEF StartWatch
      <4>3. CASE StartRefresh
        <5> DEFINE rec == [[Idle EXCEPT !.pc = "refresh"] EXCEPT !.langs = indexer.langs]
        <5>1. proc' = [proc EXCEPT ![<<"restore", indexer.id>>] = rec]
          BY <4>3 DEF StartRefresh
        <5>2. rec.pc = "refresh" /\ rec.langs = indexer.langs
          BY <3>1
        <5> HIDE DEF rec
        <5> QED
          BY <5>1, <5>2
      <4> QED
        BY <1>9, <4>1, <4>2, <4>3
    <3>2. PICK rec :
            /\ proc' = [proc EXCEPT ![<<k, indexer.id>>] = rec]
            /\ rec.pc \in {"parse", "tick", "refresh"}
            /\ rec.pc = "tick" <=> k = "watch"
            /\ k # "watch" => rec.langs = indexer.langs
      BY <3>a
    <3>3. <<k, indexer.id>> \in Goroutines
      BY <2>1 DEF Goroutines
    <3> QED
      BY <1>0, <3>2, <3>3
  <2>4. \A id \in Ids :
          Held(id)' /\ proc'[<<"watch", id>>].pc # "off" => watchLangs'[id] = snapshotLangs[id]
    <3>1. \A id \in Ids : <<"watch", id>> \in Goroutines /\ (Held(id)' <=> Held(id))
      BY <2>1 DEF Goroutines, Held
    <3>2. CASE StartWatch
      <4>1. \A id \in Ids : watchLangs'[id] = IF id = indexer.id THEN indexer.langs ELSE watchLangs[id]
        BY <1>0, <2>1, <3>2 DEF StartWatch
      <4> QED
        BY <2>1, <2>3, <3>1, <4>1 DEF WithinLanguages
    <3>3. CASE ~StartWatch
      <4>1. UNCHANGED watchLangs
        BY <1>9, <3>3 DEF StartBuild, StartRefresh, maps
      <4>2. \A id \in Ids : proc'[<<"watch", id>>] = proc[<<"watch", id>>]
        <5>1. \A id \in Ids : <<"watch", id>> # <<"build", indexer.id>> /\ <<"watch", id>> # <<"restore", indexer.id>>
          OBVIOUS
        <5> QED
          BY <1>0, <1>9, <3>1, <3>3, <5>1 DEF StartBuild, StartRefresh
      <4> QED
        BY <3>1, <4>1, <4>2 DEF WithinLanguages
    <3> QED
      BY <3>2, <3>3
  <2>5. \A g \in Goroutines :
          /\ Reading(g)' => Filter(proc'[g].langs) \subseteq Filter(snapshotLangs[g[2]])
          /\ proc'[g].pc = "label" => proc'[g].files \subseteq Filter(snapshotLangs[g[2]])
          /\ proc'[g].pc = "write" => proc'[g].files \subseteq Filter(proc'[g].label)
    <3> TAKE g \in Goroutines
    <3>1. CASE proc'[g] = proc[g]
      BY <3>1 DEF WithinLanguages, Reading
    <3>2. CASE proc'[g] # proc[g]
      BY <2>1, <2>3, <3>2 DEF Reading
    <3> QED
      BY <3>1, <3>2
  <2> QED
    BY <1>1, <2>1, <2>2, <2>4, <2>5 DEF WithinLanguages, Installing
<1> QED
  BY <1>2, <1>3, <1>4, <1>5, <1>6, <1>7, <1>8, <1>9 DEF IndexStep, Drop

LEMMA NextLanguages ==
  ASSUME Placing, WithinLanguages, [Next]_vars
  PROVE  WithinLanguages'
<1>1. CASE UNCHANGED <<repos, watchLangs, snapshotLangs, snapshot, indexer, proc>>
  BY <1>1 DEF WithinLanguages, Held, Reading
<1>2. UNCHANGED vars \/ Request
        => UNCHANGED <<repos, watchLangs, snapshotLangs, snapshot, indexer, proc>>
  BY RequestFrame DEF vars, maps
<1> QED
  BY <1>1, <1>2, LanguagesOfStep, LanguagesOfIndex DEF Next

LEMMA InitLanguages ==
  ASSUME Init
  PROVE  WithinLanguages
<1>1. \A r \in Roots : snapshot[r].files \subseteq Filter(snapshot[r].label)
  <2> TAKE r \in Roots
  <2>1. snapshot[r] \in Earlier(r)
    BY DEF Init
  <2>2. CASE snapshot[r] = NoSnapshot
    BY <2>2 DEF NoSnapshot
  <2>3. CASE snapshot[r] # NoSnapshot
    <3>1. \E i \in DOMAIN cmd.repo : \E f \in {{}, Filter(cmd.repo[i][2])} :
            snapshot[r] = [there |-> TRUE, label |-> cmd.repo[i][2], files |-> f]
      BY <2>1, <2>3 DEF Earlier
    <3> QED
      BY <3>1
  <2> QED
    BY <2>2, <2>3
<1>2. /\ indexer.pc = "idle" /\ \A g \in Goroutines : proc[g].pc = "off"
      /\ \A id \in Ids : ~Held(id) /\ repos[id].files = {}
  BY DEF Init, NoCall, Idle, NoRepo, Held
<1> QED
  BY <1>1, <1>2 DEF WithinLanguages, Reading, Installing

\* Neither an index nor a snapshot has files outside the languages it is for,
\* whoever saved under that root before.
THEOREM LanguagesFit == Spec => []FitsLanguages
<1>1. WithinLanguages => FitsLanguages
  BY DEF WithinLanguages, FitsLanguages
<1> QED
  BY <1>1, InitPlacing, InitLanguages, NextPlacing, NextLanguages, PTL DEF Spec
=============================================================================
