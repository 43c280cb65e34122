---------------------------- MODULE Repositories ----------------------------
(***************************************************************************)
(* The repositories of one server: the Index calls of the boot loop of     *)
(* cmd/ast-mcp/main.go, where a root that comes again drops the index it   *)
(* has, the goroutines that outlive a drop, the snapshot file they share,  *)
(* and then the requests that look an index up by path: Index, startWatch, *)
(* drop, refresh, saveSnapshot, ResolveIndex of internal/service/repo.go,  *)
(* the handlers of internal/tools/tools.go.                                *)
(*                                                                         *)
(* A step is one operation on a sync.Map or one critical section of        *)
(* MemoryStore.mu.  What an index holds of its files is the set of the     *)
(* languages they are in; RepoService follows one index file by file.      *)
(***************************************************************************)
EXTENDS Naturals, Sequences, FiniteSets

CONSTANTS
  Langs,        \* the registered languages; each has files under every root
  Roots,        \* directories that are indexed, as sequences of names (the
                \* root of the file system, which covers no path, left out)
  CommandLines, \* how the server may be started and used: whether it watches,
                \* the <<root, languages>> to index one after the other ({} for
                \* all languages), the paths it is asked about
  Verdicts,     \* the states the memory limit lets Replace and Apply set
  MaxIndexes,   \* bound: calls of Index
  MaxEdits      \* bound: refreshes that find files edited

ASSUME RepositoriesAssumption ==
  /\ \A r \in Roots : Len(r) \in Nat \ {0}
  /\ \A c \in CommandLines :
       /\ c.watch \in BOOLEAN
       /\ c.repo \in Seq(Roots \X SUBSET Langs) /\ Len(c.repo) <= MaxIndexes
  /\ Verdicts \subseteq {"ready", "partial"} /\ Verdicts # {}
  /\ MaxIndexes \in Nat /\ MaxEdits \in Nat

VARIABLES
  cmd,            \* the command line
  nextID,         \* MemoryStore.nextID: identifiers given out
  repos,          \* repos[id]: MemoryStore.repos, or NoRepo
  roots,          \* roots[r]: the identifier registered for r, or NoId
  watchLangs,     \* watchLangs[id], {} when there is none
  snapshotLangs,  \* snapshotLangs[id], {} when there is none
  locks,          \* locks[id]: the mutex in refreshLocks, or NoMutex
  mutexes,        \* mutexes made so far
  snapshot,       \* snapshot[r]: the snapshot file of a root, or NoSnapshot
  indexer,        \* the boot loop and the local state of Index
  proc,           \* proc[g]: the local state of a goroutine
  edits,          \* refreshes that found files edited
  request         \* a request under way

maps == <<roots, watchLangs, snapshotLangs, locks, mutexes>>
vars == <<cmd, nextID, repos, maps, snapshot, indexer, proc, edits, request>>

NoId == 0
NoMutex == 0
Ids == 1..MaxIndexes
NoRepo == [root |-> <<>>, state |-> "none", files |-> {}, watch |-> FALSE]
NoSnapshot == [there |-> FALSE, label |-> {}, files |-> {}]
Goroutines == {"build", "watch", "restore"} \X Ids
Refreshers == {"watch", "restore"} \X Ids

Held(id) == id # NoId /\ repos[id].state # "none"
Filter(languages) == IF languages = {} THEN Langs ELSE languages

Idle == [pc |-> "off", langs |-> {}, mutex |-> NoMutex, root |-> <<>>, label |-> {},
         files |-> {}]
NoCall == [pc |-> "idle", root |-> <<>>, langs |-> {}, id |-> NoId, restored |-> FALSE,
           files |-> {}]
NoRequest == [pc |-> "idle", tool |-> "none", path |-> <<>>, left |-> {}, best |-> <<>>,
              id |-> NoId, answer |-> "none"]

\* An earlier process may have saved any of the indexes asked for now, before
\* or after there were files.
Earlier(r) == {NoSnapshot} \cup
  UNION {{[there |-> TRUE, label |-> cmd.repo[i][2], files |-> f] :
            f \in {{}, Filter(cmd.repo[i][2])}} :
           i \in {j \in DOMAIN cmd.repo : cmd.repo[j][1] = r}}

Init ==
  /\ cmd \in CommandLines
  /\ nextID = 0
  /\ repos = [id \in Ids |-> NoRepo]
  /\ roots = [r \in Roots |-> NoId]
  /\ watchLangs = [id \in Ids |-> {}]
  /\ snapshotLangs = [id \in Ids |-> {}]
  /\ locks = [id \in Ids |-> NoMutex] /\ mutexes = 0
  /\ snapshot \in [Roots -> UNION {Earlier(r) : r \in Roots}]
  /\ \A r \in Roots : snapshot[r] \in Earlier(r)
  /\ indexer = NoCall
  /\ proc = [g \in Goroutines |-> Idle]
  /\ edits = 0
  /\ request = NoRequest

-----------------------------------------------------------------------------
(* Index.  main calls it for one directory after the other and serves      *)
(* requests once it is through.                                            *)

IndexGoto(pc) == indexer' = [indexer EXCEPT !.pc = pc]

\* Mutant: the index a new one replaces is not looked up.
ReplacesNothing(r) == NoId
Replaced(r) == roots[r]

IndexCall ==
  /\ indexer.pc = "idle" /\ nextID < Len(cmd.repo)
  /\ LET r == cmd.repo[nextID + 1][1]
     IN  indexer' = [NoCall EXCEPT !.pc = IF Replaced(r) = NoId THEN "create" ELSE "drop",
                                   !.root = r, !.langs = cmd.repo[nextID + 1][2],
                                   !.id = Replaced(r)]
  /\ UNCHANGED <<cmd, nextID, repos, maps, snapshot, proc, edits, request>>

Serve ==
  /\ indexer.pc = "idle" /\ nextID = Len(cmd.repo) /\ IndexGoto("serving")
  /\ UNCHANGED <<cmd, nextID, repos, maps, snapshot, proc, edits, request>>

\* drop: the store forgets the index first, the maps of the service after it.
DropStore ==
  /\ indexer.pc = "drop"
  /\ repos' = [repos EXCEPT ![indexer.id] = NoRepo]
  /\ IndexGoto("unregister")
  /\ UNCHANGED <<cmd, nextID, maps, snapshot, proc, edits, request>>

DropRoot ==
  /\ indexer.pc = "unregister"
  /\ roots' = [r \in Roots |-> IF roots[r] = indexer.id THEN NoId ELSE roots[r]]
  /\ IndexGoto("forget watch")
  /\ UNCHANGED <<cmd, nextID, repos, watchLangs, snapshotLangs, locks, mutexes,
                 snapshot, proc, edits, request>>

DropWatchLangs ==
  /\ indexer.pc = "forget watch"
  /\ watchLangs' = [watchLangs EXCEPT ![indexer.id] = {}]
  /\ IndexGoto("forget languages")
  /\ UNCHANGED <<cmd, nextID, repos, roots, snapshotLangs, locks, mutexes,
                 snapshot, proc, edits, request>>

DropSnapshotLangs ==
  /\ indexer.pc = "forget languages"
  /\ snapshotLangs' = [snapshotLangs EXCEPT ![indexer.id] = {}]
  /\ IndexGoto("forget lock")
  /\ UNCHANGED <<cmd, nextID, repos, roots, watchLangs, locks, mutexes, snapshot,
                 proc, edits, request>>

DropLock ==
  /\ indexer.pc = "forget lock"
  /\ locks' = [locks EXCEPT ![indexer.id] = NoMutex]
  /\ IndexGoto("create")
  /\ UNCHANGED <<cmd, nextID, repos, roots, watchLangs, snapshotLangs, mutexes,
                 snapshot, proc, edits, request>>

Create ==
  /\ indexer.pc = "create"
  /\ nextID' = nextID + 1
  /\ repos' = [repos EXCEPT ![nextID'] =
                 [NoRepo EXCEPT !.root = indexer.root, !.state = "building"]]
  /\ indexer' = [indexer EXCEPT !.pc = "register", !.id = nextID']
  /\ UNCHANGED <<cmd, maps, snapshot, proc, edits, request>>

Register ==
  /\ indexer.pc = "register"
  /\ roots' = [roots EXCEPT ![indexer.root] = indexer.id]
  /\ IndexGoto("languages")
  /\ UNCHANGED <<cmd, nextID, repos, watchLangs, snapshotLangs, locks, mutexes,
                 snapshot, proc, edits, request>>

\* Mutant: a snapshot of the root is restored whatever its languages.
AnySnapshot(snap, languages) == snap.there
\* SnapshotHeader.Valid: root, tool and schema are those of this server.
Valid(snap, languages) == snap.there /\ snap.label = languages

\* The languages are stored and the snapshot is read and looked at.
LoadSnapshot ==
  LET snap == snapshot[indexer.root]
      usable == Valid(snap, indexer.langs)
  IN  /\ indexer.pc = "languages"
      /\ snapshotLangs' = [snapshotLangs EXCEPT ![indexer.id] = indexer.langs]
      /\ indexer' = [indexer EXCEPT !.pc = IF usable THEN "restore" ELSE "build",
                                    !.restored = usable,
                                    !.files = IF usable THEN snap.files ELSE {}]
      /\ UNCHANGED <<cmd, nextID, repos, roots, watchLangs, locks, mutexes,
                     snapshot, proc, edits, request>>

Restore ==
  /\ indexer.pc = "restore"
  /\ \E state \in Verdicts :
       repos' = [repos EXCEPT ![indexer.id].files = indexer.files,
                              ![indexer.id].state = state]
  /\ IndexGoto(IF cmd.watch THEN "set watch" ELSE "refresh")
  /\ UNCHANGED <<cmd, nextID, maps, snapshot, proc, edits, request>>

StartBuild ==
  /\ indexer.pc = "build"
  /\ proc' = [proc EXCEPT ![<<"build", indexer.id>>] =
                [Idle EXCEPT !.pc = "parse", !.langs = indexer.langs]]
  /\ indexer' = IF cmd.watch THEN [indexer EXCEPT !.pc = "set watch"] ELSE NoCall
  /\ UNCHANGED <<cmd, nextID, repos, maps, snapshot, edits, request>>

SetWatch ==
  /\ indexer.pc = "set watch"
  /\ repos' = [repos EXCEPT ![indexer.id].watch = TRUE]
  /\ IndexGoto("start watch")
  /\ UNCHANGED <<cmd, nextID, maps, snapshot, proc, edits, request>>

\* A restored index is refreshed once, beside its watcher.
StartWatch ==
  /\ indexer.pc = "start watch"
  /\ watchLangs' = [watchLangs EXCEPT ![indexer.id] = indexer.langs]
  /\ proc' = [proc EXCEPT ![<<"watch", indexer.id>>] = [Idle EXCEPT !.pc = "tick"]]
  /\ indexer' = IF indexer.restored THEN [indexer EXCEPT !.pc = "refresh"] ELSE NoCall
  /\ UNCHANGED <<cmd, nextID, repos, roots, snapshotLangs, locks, mutexes, snapshot,
                 edits, request>>

StartRefresh ==
  /\ indexer.pc = "refresh"
  /\ proc' = [proc EXCEPT ![<<"restore", indexer.id>>] =
                [Idle EXCEPT !.pc = "refresh", !.langs = indexer.langs]]
  /\ indexer' = NoCall
  /\ UNCHANGED <<cmd, nextID, repos, maps, snapshot, edits, request>>

Drop == DropStore \/ DropRoot \/ DropWatchLangs \/ DropSnapshotLangs \/ DropLock

IndexStep ==
  \/ IndexCall \/ Serve \/ Drop \/ Create \/ Register \/ LoadSnapshot \/ Restore
  \/ StartBuild \/ SetWatch \/ StartWatch \/ StartRefresh

-----------------------------------------------------------------------------
(* The goroutines: the watcher, the refresh of a restored index, builds.   *)

Goto(g, pc) == proc' = [proc EXCEPT ![g].pc = pc]

\* A watcher waits for its next tick, any other goroutine has ended.
After(g) == IF g[1] = "watch" THEN "tick" ELSE "off"

\* The deferred unlock frees the mutex.
Return(g) == proc' = [proc EXCEPT ![g] = [Idle EXCEPT !.pc = After(g)]]

\* Mutant: the watcher does not ask whether its index is still there.
NeverGone(id) == FALSE
Gone(id) == ~Held(id)

\* The index is looked up, and then the languages.
Tick(id) ==
  LET g == <<"watch", id>>
  IN  /\ proc[g].pc = "tick"
      /\ IF Gone(id) THEN Goto(g, "off")
           ELSE proc' = [proc EXCEPT ![g].pc = "refresh", ![g].langs = watchLangs[id]]
      /\ UNCHANGED <<cmd, nextID, repos, maps, snapshot, indexer, edits, request>>

RefreshInfo(g) ==
  /\ proc[g].pc = "refresh"
  /\ IF repos[g[2]].state \in {"none", "building", "refreshing"}
       THEN Return(g) ELSE Goto(g, "lock")
  /\ UNCHANGED <<cmd, nextID, repos, maps, snapshot, indexer, edits, request>>

Locked == {"diff", "apply", "rebuild", "save", "label", "write"}

\* Mutant: a new mutex takes the place of the stored one.
AlwaysNew(id) == TRUE
Missing(id) == locks[id] = NoMutex

Taken(mutex) == \E h \in Refreshers : proc[h].pc \in Locked /\ proc[h].mutex = mutex

\* refreshLock: LoadOrStore; then TryLock.
Lock(g) ==
  /\ proc[g].pc = "lock"
  /\ IF Missing(g[2])
       THEN mutexes' = mutexes + 1 /\ locks' = [locks EXCEPT ![g[2]] = mutexes']
       ELSE UNCHANGED <<mutexes, locks>>
  /\ IF Taken(locks'[g[2]]) THEN Return(g)
       ELSE proc' = [proc EXCEPT ![g].pc = "diff", ![g].mutex = locks'[g[2]]]
  /\ UNCHANGED <<cmd, nextID, repos, roots, watchLangs, snapshotLangs, snapshot,
                 indexer, edits, request>>

\* Meta, then diff over the files of the languages asked for: nothing to do,
\* a small delta or one over the threshold.  Files of these languages only
\* differ from what is held when they were edited.
Diff(g) ==
  /\ proc[g].pc = "diff"
  /\ \/ ~Held(g[2]) /\ Return(g) /\ UNCHANGED edits
     \/ /\ Held(g[2]) /\ repos[g[2]].files = Filter(proc[g].langs)
        /\ \/ Return(g) /\ UNCHANGED edits
           \/ /\ edits < MaxEdits /\ edits' = edits + 1
              /\ \E pc \in {"apply", "rebuild"} : Goto(g, pc)
     \/ /\ Held(g[2]) /\ repos[g[2]].files # Filter(proc[g].langs)
        /\ \E pc \in {"apply", "rebuild"} : Goto(g, pc)
        /\ UNCHANGED edits
  /\ UNCHANGED <<cmd, nextID, repos, maps, snapshot, indexer, request>>

\* What is found and what was edited is read again; files that left the
\* languages go.
Apply(g) ==
  /\ proc[g].pc = "apply"
  /\ \/ ~Held(g[2]) /\ Return(g) /\ UNCHANGED repos
     \/ /\ Held(g[2])
        /\ \E state \in Verdicts :
             repos' = [repos EXCEPT ![g[2]].files = Filter(proc[g].langs),
                                    ![g[2]].state = state]
        /\ Goto(g, "save")
  /\ UNCHANGED <<cmd, nextID, maps, snapshot, indexer, edits, request>>

\* Mutant: the rebuild is announced and not started.
BuildLater(id, languages) == proc[<<"build", id>>]
BuildStarted(id, languages) == [Idle EXCEPT !.pc = "parse", !.langs = languages]

\* One build of an index at a time, a bound: RepoService has two.
Rebuild(g) ==
  /\ proc[g].pc = "rebuild" /\ proc[<<"build", g[2]>>].pc = "off"
  /\ \/ ~Held(g[2]) /\ Return(g) /\ UNCHANGED repos
     \/ /\ Held(g[2])
        /\ repos' = [repos EXCEPT ![g[2]].state = "refreshing"]
        /\ proc' = [proc EXCEPT ![g] = [Idle EXCEPT !.pc = After(g)],
                                ![<<"build", g[2]>>] = BuildStarted(g[2], proc[g].langs)]
  /\ UNCHANGED <<cmd, nextID, maps, snapshot, indexer, edits, request>>

\* The error of Replace is not looked at: a dropped index goes on to the save.
BuildReplace(id) ==
  LET g == <<"build", id>>
  IN  /\ proc[g].pc = "parse"
      /\ IF Held(id)
           THEN \E state \in Verdicts :
                  repos' = [repos EXCEPT ![id].files = Filter(proc[g].langs),
                                         ![id].state = state]
           ELSE UNCHANGED repos
      /\ Goto(g, "save")
      /\ UNCHANGED <<cmd, nextID, maps, snapshot, indexer, edits, request>>

\* saveSnapshot: a copy of the index, the languages it is labelled with, and
\* the file (SnapshotFile has its steps).
SaveMeta(g) ==
  /\ proc[g].pc = "save"
  /\ IF Held(g[2])
       THEN proc' = [proc EXCEPT ![g].pc = "label", ![g].root = repos[g[2]].root,
                                 ![g].files = repos[g[2]].files]
       ELSE Return(g)
  /\ UNCHANGED <<cmd, nextID, repos, maps, snapshot, indexer, edits, request>>

SaveLabel(g) ==
  /\ proc[g].pc = "label"
  /\ proc' = [proc EXCEPT ![g].pc = "write", ![g].label = snapshotLangs[g[2]]]
  /\ UNCHANGED <<cmd, nextID, repos, maps, snapshot, indexer, edits, request>>

SaveWrite(g) ==
  /\ proc[g].pc = "write"
  /\ snapshot' = [snapshot EXCEPT ![proc[g].root] =
                    [there |-> TRUE, label |-> proc[g].label, files |-> proc[g].files]]
  /\ Return(g)
  /\ UNCHANGED <<cmd, nextID, repos, maps, indexer, edits, request>>

Save(g) == SaveMeta(g) \/ SaveLabel(g) \/ SaveWrite(g)

Refresh(g) == RefreshInfo(g) \/ Lock(g) \/ Diff(g) \/ Apply(g) \/ Rebuild(g)

Step(g) ==
  \/ g[1] = "watch" /\ Tick(g[2])
  \/ g \in Refreshers /\ Refresh(g)
  \/ g[1] = "build" /\ BuildReplace(g[2])
  \/ Save(g)

-----------------------------------------------------------------------------
(* Requests.                                                               *)

Covers(root, path) == Len(root) <= Len(path) /\ SubSeq(path, 1, Len(root)) = root

\* Mutant: the last root met that covers the path is kept.
LastCovering(r) == Covers(r, request.path)

\* Roots that cover one path are prefixes of each other: the one with more
\* names is the longer string.
Better(r) == Covers(r, request.path) /\ Len(r) > Len(request.best)

Tools == {"scan", "graph", "usages"}
\* What a handler makes of a path that no ready index has.
Otherwise(tool) == IF tool = "graph" THEN "error" ELSE "disk"

LookingUp == request.pc \in {"first", "second"}

\* ResolveIndex begins: no root visited, none found.
Lookup(pc, tool, path) ==
  request' = [NoRequest EXCEPT !.pc = pc, !.tool = tool, !.path = path,
                               !.left = {r \in Roots : roots[r] # NoId}]

Answer(path, id, answer) ==
  request' = [NoRequest EXCEPT !.pc = "done", !.path = path, !.id = id, !.answer = answer]

Ask(tool, path) ==
  /\ indexer.pc = "serving" /\ ~LookingUp
  /\ Lookup("first", tool, path)
  /\ UNCHANGED <<cmd, nextID, repos, maps, snapshot, indexer, proc, edits>>

\* The next turn of roots.Range, which has no order.  Requests come when Index
\* has returned for every directory, so that the map no longer changes.
Visit(r) ==
  /\ LookingUp /\ r \in request.left
  /\ request' = IF Better(r) THEN [request EXCEPT !.left = @ \ {r}, !.best = r, !.id = roots[r]]
                             ELSE [request EXCEPT !.left = @ \ {r}]
  /\ UNCHANGED <<cmd, nextID, repos, maps, snapshot, indexer, proc, edits>>

Visited == LookingUp /\ request.left = {}

\* Info, once every root is visited: only a ready index answers.
Found == request.id # NoId /\ repos[request.id].state = "ready"

\* A handler looks the index up and asks it; find_usages looks it up, and the
\* method it calls then looks it up once more.
FirstLookup ==
  /\ request.pc = "first" /\ Visited
  /\ IF ~Found THEN Answer(<<>>, NoId, Otherwise(request.tool))
       ELSE IF request.tool = "usages" THEN Lookup("second", request.tool, request.path)
       ELSE Answer(request.path, request.id, "indexed")
  /\ UNCHANGED <<cmd, nextID, repos, maps, snapshot, indexer, proc, edits>>

\* The second answer, ok = false among them, is taken as it comes.
SecondLookup ==
  /\ request.pc = "second" /\ Visited
  /\ IF Found THEN Answer(request.path, request.id, "indexed")
              ELSE Answer(<<>>, NoId, "nothing")
  /\ UNCHANGED <<cmd, nextID, repos, maps, snapshot, indexer, proc, edits>>

Request ==
  \/ \E tool \in Tools, path \in cmd.ask : Ask(tool, path)
  \/ \E r \in Roots : Visit(r)
  \/ FirstLookup \/ SecondLookup

-----------------------------------------------------------------------------
Next ==
  \/ IndexStep
  \/ \E g \in Goroutines : Step(g)
  \/ Request

Spec == Init /\ [][Next]_vars

\* Index runs to its end, a goroutine that can run does, the ticker ticks.
FairSpec ==
  /\ Spec
  /\ WF_vars(IndexStep)
  /\ \A g \in Goroutines : WF_vars(Step(g))

-----------------------------------------------------------------------------
(* Properties.                                                             *)

Languages == SUBSET Langs
MaybeRoots == Roots \cup {<<>>}
MaybeIds == Ids \cup {NoId}

RepoStates == {"none", "building", "refreshing"} \cup Verdicts
IndexPcs == {"idle", "serving", "drop", "unregister", "forget watch", "forget languages",
             "forget lock", "create", "register", "languages", "restore", "build",
             "set watch", "start watch", "refresh"}
ProcPcs == {"off", "tick", "refresh", "lock", "parse"} \cup Locked
Answers == {"none", "indexed", "disk", "error", "nothing"}

RepoRecords == [root: MaybeRoots, state: RepoStates, files: Languages, watch: BOOLEAN]
Snapshots == [there: BOOLEAN, label: Languages, files: Languages]
IndexCalls == [pc: IndexPcs, root: MaybeRoots, langs: Languages, id: MaybeIds,
               restored: BOOLEAN, files: Languages]
Procs == [pc: ProcPcs, langs: Languages, mutex: Nat, root: MaybeRoots, label: Languages,
          files: Languages]

\* Type correctness of the maps of RepoService and MemoryStore and of the
\* local variables of those who use them.
TypeOK ==
  /\ cmd \in CommandLines
  /\ nextID \in 0..MaxIndexes
  /\ repos \in [Ids -> RepoRecords]
  /\ roots \in [Roots -> MaybeIds]
  /\ watchLangs \in [Ids -> Languages] /\ snapshotLangs \in [Ids -> Languages]
  /\ mutexes \in Nat /\ locks \in [Ids -> Nat]
  /\ snapshot \in [Roots -> Snapshots]
  /\ indexer \in IndexCalls
  /\ proc \in [Goroutines -> Procs]
  /\ edits \in 0..MaxEdits
  /\ request \in [pc: {"idle", "first", "second", "done"}, tool: Tools \cup {"none"},
                  path: cmd.ask \cup {<<>>}, left: SUBSET Roots, best: MaybeRoots,
                  id: MaybeIds, answer: Answers]

\* Of the watcher and the refresh of a restore at most one is between the
\* TryLock and the unlock of refresh for an index the store holds, although
\* drop deletes the mutex under them.
OneRefreshPerIndex ==
  \A g, h \in Refreshers :
    g # h /\ g[2] = h[2] /\ Held(g[2]) => ~(proc[g].pc \in Locked /\ proc[h].pc \in Locked)

\* Neither an index nor a snapshot has files outside the languages it is for,
\* whoever saved under that root before.
FitsLanguages ==
  /\ \A id \in Ids :
       Held(id) => repos[id].files \subseteq Filter(
         IF indexer.id = id /\ indexer.pc \in {"register", "languages"}
           THEN indexer.langs ELSE snapshotLangs[id])
  /\ \A r \in Roots : snapshot[r].files \subseteq Filter(snapshot[r].label)

\* Between calls of Index every index held is registered for its root, every
\* registration is of an index held, and an index that says it is watched has
\* a watcher that will tick again.
EveryIndexIsReachable ==
  indexer.pc \in {"idle", "serving"} =>
    /\ \A id \in Ids : Held(id) => roots[repos[id].root] = id
    /\ \A r \in Roots : roots[r] # NoId => Held(roots[r])
    /\ \A id \in Ids : repos[id].watch => proc[<<"watch", id>>].pc # "off"

\* An answer from an index is from the innermost registered root around the
\* path, whatever order the map was visited in, and whatever was built or
\* refreshed between the two lookups of one request: never from an outer root
\* that happens to be ready (repo.go:184-185).
AnswersFromInnermost ==
  request.answer = "indexed" =>
    /\ Covers(repos[request.id].root, request.path)
    /\ \A r \in Roots : roots[r] # NoId /\ Covers(r, request.path)
                         => Len(r) <= Len(repos[request.id].root)

\* repo.go:216-219: 'ok=false means "not covered by any index" and the caller
\* should use the disk flow'.  A request is answered from an index or from files,
\* or gets an error.
EveryAnswerIsAnAnswer == request.answer # "nothing"

\* The watcher, the refresh and the build of an index that is dropped end.
\* (What is dropped stays dropped, so this is "leads to".)
DroppedGoQuiet ==
  <>[](\A g \in Goroutines : g[2] <= nextID /\ ~Held(g[2]) => proc[g].pc = "off")

\* Once the server serves, every registered index comes to hold exactly the
\* files of its languages, and is not left building or refreshing, whatever
\* it was restored from and whoever else saved.
LastIndexServes ==
  <>[](\A r \in Roots :
         indexer.pc = "serving" /\ roots[r] # NoId =>
           /\ repos[roots[r]].files = Filter(snapshotLangs[roots[r]])
           /\ repos[roots[r]].state \in Verdicts)
=============================================================================
