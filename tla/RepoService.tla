---------------------------- MODULE RepoService ----------------------------
(***************************************************************************)
(* One repository of internal/service/repo.go: the background build, the   *)
(* refresh passes of the watcher and of a restore, the queries that        *)
(* re-index the file they are asked about, the snapshot on disk, and a     *)
(* file system that is edited under all of them.                           *)
(*                                                                         *)
(* A step is one system call on one file, one critical section of          *)
(* MemoryStore.mu or of the refresh lock, or a run of local code.  A file  *)
(* is its modification time, its content and whether it can be read; every *)
(* edit of its content or its times takes a new modification time.  A      *)
(* digest is the content it was computed from, facts are the content they  *)
(* were parsed from, and all contents have the same size, so a size never  *)
(* tells two versions apart.                                               *)
(***************************************************************************)
EXTENDS IndexStore, Integers, FiniteSets

CONSTANTS
  Absent,             \* a path with no file
  Watch,              \* the goroutine of startWatch: one refresh per tick
  Restore,            \* the one refresh started after a snapshot is restored
  Queries,            \* requests that go through freshFacts
  MaxBuilders,        \* bound: builds that can run at the same time
  FullRebuildFloor,   \* 500 in refresh
  RebuildShare,       \* 5 in refresh: the threshold is at least one file in so many
  Verdicts,           \* states the memory estimate can lead to
  MaxEdits,           \* bound: edits of the file system
  MaxCrashes,         \* bound: crashes of the server
  QuietBuilds         \* TRUE: no edit happens while a build runs

ASSUME RepoServiceAssumption ==
  /\ Paths \subseteq Nat \ {0} /\ Paths # {} /\ IsFiniteSet(Paths)
  /\ Watch # Restore /\ {Watch, Restore} \cap Queries = {}
  /\ MaxBuilders \in Nat \ {0}
  /\ FullRebuildFloor \in Nat /\ RebuildShare \in Nat \ {0}
  /\ Verdicts \subseteq {"ready", "partial"} /\ Verdicts # {}
  /\ MaxEdits \in Nat /\ MaxCrashes \in Nat
  /\ QuietBuilds \in BOOLEAN

VARIABLES
  up,         \* is the server running
  crashes,    \* how often it crashed
  clock,      \* the last modification time given out
  disk,       \* disk[p]: the file at p, or Absent
  snapshot,   \* entries of the snapshot file, or NoEntry when there is none
  store,      \* the repository in MemoryStore (IndexStore)
  lock,       \* refreshLock(id): its holder, or NoEntry
  builder,    \* builder[b]: the local state of a build goroutine
  pass,       \* pass[r]: the local state of a refresh
  ix,         \* ix[a]: the local state of indexPath called by a
  query       \* query[q]: the local state of a request

service == <<store, lock, builder, pass, ix, query>>
vars == <<up, crashes, clock, disk, snapshot, service>>

Refreshers == {Watch, Restore}
Builders == 1..MaxBuilders

FirstOf(S) == CHOOSE x \in S : \A y \in S : x <= y
Present(p) == disk[p] # Absent
Readable(p) == Present(p) /\ disk[p].readable
Entry(m, d, f) == [mtime |-> m, digest |-> d, facts |-> f]

IdleBuilder == [pc |-> "idle", todo |-> {}, listed |-> {}, at |-> 0, mtime |-> 0,
                facts |-> NoFiles, files |-> NoFiles, errs |-> {}]
IdlePass(pc) == [pc |-> pc, todo |-> {}, listed |-> {}, added |-> {}, changed |-> {},
                 deleted |-> {}, meta |-> NoFiles, cs |-> NoChange]
IdleIx == [pc |-> "off", path |-> 0, attempt |-> 0, mtime |-> 0,
           digest |-> NoEntry, facts |-> NoEntry]
IdleQuery == [pc |-> "idle", path |-> 0, entry |-> NoEntry, answer |-> NoEntry, seen |-> {}]

StartedBuilder == [IdleBuilder EXCEPT !.pc = "walk", !.todo = Paths]
IdleBuilders == {b \in Builders : builder[b].pc = "idle"}
Building == IdleBuilders # Builders

\* A refresh that ends: the watcher waits for its next tick, the refresh of a
\* restore is over.
Rest(r) == IF r = Watch THEN IdlePass("idle") ELSE IdlePass("done")

NothingRunning ==
  /\ store' = EmptyStore
  /\ lock' = NoEntry
  /\ ix' = [a \in Refreshers \cup Queries |-> IdleIx]
  /\ query' = [q \in Queries |-> IdleQuery]

Init ==
  /\ up = FALSE
  /\ crashes = 0
  /\ clock = 0
  /\ disk \in [Paths -> {Absent} \cup [mtime: {0}, content: Facts, readable: {TRUE}]]
  /\ snapshot = NoEntry
  /\ store = EmptyStore
  /\ lock = NoEntry
  /\ builder = [b \in Builders |-> IdleBuilder]
  /\ pass = [r \in Refreshers |-> IdlePass("done")]
  /\ ix = [a \in Refreshers \cup Queries |-> IdleIx]
  /\ query = [q \in Queries |-> IdleQuery]

-----------------------------------------------------------------------------
(* The file system.                                                        *)

MayEdit == clock < MaxEdits /\ (QuietBuilds => ~Building)

\* A request's answer may be any content its file had since it was asked.
Witnessed(p, c) ==
  query' = [q \in Queries |->
              IF query[q].pc # "idle" /\ query[q].path = p
                THEN [query[q] EXCEPT !.seen = @ \cup {c}] ELSE query[q]]

\* Create, overwrite or touch a file.
Write(p, c) ==
  /\ MayEdit
  /\ clock' = clock + 1
  /\ disk' = [disk EXCEPT ![p] = [mtime |-> clock + 1, content |-> c, readable |-> TRUE]]
  /\ Witnessed(p, c)
  /\ UNCHANGED <<up, crashes, snapshot, store, lock, builder, pass, ix>>

Delete(p) ==
  /\ MayEdit /\ Present(p)
  /\ clock' = clock + 1
  /\ disk' = [disk EXCEPT ![p] = Absent]
  /\ UNCHANGED <<up, crashes, snapshot, service>>

\* A permission change leaves size and mtime alone.
Chmod(p) ==
  /\ MayEdit /\ Present(p)
  /\ clock' = clock + 1
  /\ disk' = [disk EXCEPT ![p].readable = ~@]
  /\ UNCHANGED <<up, crashes, snapshot, service>>

Edit(p) == (\E c \in Facts : Write(p, c)) \/ Delete(p) \/ Chmod(p)

-----------------------------------------------------------------------------
(* Index at boot, and the end of the process.                              *)

\* A usable snapshot is published and refreshed; otherwise a build starts.
Boot ==
  /\ ~up
  /\ up' = TRUE
  /\ lock' = NoEntry
  /\ \/ /\ snapshot # NoEntry
        /\ \E st \in Verdicts : store' = Replace(EmptyStore, snapshot, {}, st)
        /\ pass' = [r \in Refreshers |-> IdlePass(IF r = Watch THEN "idle" ELSE "start")]
        /\ UNCHANGED builder
     \/ /\ snapshot = NoEntry
        /\ store' = EmptyStore
        /\ pass' = [r \in Refreshers |-> Rest(r)]
        /\ builder' = [builder EXCEPT ![1] = StartedBuilder]
  /\ UNCHANGED <<crashes, clock, disk, snapshot, ix, query>>

Crash ==
  /\ up /\ crashes < MaxCrashes
  /\ up' = FALSE
  /\ crashes' = crashes + 1
  /\ NothingRunning
  /\ builder' = [b \in Builders |-> IdleBuilder]
  /\ pass' = [r \in Refreshers |-> IdlePass("done")]
  /\ UNCHANGED <<clock, disk, snapshot>>

-----------------------------------------------------------------------------
(* build: IndexDir over the whole tree, then loadIndexed for every file,   *)
(* then Replace, then saveSnapshot.                                        *)

BuilderStep(b, rec) ==
  /\ builder' = [builder EXCEPT ![b] = rec]
  /\ UNCHANGED <<up, crashes, clock, disk, lock, pass, ix, query>>

BuildWalk(b) ==
  LET me == builder[b]
      p == FirstOf(me.todo)
      found == IF Present(p) THEN me.listed \cup {p} ELSE me.listed
  IN  /\ me.pc = "walk"
      /\ BuilderStep(b, IF me.todo = {p}
                          THEN [me EXCEPT !.pc = "parse", !.todo = found, !.listed = found]
                          ELSE [me EXCEPT !.todo = @ \ {p}, !.listed = found])
      /\ UNCHANGED <<store, snapshot>>

\* One task of the worker pool: the file is read and parsed, or its error is
\* kept.  The pool takes the files in any order.  IndexDir itself fails only when
\* its context is cancelled, and the contexts of build never are (repo.go:129,520).
BuildParse(b, p) ==
  LET me == builder[b]
  IN  /\ me.pc = "parse" /\ p \in me.todo
      /\ BuilderStep(b, [me EXCEPT
            !.todo  = @ \ {p},
            !.facts = IF Readable(p) THEN [@ EXCEPT ![p] = disk[p].content] ELSE @,
            !.errs  = IF Readable(p) THEN @ ELSE @ \cup {p}])
      /\ UNCHANGED <<store, snapshot>>

BuildParsed(b) ==
  LET me == builder[b]
  IN  /\ me.pc = "parse" /\ me.todo = {}
      /\ BuilderStep(b, [me EXCEPT !.pc = "stat", !.todo = PathsIn(me.facts), !.listed = {}])
      /\ UNCHANGED <<store, snapshot>>

\* loadIndexed stats and hashes a file after its facts were computed.
LoadStat(b, p) ==
  LET me == builder[b]
  IN  /\ me.pc = "stat" /\ p \in me.todo
      /\ BuilderStep(b, IF Present(p)
                          THEN [me EXCEPT !.pc = "hash", !.at = p, !.mtime = disk[p].mtime]
                          ELSE [me EXCEPT !.todo = @ \ {p}, !.errs = @ \cup {p}])
      /\ UNCHANGED <<store, snapshot>>

LoadDigest(b) ==
  LET me == builder[b]
      p == me.at
      loaded == [me EXCEPT !.pc = "stat", !.todo = @ \ {p}, !.at = 0, !.mtime = 0]
  IN  /\ me.pc = "hash"
      /\ BuilderStep(b, IF Readable(p)
            THEN [loaded EXCEPT !.files[p] = Entry(me.mtime, disk[p].content, me.facts[p])]
            ELSE [loaded EXCEPT !.errs = @ \cup {p}])
      /\ UNCHANGED <<store, snapshot>>

BuildReplace(b) ==
  LET me == builder[b]
  IN  /\ me.pc = "stat" /\ me.todo = {}
      /\ \E st \in Verdicts : store' = Replace(store, me.files, me.errs, st)
      /\ BuilderStep(b, [IdleBuilder EXCEPT !.pc = "capture"])
      /\ UNCHANGED snapshot

\* saveSnapshot reads the entries, and only then queues for snapshotMu.
BuildCapture(b) ==
  /\ builder[b].pc = "capture"
  /\ BuilderStep(b, [IdleBuilder EXCEPT !.pc = "save", !.files = store.entries])
  /\ UNCHANGED <<store, snapshot>>

BuildSave(b) ==
  /\ builder[b].pc = "save"
  /\ snapshot' = builder[b].files
  /\ BuilderStep(b, IdleBuilder)
  /\ UNCHANGED store

Build(b) ==
  \/ BuildWalk(b) \/ BuildParsed(b) \/ LoadDigest(b)
  \/ BuildReplace(b) \/ BuildCapture(b) \/ BuildSave(b)
  \/ \E p \in Paths : BuildParse(b, p) \/ LoadStat(b, p)

-----------------------------------------------------------------------------
(* indexPath: stat, hash, parse, stat again; one retry, then unstable.  The *)
(* entry it is called with is the caller's copy of the metadata.            *)

StartIx(p) == [IdleIx EXCEPT !.pc = "stat", !.path = p, !.attempt = 1]

PrevEntry(a) ==
  IF a \in Queries THEN query[a].entry ELSE pass[a].meta[ix[a].path]

IxStep(a, rec) ==
  /\ ix' = [ix EXCEPT ![a] = rec]
  /\ UNCHANGED <<up, crashes, clock, disk, snapshot, store, lock, builder, pass, query>>

IxFailed(a) == [IdleIx EXCEPT !.pc = "error", !.path = ix[a].path]

IxStat(a) ==
  LET p == ix[a].path
  IN  /\ ix[a].pc = "stat"
      /\ IxStep(a, IF Present(p)
                     THEN [ix[a] EXCEPT !.pc = "hash", !.mtime = disk[p].mtime]
                     ELSE IxFailed(a))

\* A digest equal to the stored one ends indexPath with no facts.
IxDigest(a) ==
  LET p == ix[a].path
      prev == PrevEntry(a)
  IN  /\ ix[a].pc = "hash"
      /\ IxStep(a, IF ~Readable(p) THEN IxFailed(a)
                   ELSE IF prev # NoEntry /\ prev.digest = disk[p].content
                     THEN [IdleIx EXCEPT !.pc = "same", !.path = p]
                   ELSE [ix[a] EXCEPT !.pc = "parse", !.digest = disk[p].content])

IxParse(a) ==
  LET p == ix[a].path
  IN  /\ ix[a].pc = "parse"
      /\ IxStep(a, IF Readable(p)
                     THEN [ix[a] EXCEPT !.pc = "restat", !.facts = disk[p].content]
                     ELSE IxFailed(a))

\* Mutant: the second stat is not compared.
UnmovedUnchecked(a) == TRUE
Unmoved(a) == disk[ix[a].path].mtime = ix[a].mtime

MayRetry(a) == ix[a].attempt = 1

\* Mutant: the retry takes the new times and keeps the facts it has.
RetriedWithoutParse(a) ==
  [ix[a] EXCEPT !.mtime = disk[ix[a].path].mtime, !.attempt = ix[a].attempt + 1]
Retried(a) == [StartIx(ix[a].path) EXCEPT !.attempt = ix[a].attempt + 1]

IxRestat(a) ==
  LET p == ix[a].path
  IN  /\ ix[a].pc = "restat"
      /\ IxStep(a, IF ~Present(p) THEN IxFailed(a)
                   ELSE IF Unmoved(a) THEN [ix[a] EXCEPT !.pc = "ok"]
                   ELSE IF MayRetry(a) THEN Retried(a)
                   ELSE [IdleIx EXCEPT !.pc = "unstable", !.path = p])

IndexPath(a) == IxStat(a) \/ IxDigest(a) \/ IxParse(a) \/ IxRestat(a)

IxReturned(a) == ix[a].pc \in {"ok", "same", "unstable", "error"}
IxEntry(a) == Entry(ix[a].mtime, ix[a].digest, ix[a].facts)

-----------------------------------------------------------------------------
(* refresh.                                                                *)

PassStep(r, rec) ==
  /\ pass' = [pass EXCEPT ![r] = rec]
  /\ UNCHANGED <<up, crashes, clock, disk, query>>

\* A tick (or the refresh of a restore) reads the state before it asks for
\* the lock.
RefreshBegin(r) ==
  /\ up
  /\ pass[r].pc = IF r = Watch THEN "idle" ELSE "start"
  /\ PassStep(r, IF store.state \in {"building", "refreshing"}
                   THEN Rest(r) ELSE IdlePass("trylock"))
  /\ UNCHANGED <<store, lock, builder, ix, snapshot>>

\* TryLock: a pass that finds the lock taken is coalesced.
RefreshLock(r) ==
  /\ pass[r].pc = "trylock"
  /\ IF lock = NoEntry
       THEN /\ lock' = r
            /\ PassStep(r, [IdlePass("walk") EXCEPT !.meta = store.entries, !.todo = Paths])
       ELSE PassStep(r, Rest(r)) /\ UNCHANGED lock
  /\ UNCHANGED <<store, builder, ix, snapshot>>

\* ListFiles has no error here: walking on where it cannot read, it fails only
\* on a cancelled context, and nobody cancels that of a refresh (repo.go:125,150).
DiffWalk(r) ==
  LET me == pass[r]
      p == FirstOf(me.todo)
      found == IF Present(p) THEN me.listed \cup {p} ELSE me.listed
  IN  /\ me.pc = "walk"
      /\ PassStep(r, IF me.todo = {p}
                       THEN [me EXCEPT !.pc = "diff", !.todo = found, !.listed = {},
                                       !.deleted = PathsIn(me.meta) \ found]
                       ELSE [me EXCEPT !.todo = @ \ {p}, !.listed = found])
      /\ UNCHANGED <<store, lock, builder, ix, snapshot>>

\* A listed file is added when it has no entry or can no longer be statted,
\* and changed when its modification time is not the entry's.
DiffStat(r) ==
  LET me == pass[r]
      p == FirstOf(me.todo)
      isAdded == me.meta[p] = NoEntry \/ ~Present(p)
      isChanged == ~isAdded /\ disk[p].mtime # me.meta[p].mtime
  IN  /\ me.pc = "diff" /\ me.todo # {}
      /\ PassStep(r, [me EXCEPT !.todo = @ \ {p},
                                !.added = IF isAdded THEN @ \cup {p} ELSE @,
                                !.changed = IF isChanged THEN @ \cup {p} ELSE @])
      /\ UNCHANGED <<store, lock, builder, ix, snapshot>>

Delta(r) ==
  Cardinality(pass[r].added) + Cardinality(pass[r].changed) + Cardinality(pass[r].deleted)

RebuildThreshold(r) ==
  LET share == Cardinality(PathsIn(pass[r].meta)) \div RebuildShare
  IN  IF share > FullRebuildFloor THEN share ELSE FullRebuildFloor

DiffDone(r) == pass[r].pc = "diff" /\ pass[r].todo = {}

\* A delta above the threshold hands the work to a build and ends the pass.
RefreshRebuild(r) ==
  /\ DiffDone(r) /\ Delta(r) > RebuildThreshold(r)
  /\ IdleBuilders # {}
  /\ store' = SetState(store, "refreshing")
  /\ builder' = [builder EXCEPT ![FirstOf(IdleBuilders)] = StartedBuilder]
  /\ lock' = NoEntry
  /\ PassStep(r, Rest(r))
  /\ UNCHANGED <<ix, snapshot>>

RefreshNothing(r) ==
  /\ DiffDone(r) /\ Delta(r) = 0
  /\ lock' = NoEntry
  /\ PassStep(r, Rest(r))
  /\ UNCHANGED <<store, builder, ix, snapshot>>

RefreshIncremental(r) ==
  /\ DiffDone(r) /\ Delta(r) \in 1..RebuildThreshold(r)
  /\ PassStep(r, [pass[r] EXCEPT !.pc = "index", !.cs.deleted = pass[r].deleted])
  /\ UNCHANGED <<store, lock, builder, ix, snapshot>>

\* The added paths are indexed first, then the changed ones.
RefreshIndex(r) ==
  LET me == pass[r]
      p == FirstOf(IF me.added # {} THEN me.added ELSE me.changed)
  IN  /\ me.pc = "index" /\ ix[r].pc = "off"
      /\ me.added \cup me.changed # {}
      /\ ix' = [ix EXCEPT ![r] = StartIx(p)]
      /\ PassStep(r, me)
      /\ UNCHANGED <<store, lock, builder, snapshot>>

\* What the change set gains from one indexPath: facts, an unstable path (an
\* error only), a failed one (an error, and its entry is deleted), or nothing.
Gathered(cs, r) ==
  LET p == ix[r].path
  IN  CASE ix[r].pc = "ok" ->
             IF p \in pass[r].added THEN [cs EXCEPT !.added[p] = IxEntry(r)]
                                     ELSE [cs EXCEPT !.updated[p] = IxEntry(r)]
        [] ix[r].pc = "unstable" -> [cs EXCEPT !.errors = @ \cup {p}]
        [] ix[r].pc = "error" -> [cs EXCEPT !.errors = @ \cup {p}, !.deleted = @ \cup {p}]
        [] ix[r].pc = "same" -> cs

RefreshGather(r) ==
  LET me == pass[r]
      p == ix[r].path
  IN  /\ me.pc = "index" /\ IxReturned(r)
      /\ ix' = [ix EXCEPT ![r] = IdleIx]
      /\ PassStep(r, [me EXCEPT !.cs = Gathered(@, r),
                                !.added = @ \ {p}, !.changed = @ \ {p}])
      /\ UNCHANGED <<store, lock, builder, snapshot>>

RefreshApply(r) ==
  LET me == pass[r]
  IN  /\ me.pc = "index" /\ ix[r].pc = "off"
      /\ me.added \cup me.changed = {}
      /\ \E st \in Verdicts : store' = Apply(store, me.cs, st)
      /\ PassStep(r, IdlePass("capture"))
      /\ UNCHANGED <<lock, builder, ix, snapshot>>

RefreshCapture(r) ==
  /\ pass[r].pc = "capture"
  /\ PassStep(r, [IdlePass("save") EXCEPT !.meta = store.entries])
  /\ UNCHANGED <<store, lock, builder, ix, snapshot>>

RefreshSave(r) ==
  /\ pass[r].pc = "save"
  /\ snapshot' = pass[r].meta
  /\ lock' = NoEntry
  /\ PassStep(r, Rest(r))
  /\ UNCHANGED <<store, builder, ix>>

Refresh(r) ==
  \/ RefreshLock(r) \/ DiffWalk(r) \/ DiffStat(r)
  \/ RefreshRebuild(r) \/ RefreshNothing(r) \/ RefreshIncremental(r)
  \/ RefreshIndex(r) \/ RefreshGather(r) \/ RefreshApply(r)
  \/ RefreshCapture(r) \/ RefreshSave(r)

-----------------------------------------------------------------------------
(* A request for one file, served through freshFacts.                      *)

QueryStep(q, rec) ==
  /\ query' = [query EXCEPT ![q] = rec]
  /\ UNCHANGED <<up, crashes, clock, disk, snapshot, lock, builder, pass>>

\* ResolveIndex: only a ready index answers.
QueryResolve(q, p) ==
  /\ up /\ query[q].pc = "idle" /\ store.state = "ready"
  /\ QueryStep(q, [IdleQuery EXCEPT !.pc = "meta", !.path = p,
                                    !.seen = IF Present(p) THEN {disk[p].content} ELSE {}])
  /\ UNCHANGED <<store, ix>>

\* A path with no entry is left to the disk flow.
QueryMeta(q) ==
  LET me == query[q]
      e == store.entries[me.path]
  IN  /\ me.pc = "meta"
      /\ QueryStep(q, IF e = NoEntry THEN IdleQuery
                                     ELSE [me EXCEPT !.pc = "hash", !.entry = e])
      /\ UNCHANGED <<store, ix>>

\* Mutant: an entry is served as long as its file can be read.
FreshWhenReadable(q) == Readable(query[q].path)
\* The entry's digest is still that of the file.
Fresh(q) == Readable(query[q].path) /\ disk[query[q].path].content = query[q].entry.digest

QueryDigest(q) ==
  LET me == query[q]
      p == me.path
      stale == Readable(p) /\ ~Fresh(q)
  IN  /\ me.pc = "hash"
      /\ QueryStep(q, IF Fresh(q) THEN [me EXCEPT !.pc = "answered", !.answer = me.entry.facts]
                      ELSE IF stale THEN [me EXCEPT !.pc = "index"]
                      ELSE IdleQuery)
      /\ ix' = IF stale THEN [ix EXCEPT ![q] = StartIx(p)] ELSE ix
      /\ UNCHANGED store

\* Facts are published as an update before they are answered; every other
\* outcome of indexPath leaves the request to the disk flow.
QueryApply(q) ==
  LET me == query[q]
  IN  /\ me.pc = "index" /\ IxReturned(q)
      /\ ix' = [ix EXCEPT ![q] = IdleIx]
      /\ \/ /\ ix[q].pc = "ok"
            /\ \E st \in Verdicts :
                 store' = Apply(store, [NoChange EXCEPT !.updated[me.path] = IxEntry(q)], st)
            /\ QueryStep(q, [me EXCEPT !.pc = "answered", !.answer = ix[q].facts])
         \/ /\ ix[q].pc # "ok"
            /\ QueryStep(q, IdleQuery)
            /\ UNCHANGED store

QueryDone(q) ==
  /\ query[q].pc = "answered"
  /\ QueryStep(q, IdleQuery)
  /\ UNCHANGED <<store, ix>>

Query(q) ==
  \/ QueryMeta(q) \/ QueryDigest(q) \/ QueryApply(q) \/ QueryDone(q)
  \/ \E p \in Paths : QueryResolve(q, p)

-----------------------------------------------------------------------------
Next ==
  \/ \E p \in Paths : Edit(p)
  \/ Boot \/ Crash
  \/ \E b \in Builders : Build(b)
  \/ \E r \in Refreshers : RefreshBegin(r) \/ Refresh(r)
  \/ \E a \in Refreshers \cup Queries : IndexPath(a)
  \/ \E q \in Queries : Query(q)

Spec == Init /\ [][Next]_vars

\* The goroutines run and the ticker ticks.  Nobody has to edit, crash,
\* restart or ask.
Fairness ==
  /\ \A b \in Builders : WF_vars(Build(b))
  /\ \A r \in Refreshers : WF_vars(RefreshBegin(r)) /\ WF_vars(Refresh(r) \/ IndexPath(r))
  /\ \A q \in Queries : WF_vars(IndexPath(q))

FairSpec == Spec /\ Fairness

-----------------------------------------------------------------------------
(* What must hold.                                                         *)

DiskFiles == [mtime: Nat, content: Facts, readable: BOOLEAN]
Entries == [mtime: Nat, digest: Facts, facts: Facts]
Files == [Paths -> Entries \cup {NoEntry}]
ChangeSets == [added: Files, updated: Files, deleted: SUBSET Paths, errors: SUBSET Paths]
MaybeFacts == Facts \cup {NoEntry}

BuilderPcs == {"idle", "walk", "parse", "stat", "hash", "capture", "save"}
PassPcs == {"idle", "start", "done", "trylock", "walk", "diff", "index", "capture", "save"}
IxPcs == {"off", "stat", "hash", "parse", "restat", "ok", "same", "unstable", "error"}
QueryPcs == {"idle", "meta", "hash", "index", "answered"}

Stores == [entries: Files, postings: [Paths -> [Refs -> Nat]], errors: SUBSET Paths,
           state: States, version: 0..(VersionWidth - 1)]
BuilderRecords ==
  [pc: BuilderPcs, todo: SUBSET Paths, listed: SUBSET Paths, at: Paths \cup {0}, mtime: Nat,
   facts: [Paths -> MaybeFacts], files: Files, errs: SUBSET Paths]
PassRecords ==
  [pc: PassPcs, todo: SUBSET Paths, listed: SUBSET Paths, added: SUBSET Paths,
   changed: SUBSET Paths, deleted: SUBSET Paths, meta: Files, cs: ChangeSets]
IxRecords == [pc: IxPcs, path: Paths \cup {0}, attempt: 0..2, mtime: Nat,
              digest: MaybeFacts, facts: MaybeFacts]
QueryRecords == [pc: QueryPcs, path: Paths \cup {0}, entry: Entries \cup {NoEntry},
                 answer: MaybeFacts, seen: SUBSET Facts]

\* Every variable has its type (the fields of the structs and locals they model).
TypeOK ==
  /\ up \in BOOLEAN /\ crashes \in 0..MaxCrashes /\ clock \in 0..MaxEdits
  /\ disk \in [Paths -> {Absent} \cup DiskFiles]
  /\ snapshot \in Files \cup {NoEntry}
  /\ store \in Stores
  /\ lock \in Refreshers \cup {NoEntry}
  /\ builder \in [Builders -> BuilderRecords]
  /\ pass \in [Refreshers -> PassRecords]
  /\ ix \in [Refreshers \cup Queries -> IxRecords]
  /\ query \in [Queries -> QueryRecords]

\* An entry that the next diff will not look at again (its modification time
\* is the file's) holds the facts of the file's content.
CurrentIn(files) ==
  \A p \in Paths :
    (files[p] # NoEntry /\ Present(p) /\ disk[p].mtime = files[p].mtime)
      => files[p].facts = disk[p].content

\* A published entry, and a persisted one, that looks current to diff
\* (repo.go:637) is current: its facts are those of the file as it is now.
\* Neither a query publishing late, nor a build overwriting a newer entry,
\* nor an old snapshot written over a newer one may break this.
LooksCurrentIsCurrent ==
  CurrentIn(store.entries) /\ (snapshot # NoEntry => CurrentIn(snapshot))

\* README.md:183-184: a file that changes while it is analysed publishes no
\* partial facts.  The facts and the digest of a published entry are then of
\* one content.
NoMixedEntry ==
  \A p \in PathsIn(store.entries) : store.entries[p].facts = store.entries[p].digest

\* freshFacts (repo.go:786) answers with facts of a content its file had
\* between the request and the answer.
FreshAnswer ==
  \A q \in Queries : query[q].pc = "answered" => query[q].answer \in query[q].seen

\* indexPath returns facts and digest of one content, the one the file had at
\* the modification time it returns, whatever happened while it ran
\* (repo.go:571-573).
IndexPathIsConsistent ==
  \A a \in Refreshers \cup Queries :
    ix[a].pc = "ok" =>
      /\ ix[a].facts = ix[a].digest
      /\ (Present(ix[a].path) /\ Unmoved(a)) => ix[a].facts = disk[ix[a].path].content

\* The index agrees with the disk: an entry for every readable file, with
\* its facts, and none for a path with no file.
Converged ==
  \A p \in Paths :
    /\ Readable(p) => /\ store.entries[p] # NoEntry
                      /\ store.entries[p].facts = disk[p].content
    /\ ~Present(p) => store.entries[p] = NoEntry

\* When no file is edited inside a build, then once the edits and crashes stop
\* a running server's index converges to the file system and stays there: the
\* promise of the watcher (README.md:179).  It needs the condition: after an
\* edit between the parse and the hash of a build it never does (NoMixedEntry).
EventuallyConverges == QuietBuilds => <>[](up => Converged)

\* Every build and rebuild ends with the index served again: no interleaving
\* of queries, passes and builds leaves it "building" or "refreshing".
ServesAgain ==
  (up /\ store.state \in {"building", "refreshing"})
    ~> (~up \/ store.state \in Verdicts)
=============================================================================
