# A verification of ast-mcp

This directory holds TLA+ models of ast-mcp, the MCP server that indexes source
repositories with tree-sitter and answers questions about their symbols. TLC
checks the models on small instances; TLAPS proves the safety properties
of the passing runs for every value of the constants. Source lines below are
those of `src/`.

Contents: the system · the modules · the runs · where code and promise
disagree · fairness and stopping · the proofs · what is not modelled · the plan.

## 1. The system

The server loads its languages, restores or builds an index of every configured
repository, and answers MCP tool calls. A question about a path inside a ready
index is answered from memory; any other one is answered by parsing files.

| component | code | state it keeps | operations |
|---|---|---|---|
| index service | `service/repo.go` | maps from roots to identifiers and from identifiers to languages, snapshot languages and refresh locks | `Index`, `drop`, `ResolveIndex`, `build`, `startWatch`, `refresh`, `diff`, `indexPath`, `freshFacts`, `saveSnapshot`, the queries |
| index store | `repoindex/store.go` | interned paths and names, facts, postings and their inverse, canonical identities, `Info` (state, version, errors, memory) | `Create`, `Drop`, `Replace`, `Apply`, `SetState`, `SetWatch`, readers |
| snapshot file | `repoindex/snapshot.go` | one file per repository in the cache directory | `SaveSnapshot`, `LoadSnapshot` |
| paging | `repoindex/cursor.go`, `service/repo.go`, `tools/tools.go` | none in the server: the cursor holds a version and an offset | `find_usages` (occurrences), `repo_impact` |
| indexed scan | `service/repo.go`, `service/scan.go` | the facts of the index, shared | `ScanAt`, `scan`, `pruneGroups` |
| graphs | `repoindex/graph.go` | none, rebuilt per query | import graph, components, cycles, layers, impact |
| callers | `engine/calls.go`, `engine/usages.go`, `repoindex/graph.go`, `service/repo.go` | none | both flows of `find_usages` mode `callers`, `findFunc` |
| worker pool | `engine/symbols.go`, `engine/index.go` | two channels and an errgroup for one call | `collectFileTasks`, `runFileTasks`, `IndexDir` |
| outline | `engine/rank_outline.go` | none | `OutlineFromSymbols` |
| tool handlers | `tools/tools.go`, `tools/timing.go` | none | argument checks, deadlines, the choice between index and files |
| direct search | `service/find.go`, `engine/usages.go`, `engine/search.go`, `service/unused.go` | none | usages, definitions, imports, unused without an index |
| metrics and rank | `engine/metrics.go`, `engine/dossier.go`, `service/rank.go` | none | counts over one syntax tree |
| parsing | `engine/engine.go`, `engine/gettext.go` | none | tree-sitter calls, text of a node |
| language registry, languages | `lang/lang.go`, `languages/*` | tables filled once at boot | lookup by extension |
| server | `cmd/ast-mcp/main.go` | none | flags, boot, registration |

**How they interact.** `build` runs in a goroutine of its own: it drives the
worker pool, hashes what was parsed, publishes with `Replace` and saves. The
watcher and the one refresh after a restore run `refresh`: take the refresh
lock, diff the directory against the index, then either start a build or
re-index the changed files one by one, publish with `Apply` and save. Requests
run in goroutines of their own; those that need one file fresh hash it and
`Apply` it themselves. A server has as many indexes as directories were named
on its command line; naming one twice drops the first index of it, whose
goroutines go on until they notice. A request finds its index by path, in the
innermost root around it. Everything shared is in the store, behind one RWMutex,
except the snapshot file (`snapshotMu`), the maps of the service (each a
`sync.Map`, with no lock over several), the refresh locks, and the files being
indexed, which other programs edit at any moment.

**What is hard.** The index is made of several reads of files nobody locks.
Builds, passes, queries and saves publish in any order. A crash leaves an older
snapshot. One logical request takes the store's lock several times. The facts
of the index are handed out by reference. `Replace` and `Apply` keep seven maps
in step, incrementally. `drop` takes an index out of the store and out of four
maps, one after the other, under goroutines that use them. `PROJECT.json` lists each hazard at its line.

**What makes each part correct.**

- *Index service*: an entry that the next diff would find unchanged holds the
  facts of what is on disk; a query never answers with older content than its
  file held since it was asked; after the last edit the index converges, as long
  as none fell inside a build; the index does not stay unready for good. No two refreshes of one index run
  together; a dropped index goes quiet and the one that replaces it serves; an
  index and a snapshot hold files of their languages only; the innermost root
  answers.
- *Index store*: interning is one to one; the inverse used to remove a file
  lists exactly its postings; a canonical identity is given exactly to names
  declared once; readers see whole calls; the ranking ranks what is indexed.
- *Snapshot file*: whole at any moment, replaced at once.
- *Paging*: the pages of a session are slices of one list, each element once.
- *Indexed scan*: an answer holds what the query asks for, all of it, and of one
  content of each file.
- *Graphs*: components, layers, cycles and impact are the textbook ones; the
  two directions of the import graph are converse.
- *Callers*: the indexed flow loses no caller and counts no fewer calls than the
  direct one; both find the same callers, counts, kinds and lines where the name
  asked for shares its start with no other captured one.
- *Unused*: no flow lists a name that something refers to.
- *Worker pool*: success means complete, no goroutine is left, the call returns.
- *Outline and findFunc*: a position belongs to the innermost range around it.

## 2. The modules

| module | models | abstract specification |
|---|---|---|
| `IndexStore` | the store as its callers see it: entries, number of postings, state and version, with `Replace`, `Apply`, `SetState` as operators on one record | used by `RepoService`, implemented by `MemoryStore` |
| `IndexStoreSpec` | the transition system over `IndexStore` | |
| `MemoryStore` | `store.go` loop by loop under its lock | |
| `MemoryStoreRefinement` | `MemoryStore` with the history of what is served; refinement mapping | implements `IndexStoreSpec` |
| `RepoService` | `repo.go` around `IndexStore`, over a file system that is edited | |
| `AtomicFile` | a file replaced at once | |
| `SnapshotFile` | `SaveSnapshot` by system call, with failures and crashes | implements `AtomicFile` |
| `Repositories` | the boot loop of `main.go` over `Index`, `drop`, watchers, builds, saves and requests of several indexes; a file is its language | |
| `Pagination` | the paged tools over a changing index | |
| `IndexedScan` | `scan_symbols` filtering shared facts in place | |
| `ImportGraph` | construction and adjacency of the import graph | |
| `Tarjan`, `Topology`, `Impact` | the algorithms of `graph.go` (each EXTENDS the one before) | definitions by reachability |
| `FindFunc`, `Callers` | the innermost function around a position; both flows of mode `callers`, which rest on it | the innermost range, by containment |
| `Outline` | `OutlineFromSymbols`: the sort and the stack of open nodes | the innermost range, by containment |
| `Unused` | both flows of mode `unused` over the same sources | |
| `WorkerPool` | sender, workers, collector, cancellation | |
| `*Proofs` | theorems about the module they are named after; `MemoryStoreProofs` about the refinement as well, `QueriesProofs` about `Tarjan`, `Topology`, `Impact`, `ImportGraph`, `FindFunc`, `Callers`, `Outline` and `Unused` | |
| `MC*` | small data for TLC: graphs, facts, codes, roots; `MCQueries` joins the modules that answer one question each | |

State and actions follow the code's names. The correspondence of every
definition to its lines is `map` in `PROJECT.json`. Definitions marked
"mutant" are plausible mistakes: put in the place of the definition after them,
each makes TLC find a property violated (`mutants` in `PROJECT.json`). A few
choices matter to a reader who compares model and code.

**`RepoService`.** `disk`, `clock` are the file system; `store` is the
repository in the index store; `lock` is its refresh lock; `builder`, `pass`,
`ix`, `query` are the local variables of the goroutines, `ix` those of
`indexPath` on behalf of whoever called it. One action is one system call on
one file (`LoadStat`, `LoadDigest`, `IxStat`, `IxDigest`, `IxParse`, `IxRestat`,
`DiffStat`), one critical section (`BuildReplace`, `RefreshApply`, `QueryApply`,
`RefreshLock`), or a copy made outside of it (`BuildCapture` and `BuildSave` are
separate because `saveSnapshot` copies the entries before it queues for
`snapshotMu`). Digests are the content they were computed from, so hash
collisions are left out; all contents have one size, so a size never helps; an
edit always takes a new modification time, so two edits inside one clock tick
are left out, as the code leaves them out when it trusts the time. An error of
`IndexDir` or `ListFiles` itself, as opposed to one of a file, is left out: both
return one only for a cancelled context (`symbols.go:150-235`), `build` and
`diff` pass one that is never cancelled, and a file whose walk fails is skipped.

**`Repositories`.** One action is one operation on a `sync.Map` or one critical
section of the store's lock, so that `drop` is five steps and `saveSnapshot`
three. `indexer` is the boot loop with the locals of `Index`; `proc` has the
goroutines: the watcher, the refresh after a restore and the build of every
identifier. What `RepoService` follows file by file is here the set of the
languages whose files an index holds, because languages are what a second
`Index` of a root, an older snapshot and a dropped index's save can disagree
on. `diff` finds work when that set is not the one asked for, or when files
were edited (`MaxEdits` times). One build of an index runs at a time, where
`RepoService` has two; a tick looks up the index and its languages in one step.
`LoadSnapshot` reads what any earlier process may have saved (`Earlier`).
`request` is one request at a time, which is enough because requests only read.
`ResolveIndex` visits the map of roots one by one in any order (`Visit`), keeps
the longest root that covers the path (`Better`), and only then reads the state
of its index (`FirstLookup`); `find_usages` goes through all of that twice
(`SecondLookup`), with whatever is built, applied or saved in between.

**`MemoryStore`.** `Replace` and `Apply` set `job` at their first step and clear
it at `Publish`; in between each loop iteration is a step, in any order where
Go ranges over a map. The state with `job.op = "none"` is what readers see.
The interned name of a caller (`u.Caller`) and the rows of references beyond
their number are left out. Identifiers of files are interned once, as in the
code, and not given up by a deletion. `sort.Slice` is any rearrangement that
its comparison allows (`SortComplexity`), since it is not a stable sort.

**`MemoryStoreRefinement`.** The served state changes at `Publish`; the history
variables `call` and `served` record the call in progress and what it
publishes, and the mapping gives `IndexStoreSpec` its record. The number of
postings of a path is what is compared.

**`Pagination`.** A list is its length and a page the positions cut from it;
`generation` identifies a list, and `life` a process, for the properties; neither
is in the code.

**`IndexedScan`.** The facts of a file are one object per publication; a group
is its backing array and a length, so that `pruneGroups` compacts over shared
memory, as it does. `limitFiles` runs after the answer is complete and is left
out. A race on a Go map is either noticed, which ends the process (`Restart`),
or its writes take effect in some order.

**`Impact`.** `tool` says which question is asked. The handlers of
`repo_cycles` and `repo_topology` share their start, Tarjan's components, and
are taken together; nothing is shared between questions but the graph. A layer
of Kahn's algorithm is one step.

**`ImportGraph`.** What a specifier resolves to is an input.

**`Callers`.** What the queries capture of a file is the input: its functions and
other symbols, its calls, its identifiers, and the starts of declared names. The
direct flow walks the calls and compares the text of the callee with the target
(`VisitCall`). The index walks the captured identifiers (`AddUsage`): one that
starts where a callee inside a function starts, and where no name is declared,
is a call-site under its own text. Callees are among the identifiers, as the
queries of every language have it (`CalleesAreCaptured`); other identifiers may
start at the same place, as `Foo` does in Rust's `Foo::new()`, where the callee
is `Foo::new` (`rust.go:49-53`), or `f().g` at Python's `f` (`python.go:43-46`).
`FindFunc` is where the function around a position is found. The resolution tag
of an edge is left out.

**`Outline`.** A position is one number, as rows and columns are only compared.
Ranges of syntax nodes are nested or disjoint; one node may be captured by two
queries, by one once per name (`a, b := f()`), or twice with one name
(`_, _ := f()`). A symbol has the kind and the name the sort compares
(`Sorts`); of two that are alike in both, `copy` is the place the sort leaves
them in, which it may choose. The sort and the loop over its result are one: the
loop takes the symbol that precedes all the others it has not met.

**`Unused`.** A source is a sequence of words with the role they play; the bytes
of one name may lie inside another (`Inside`), which is what tells counting
bytes from counting identifiers. A file may vanish at any moment (`Vanish`).

**`MCQueries`.** A behaviour answers one of the questions of these modules while
the others are about nothing, so that one run covers them all; `question` says
which.

## 3. The runs

Every passing run is exhaustive for its bounds.

| run | question | bounds, and why they are enough |
|---|---|---|
| `repo_quiet` | no interleaving of builds, passes, queries, crashes and saves leaves an entry that looks current and is not, in the index or the snapshot; a query answers with what its file held since it was asked; `indexPath` never joins the facts of one content to the time of another | two builds at once, one query, both verdicts of the memory limit. Two paths and two edits while the server stays up, so that passes and rebuilds meet and the threshold between them is passed or not; for one path two contents and, together, three edits and crashes: one edit makes `indexPath` run and one falls into each of its two attempts (`Bounded` in `MCRepoService`). No edit falls inside a build (`QuietBuilds`): `repo_mixed_entry` shows why the properties need it |
| `repo_live` | as long as no file is edited inside a build (`QuietBuilds`; `repo_mixed_entry` never converges without it), the watcher brings the index to the disk after the last edit, through a crash and a restore; and the index is never unready for good | two files, so that one may fail or vanish beside the other; two edits of either, or three of one (`BoundedLive`), which is what it takes for a pass to find a file changed and both attempts of `indexPath` to meet an edit, so that it is unstable and left to a later tick; one crash, two builds at once. `RebuildShare` is 1 and the floor 1: one changed file is refreshed and two rebuild, so that the share of the files and not the floor decides, where the other runs of `RepoService` have the code's 5 |
| `memory_store` | tables, postings, inverse, canonical identities and ranking agree at every step; the store behind its lock is the atomic one | two paths, two names, two facts that share a name, three calls: build, change and change back, every order of the loops. A step of the abstract store depends on the one before it only |
| `worker_pool` | success is complete, nobody outlives, the call returns | three workers and four entries: more entries than workers and than the channel's room, and a cancellation at any point |
| `snapshot_file` | the file is whole and replaced at once | one server, four saves, files of two parts, a failure or crash at any system call |
| `pages` | within one life of the server all pages of a session but its last are of one list; a session finished over one list showed it exactly | lists of up to four elements, pages of one or two, three publications at any moment of a call, one restart. A mixed page needs two publications and a third list to differ from both |
| `scans` | a scan that runs alone answers nothing that does not match; what is answered for a file is of one content | two scans beside refreshes, saves and restarts, one path, three filters (name, kind, all three), two objects: the second publication is the one a scan must not see through the first |
| `lifecycle` | no two refreshes of an index together, although `drop` deletes its lock; files of the right languages only; between calls of `Index` registrations and indexes match; the innermost root answers, whatever order the map of roots is visited in; a dropped index goes quiet; what is registered comes to serve | three command lines: one root twice with other languages, watched; one root alone, with requests; a root inside another, unwatched, with requests. Two indexes of one root are what it takes for a goroutine of the first to meet the second; two languages, one asked for first and both then; any snapshot of an earlier process; one refresh that finds edits beside those that find missing files |
| `queries` | components, cycles, layers and impact are the textbook ones; the import graph is converse on files and closed; the indexed flow of callers loses none of the direct one, and they agree where the name shares its start with no other; a call is its innermost function's; a symbol is under its innermost symbol; nothing that is referred to is unused | all 4096 graphs of four nodes without loops and all 512 of three with them: two components of two, a cross edge, a diamond; searches of depth 0, 1 and 2 from one node, as all graphs are there; pages that start before, inside and beyond what is found. Three files and two specifiers in one directory, where a specifier means one file. Two functions and two calls in one file in every arrangement, nested, apart or on one line, the first call plain, with another identifier at its start, or at a declaration, beside a plain file. Up to four symbols of nested or disjoint ranges on four positions, of two kinds and two names, two of them alike: shared starts, shared ends and equal ranges. Two files of up to two words and one, one name inside another |

### Where code and promise disagree

Three runs check what the documentation or a comment says, and TLC finds the
code violating it. `findings` in `PROJECT.json` quotes the lines.

| run | what happens |
|---|---|
| `repo_mixed_entry` | a file edited between the parse of a build and its hash is published with old facts under the new digest; no later diff repairs it, and the snapshot keeps it |
| `scan_twice` | what one filtered scan leaves out is gone from the index, and from the snapshot |
| `lookup_twice` | `find_usages` looks the index up, and the method it calls looks it up again; when it stops being ready in between (a rebuild, the memory limit), the second "not covered" is dropped: callers and definitions answer an empty list as if indexed, unused and occurrences read through a nil result |

Other disagreements were met while modelling. The models do what the code
does in each of them; the properties are stated so that they hold beside them
and say so where they do.

| code | what happens |
|---|---|
| `repo.go:585` | a touched file with an unchanged digest keeps its old time in the index, so every tick publishes an empty change set and invalidates all cursors (`repo_test.go:543`: one edit, one bump) |
| `store.go:330` | a listed file that cannot be read is "added" although indexed (`repo.go:636`), and its occurrences are listed twice; hence `>=` in `ServesTheirPostings` |
| `repo.go:489` | the state is read before the refresh lock is taken and the rebuild outlives the lock: a pass may run beside a rebuild |
| `repo.go:511` | below 2500 files a delta of a fifth does not rebuild, where `README.md:181` says it does |
| `store.go:292` | `Replace` leaves the complexity list in file order and `Apply` sorts it; the top N after a build are the first N |
| `store.go:295` | `Replace` does not count the interned names against the memory limit and `Apply` does |
| `snapshot.go:43` | two servers with one cache directory share a temporary name and may install a torn file; `SnapshotFile` has the behaviour when `Servers` has two elements |
| `repo.go:693` | a publication between the version and the list gives a page of the new list to an old cursor; hence "but its last" in `OnlyLastPageMayMix` |
| `store.go:211` | versions start again with the process; a cursor of an earlier one is accepted once the counter is back |
| `tools.go:448` | with an index, mode occurrences ignores `kinds` and leaves out imports, where `find.go` does neither; every indexed mode answers for the whole repository whatever directory `path` names, and ignores `languages` |
| `repo.go:439` | a save that reads the files of an index before `drop` and its languages after it labels a part of the files with all languages; only a caller that passes languages can meet it, and `main.go` passes none |
| `repo.go:81` | a refresh that read its `Info` before `drop` stores a new lock for the dropped identifier, which nothing removes |
| `search.go:82` | a file that was parsed and can no longer be read when its bytes are counted is skipped, so that what only it refers to is listed as unused, where `search.go:30` says never; hence `missed = {}` in `UnusedIsUnreferenced` |
| `find.go:185` | with languages named, unused counts each language by itself: a name another language refers to is listed |
| `tools.go:201` | `repo_impact` reports a stale cursor as a path outside any repository |
| `graph.go:204` | depth 0 is unbounded, where the comment says direct only; see `ImpactIsExact` |
| `calls.go:239` | of two functions that start on one line the first listed wins; see `CallsAreOfTheInnermost` |
| `repo.go:984` | two scans compact one array, and one may answer names it did not ask for; hence "alone" in `AnswerMatchesQuery` |
| `graph.go:482` | a name answered forward ("import:" and the specifier) is not the one reverse is keyed by; see `FilesAreConverse` |
| `usages.go:91` | every identifier that starts where a callee starts is a call-site: with an index, mode callers lists for `Foo` who calls `Foo::new` (Rust) and for `f().g` who calls `f` (Python), and the call graph has those edges; the direct flow does neither, where `repo.go:857` says the two match. A callee that starts at a declared name is a definition and no call-site. See `FlowsCountAlike` |
| `repo.go:868` | a caller takes the kind and line of any symbol of its file that has its name; see `PlainCallersMatch` |

## 4. Fairness and stopping

- `RepoService` (`FairSpec`): weak fairness for every build goroutine, for the
  start of a refresh (the ticker fires again and again; the refresh of a restore
  is started once), for a refresh with its `indexPath`, and for the `indexPath`
  of a query. The steps are system calls and critical sections of a runnable
  goroutine, and `Rest` returns the watcher to its ticker whatever the refresh
  answered. Edits, crashes and requests carry no fairness; a boot does not
  either, so convergence is promised only while the server is up (`up => ...`).
- `Repositories` (`FairSpec`): weak fairness for the boot loop, which nothing
  blocks, and for each goroutine: a step of it is an operation on a map or a
  critical section, a refresh that finds its lock taken returns (`TryLock`), and
  the ticker fires again. None for requests and none for edits, which are
  choices of a diff. Where no watcher runs and a snapshot is restored, the one
  refresh after the restore is what brings the index up to date.
- `WorkerPool` (`FairSpec`): weak fairness for the caller and each worker, which
  the Go scheduler gives to a goroutine that can run. None for cancellation.
- The other specifications carry no fairness and no liveness property.

Deadlock is checked in the runs of `RepoService` and `IndexedScan`. It is not in
the others, whose behaviours end: the bounded number of calls, saves or
publications is used up, the one call or computation is finished, or, in
`lifecycle` without a watcher, nobody is left to do anything.

## 5. The proofs

Each proof module shows `Spec => []Inv` from an inductive invariant: the
initial states have it, every action keeps it, and it implies the property.
The assumptions are the named `ASSUME`s of the modules, which only give the
constants their types, and say that files, nodes and the like are finitely many. TLC checked each inductive invariant, or its parts,
before it was proved.

- **`RepoServiceProofs`** (`TypesHold`, `IndexPathConsistent`,
  `EntriesThatLookCurrentAre`, `AnswersAreFresh`), for any files, contents,
  passes, requests and bounds. The argument is about time: an edit of a content
  takes a modification time later than any that was read (`Forward`), so a map
  of entries that was sound stays sound, since the edited file no longer looks
  current in it. `Sounds` says so of every map a builder, a pass, the store or
  the snapshot holds; `Timed` of what an `indexPath` has read so far: it is what
  the file held as long as the file's time has not moved, which is what its
  second stat asks. `QuerySound` adds the contents a request has seen. Types and
  `IndexPathIsConsistent` hold whatever is edited; the other two take
  `QuietBuilds`, that no file is edited inside a full build, as their stated
  assumption: without it `repo_mixed_entry` is the counterexample.
- **`RepositoriesProofs`** (`TypesHold`, `IndexesAreReachable`, `OneRefresh`,
  `InnermostAnswers`, `LanguagesFit`), for any roots, languages and command
  lines. `Placing` says where an identifier is at every point of `Index` and
  `drop`: held, registered, both or neither. With it a dropped identifier is
  never held again, so a lock `drop` deleted can only be replaced for an
  identifier nobody holds (`OneRefresh`). `Searching` is the invariant of the
  loop over the roots: the best so far covers the path and no root visited that
  covers it is longer; roots do not change while requests are served, so that
  with none left it is the innermost (`InnermostAnswers`). What a goroutine of a dropped index
  saves is still of the languages it read the label of (`LanguagesFit`).
- **`QueriesProofs`**, about the algorithms of the queries, for any input:
  - components and cycles (`TarjanFindsTheComponents`, `CyclesAreNamed`):
    `TInv` says that the stack is in the order in which its nodes were met, that
    what was met under a call is reached from its node, that a pending node
    leads to the node of a call begun before it was met, and that `low` bounds
    the edges to pending nodes of all that was met under a call. So a call that
    ends with `low` = `index` pops the nodes it leads to and is reached from, and
    no edge leaves them but to components found before. A cycle is a component
    of several nodes or of one with a loop, as what a node leads to, it leads to
    through one of its edges;
  - layers (`LayersAreTopological`): `KInv` gives the counter of a component the
    number of its predecessors without a layer and the queue those that have
    none left. A component is found after all it leads to (`EdgesLeadBack`), so
    among those without a layer the one found last is free (`SomeIsFree`): the
    queue runs dry only when all are placed;
  - impact (`ImpactFindsTheDependants`): `BInv` says that the nodes seen within
    a distance the search is through are the ball of that radius, that what is
    seen and not in the level has no neighbour unseen, and that no distance is
    without a node, so that the search ends within as many levels as there are
    nodes. The places of a finite order are taken once (`PlacesAreTakenOnce`),
    which makes the sort a list of the dependants and a page a window of it;
  - the import graph (`EdgesAreFiledTwice`, `ConverseOnFiles`,
    `GraphIsClosed`): every edge is filed under its file and under what it
    leads to, and with an edge to a file comes the edge to its specifier;
  - unused (`NothingReferencedIsUnused`): the count of a declared name is the
    number of its occurrences in the files counted so far, and the postings of a
    name are among its occurrences;
  - the outline (`OutlineIsByContainment`): the open nodes are a chain, each
    around the ones before it, and whatever is around a symbol the loop has not
    met is still open (`OInv`), so that the first open node that holds a symbol
    is the innermost around it. Symbols with one range are around each other in
    the order of the sort, which `Sorts` makes a strict one;
  - `findFunc` (`CallsBelongToTheInnermost`): after each turn of the loop the
    best function holds the position and none met so far that does starts on a
    later line; ranges that hold one position are not apart, so the one that
    starts last is inside the others;
  - callers (`BothFlowsCountAlike`, `PlainCallersAreDressedAlike`): `CInv` gives
    every caller of the walk the number of the calls met so far that are its
    own, and every edge of the graph that of its call-sites. When both flows are
    done, each call of the target has the call-site its callee is captured as,
    and no two have one (`SitesOfCalls`); that no other callee starts where the
    target is captured makes it a bijection. A limit cuts both flows in one
    place because it orders callers by what both know.
- **`IndexedScanProofs`** (`OneContentAnswered`, `LoneScanAnswersItsQuery`), for
  any number of scans, files and contents: an object of the index keeps the
  content it is of, and every write into its arrays moves a name the array
  already holds, so that scans that disturb each other still answer names of
  one content. The second needs to know what a scan that runs alone has done so
  far (`AloneInv`): the groups it is through fit its query, and the part of an
  array it has compacted has only names that were asked for. Publications, saves
  and restarts leave that alone, because they add objects and never change one.
- **`PaginationProofs`** (`TypesHold`, `PagesAreOfOneList`, `NothingIsSkipped`),
  for any lengths, limits and number of clients: the pages a session has taken
  in one life of the server are of the list its cursor's version stands for, but
  for one whose version is already another (`OfOneList`), and they follow each
  other without a gap (`InOrder`). That versions only grow within a life makes
  an old cursor fail.
- **`MemoryStoreProofs`** (`InvariantHolds`, `TypeCorrect`,
  `InterningBijective`, `InverseExact`, `PostingsNamed`, `WorkIsAtHand`,
  `ComplexityIsExact`, `CanonicalIsOfTheSoleDeclaration`), for any files, names, facts, bounds and any order of the loops. `IndInv` joins
  the five invariants because none is inductive alone: removing a file is exact
  only if the inverse is; the inverse stays exact under an insertion only if
  the identifier it is filed under is the file being inserted (`JobAtHand`)
  and the name's identifier is a new or a matching one (the bijection); and
  canonical keys are interned in the same table as names, so that postings stay
  under names only because the bijection keeps the two apart. On top of it,
  `ComplexityInv` says that but for the file at hand every indexed file is listed,
  and `CanonicalInv` that the identities given so far are those of the names
  the last loop is through.
- The refinement, in the same module (`StoreImplementsAtomicCalls`,
  `PostingsAreServed`): every step of the loops is a stutter of
  `IndexStoreSpec`, and `Publish` is one call of it. `Serving`, its invariant,
  says what `Publish` finds: of every path, either what was served when the call
  came or what the abstract call makes of it (`Underway`). It counts
  postings, so it takes the occurrences of one file to be distinct
  (`OccurrencesAreDistinct`), which places in a file are; `RefinementAssumption`
  keeps the marks for "no facts" and "no call" apart from facts and calls.
- **`WorkerPoolProofs`** (`PoolInvariant`, `PoolTypeCorrect`,
  `SuccessComplete`, `NoWorkerLeft`), for any number of workers and entries.
  `PoolInv` accounts for every task: sent ones are in the channel, in the hands
  of one worker, in the results channel or collected, and a worker that left
  without an error had seen the channel closed and empty. Without that account
  the collector's end says nothing about the tasks.
- **`SnapshotFileProofs`** (`OneServerWritesWhole`,
  `OneServerSavesAtomically`), for any number of saves, failures, crashes and
  parts, under the assumption `OneServer` that the cache directory has one
  writer; with two the shared temporary name breaks it. `FileInv` ties the
  temporary file to the place of the save in `SaveSnapshot`. The second theorem
  is the refinement of `AtomicFile`: every step replaces the file at once or
  leaves it.

What a recursive definition computes is proved without induction over an
operator, which the provers cannot instantiate: a set of natural numbers has a
least element (`LeastNatural`, from the well-foundedness of finite sets), so the
first turn of a loop that could go wrong is taken, and the turn before it
shows that it does not.

Only model-checked: liveness (`EventuallyConverges`, `ServesAgain`,
`DroppedGoQuiet`, `LastIndexServes`, `CallReturns`), which is out of the prover's
reach. Every safety property of the passing runs is a theorem.

## 6. What is not modelled

- *Parsing, queries, languages, registry*: the facts of a file are an input.
- *Metrics and rank; direct usages, definitions and imports*: one sequential
  pass over parse results, with no state to keep in step.
- *Tool handlers*: the checks of arguments and the shape of answers. `get_text`
  takes negative rows and columns as they come (`gettext.go`), which has no
  state to model.
- *The definitions query* of `RepoService`: it lists stored facts.
- *`SetCache`*: two fields that only `index_status` shows.
- *`Index` called at the same moment twice for one root*: `main.go` calls it in
  sequence, and nothing else does. Two calls at once could register one index
  and leave the other held and unregistered.
- *Several requests at once, beside each other*: they only read, but for
  `freshFacts`, which is in `RepoService`.
- *Overflow*: the offset of a forged cursor; identifiers of 32 bits. Versions
  wrap at `VersionWidth` in `IndexStore`.

## 7. The plan

Done, in this order: `IndexStore` and `RepoService` (the core), `MemoryStore`
and its refinement, `WorkerPool`, `SnapshotFile`, `Pagination`, the graphs,
`IndexedScan`, `Callers`, `Repositories`, `Outline`, `Unused`; proofs for all of
them.

To extend the model:

1. the definitions query and `findUsages` with `freshFacts` for several files;
2. concurrent calls of `Index`, should a tool ever offer it;
3. the direct flows of occurrences and imports beside the indexed ones.
