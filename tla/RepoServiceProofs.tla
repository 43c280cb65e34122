-------------------------- MODULE RepoServiceProofs --------------------------
(***************************************************************************)
(* Proofs about RepoService, for any paths, contents, refresh passes,      *)
(* requests and bounds.  The inductive invariant IInv is                   *)
(*   Typed       types, with what each label knows of its locals;          *)
(*   Timed       no file is newer than the clock, and what an indexPath    *)
(*               has read is what its file held as long as the file's      *)
(*               modification time has not moved;                          *)
(*   Sounds      every map of entries a builder, a pass, the store or the  *)
(*               snapshot holds is sound: an entry diff would take for     *)
(*               current has the facts of the file;                        *)
(*   QuerySound  a request has seen every content its file has had.        *)
(* An edit of a content takes a modification time later than any that was  *)
(* read (see Forward), so it can only make entries look old.  The first   *)
(* two parts hold whatever happens; Sounds needs QuietBuilds, because      *)
(* nothing checks the files of a full build a second time.                 *)
(***************************************************************************)
EXTENDS RepoService, WellFoundedInduction, TLAPS

-----------------------------------------------------------------------------
(* The types.                                                              *)

\* What an indexPath at its label knows.
Begun(me) ==
  /\ me.pc # "off" => me.path \in Paths
  /\ me.pc \in {"parse", "restat", "ok"} => me.digest \in Facts
  /\ me.pc \in {"restat", "ok"} => me.facts \in Facts

\* What the types of the locals rest on.
Walking ==
  /\ \A b \in Builders : builder[b].pc = "walk" => builder[b].todo # {}
  /\ \A b \in Builders : builder[b].pc = "stat" => builder[b].todo \subseteq PathsIn(builder[b].facts)
  /\ \A b \in Builders : builder[b].pc = "hash" =>
       /\ builder[b].at \in PathsIn(builder[b].facts)
       /\ builder[b].todo \subseteq PathsIn(builder[b].facts)
  /\ \A r \in Refreshers : pass[r].pc = "walk" => pass[r].todo # {}
  /\ \A a \in Refreshers \cup Queries : Begun(ix[a])
  /\ \A q \in Queries : query[q].pc # "idle" => query[q].path \in Paths
  /\ \A q \in Queries : query[q].pc = "hash" => query[q].entry # NoEntry

Typed == TypeOK /\ Walking

-----------------------------------------------------------------------------
(* indexPath, whatever runs beside it.                                     *)

OnTime == \A p \in Paths : Present(p) => disk[p].mtime <= clock

StillAt(me) == Present(me.path) /\ disk[me.path].mtime = me.mtime

\* What an indexPath has read is what its file held when it was statted, as
\* long as the modification time it read has not moved.
SoundAt(me) ==
  /\ me.pc \in {"hash", "parse", "restat", "ok"} => me.mtime <= clock
  /\ me.pc \in {"parse", "restat", "ok"} /\ StillAt(me) => me.digest = disk[me.path].content
  /\ me.pc \in {"restat", "ok"} /\ StillAt(me) => me.facts = disk[me.path].content
  /\ me.pc = "ok" => me.facts = me.digest

IxSound == \A a \in Refreshers \cup Queries : SoundAt(ix[a])

-----------------------------------------------------------------------------
(* The entries, when no file is edited while a build runs.                 *)

\* Every entry is of one content, and one that diff takes for current (its
\* modification time is the file's) is of the file's.
SoundIn(d, now, files) ==
  \A p \in PathsIn(files) :
    /\ files[p].mtime <= now /\ files[p].facts = files[p].digest
    /\ d[p] # Absent /\ d[p].mtime = files[p].mtime => files[p].facts = d[p].content

Sound(files) == SoundIn(disk, clock, files)

\* A build has parsed the files as they still are.
BuilderSound ==
  \A b \in Builders :
    LET me == builder[b]
    IN  /\ \A p \in PathsIn(me.facts) :
             me.pc # "idle" /\ disk[p] # Absent /\ me.facts[p] = disk[p].content
        /\ me.pc = "hash" => me.mtime = disk[me.at].mtime

\* Every map of entries that is published, persisted or still to be.
AllSound ==
  /\ Sound(store.entries) /\ (snapshot # NoEntry => Sound(snapshot))
  /\ \A b \in Builders : Sound(builder[b].files)
  /\ \A r \in Refreshers :
       Sound(pass[r].meta) /\ Sound(pass[r].cs.added) /\ Sound(pass[r].cs.updated)

\* A request has seen every content of its file since it was asked, and what
\* it will answer is one of them.
Seen(me, i) ==
  /\ me.pc # "idle" /\ Present(me.path) => disk[me.path].content \in me.seen
  /\ me.pc = "hash" => me.entry.facts = me.entry.digest
  /\ me.pc = "index" <=> i.pc # "off"
  /\ me.pc = "index" => i.path = me.path
  /\ i.pc \in {"restat", "ok"} => i.facts \in me.seen
  /\ me.pc = "answered" => me.answer \in me.seen

QuerySound == \A q \in Queries : Seen(query[q], ix[q])

-----------------------------------------------------------------------------
(* Constants and operators.                                                *)

Less == {ss \in Nat \X Nat : ss[1] < ss[2]}

\* The walk takes the first path of what is left.
LEMMA FirstIsMember ==
  ASSUME NEW S \in SUBSET Paths, S # {}
  PROVE  FirstOf(S) \in S
<1>1. IsWellFoundedOn(Less, Nat)
  BY NatLessThanWellFounded DEF OpToRel, Less
<1>2. S \subseteq Nat
  BY RepoServiceAssumption
<1>3. PICK x \in S : \A y \in S : ~(<<y, x>> \in Less)
  BY <1>1, <1>2, WFMin
<1>4. ASSUME NEW y \in S
      PROVE  x <= y
  <2>1. x \in Nat /\ y \in Nat
    BY <1>2
  <2>2. ~(y < x)
    BY <1>3, <2>1 DEF Less
  <2> QED
    BY <2>1, <2>2
<1> QED
  BY <1>4 DEF FirstOf

LEMMA IdleIsTyped ==
  /\ NoFiles \in Files /\ NoChange \in ChangeSets /\ EmptyStore \in Stores
  /\ IdleBuilder \in BuilderRecords /\ IdleBuilder.pc = "idle"
  /\ StartedBuilder \in BuilderRecords /\ StartedBuilder.pc = "walk" /\ StartedBuilder.todo # {}
  /\ \A pc \in PassPcs : IdlePass(pc) \in PassRecords /\ IdlePass(pc).pc = pc
  /\ \A r : Rest(r) \in PassRecords /\ Rest(r).pc \in {"idle", "done"}
  /\ IdleIx \in IxRecords /\ IdleIx.pc = "off" /\ Begun(IdleIx)
  /\ IdleQuery \in QueryRecords /\ IdleQuery.pc = "idle"
  /\ \A p \in Paths : /\ StartIx(p) \in IxRecords /\ Begun(StartIx(p))
                      /\ StartIx(p).path = p /\ StartIx(p).pc = "stat"
<1>1. NoFiles \in Files
  BY DEF NoFiles, Files
<1>2. NoChange \in ChangeSets
  BY <1>1 DEF NoChange, ChangeSets
<1>3. EmptyStore \in Stores
  BY <1>1, IndexStoreAssumption DEF EmptyStore, Stores, NoPostings, States
<1>4. IdleBuilder \in BuilderRecords /\ IdleBuilder.pc = "idle"
  BY <1>1 DEF IdleBuilder, BuilderRecords, BuilderPcs, NoFiles, MaybeFacts
<1>5. StartedBuilder \in BuilderRecords /\ StartedBuilder.pc = "walk" /\ StartedBuilder.todo # {}
  BY <1>4, RepoServiceAssumption DEF StartedBuilder, BuilderRecords, BuilderPcs
<1>6. \A pc \in PassPcs : IdlePass(pc) \in PassRecords /\ IdlePass(pc).pc = pc
  BY <1>1, <1>2 DEF IdlePass, PassRecords
<1>7. \A r : Rest(r) \in PassRecords /\ Rest(r).pc \in {"idle", "done"}
  BY <1>6 DEF Rest, PassPcs
<1>8. IdleIx \in IxRecords /\ IdleIx.pc = "off" /\ Begun(IdleIx)
  BY DEF Begun, IdleIx, IxRecords, IxPcs, MaybeFacts
<1>9. IdleQuery \in QueryRecords /\ IdleQuery.pc = "idle"
  BY DEF IdleQuery, QueryRecords, QueryPcs, MaybeFacts
<1>10. ASSUME NEW p \in Paths
       PROVE  /\ StartIx(p) \in IxRecords /\ Begun(StartIx(p))
              /\ StartIx(p).path = p /\ StartIx(p).pc = "stat"
  <2>1. StartIx(p) = [pc |-> "stat", path |-> p, attempt |-> 1, mtime |-> 0,
                      digest |-> NoEntry, facts |-> NoEntry]
    <3>1. StartIx(p) = [[[IdleIx EXCEPT !.pc = "stat"] EXCEPT !.path = p] EXCEPT !.attempt = 1]
      BY DEF StartIx, IdleIx
    <3> QED
      BY <3>1 DEF IdleIx
  <2>2. StartIx(p).pc = "stat" /\ StartIx(p).path = p
    BY <2>1
  <2>3. "stat" \in IxPcs /\ p \in Paths \cup {0} /\ 1 \in 0..2 /\ 0 \in Nat /\ NoEntry \in MaybeFacts
    BY DEF IxPcs, MaybeFacts
  <2>4. StartIx(p) \in IxRecords
    <3> HIDE DEF IxPcs, MaybeFacts
    <3> QED
      BY <2>1, <2>3 DEF IxRecords
  <2> QED
    BY <2>2, <2>4 DEF Begun
<1> QED
  BY <1>1, <1>2, <1>3, <1>4, <1>5, <1>6, <1>7, <1>8, <1>9, <1>10

LEMMA BumpTyped ==
  ASSUME NEW v \in 0..(VersionWidth - 1)
  PROVE  Bump(v) \in 0..(VersionWidth - 1)
BY IndexStoreAssumption DEF Bump

LEMMA ReplaceTyped ==
  ASSUME NEW s \in Stores, NEW files \in Files, NEW errs \in SUBSET Paths, NEW st \in Verdicts
  PROVE  Replace(s, files, errs, st) \in Stores /\ Replace(s, files, errs, st).entries = files
<1>1. Bump(s.version) \in 0..(VersionWidth - 1)
  BY BumpTyped DEF Stores
<1>2. [p \in Paths |-> IF files[p] = NoEntry THEN NoPostings ELSE PostingsOf(files[p].facts)]
        \in [Paths -> [Refs -> Nat]]
  BY DEF NoPostings, PostingsOf
<1>3. st \in States
  BY RepoServiceAssumption DEF States
<1> QED
  BY <1>1, <1>2, <1>3 DEF Replace, Stores

LEMMA ApplyTyped ==
  ASSUME NEW s \in Stores, NEW cs \in ChangeSets, NEW st \in Verdicts
  PROVE  /\ Apply(s, cs, st) \in Stores
         /\ Apply(s, cs, st).entries = [p \in Paths |-> EntryAfter(s.entries[p], p, cs)]
<1>1. Bump(s.version) \in 0..(VersionWidth - 1)
  BY BumpTyped DEF Stores
<1>2. st \in States
  BY RepoServiceAssumption DEF States
<1>3. [p \in Paths |-> EntryAfter(s.entries[p], p, cs)] \in Files
  BY DEF EntryAfter, Files, ChangeSets, Stores
<1>4. ASSUME NEW p \in Paths
      PROVE  PostingsAfter(s.postings[p], p, cs) \in [Refs -> Nat]
  <2>1. \A f : PostingsOf(f) \in [Refs -> Nat]
    BY DEF PostingsOf
  <2>2. NoPostings \in [Refs -> Nat] /\ s.postings[p] \in [Refs -> Nat]
    BY DEF NoPostings, Stores
  <2>3. \A a \in [Refs -> Nat], b \in [Refs -> Nat] : AddPostings(a, b) \in [Refs -> Nat]
    BY DEF AddPostings
  <2> DEFINE kept == IF p \in cs.deleted \cup PathsIn(cs.updated) THEN NoPostings ELSE s.postings[p]
             updated == IF cs.updated[p] = NoEntry THEN kept
                          ELSE AddPostings(kept, PostingsOf(cs.updated[p].facts))
  <2>4. kept \in [Refs -> Nat]
    BY <2>2
  <2>5. updated \in [Refs -> Nat]
    BY <2>1, <2>3, <2>4
  <2>6. PostingsAfter(s.postings[p], p, cs) =
          IF cs.added[p] = NoEntry THEN updated
          ELSE AddPostings(updated, PostingsOf(cs.added[p].facts))
    BY DEF PostingsAfter
  <2> HIDE DEF updated
  <2> QED
    BY <2>1, <2>3, <2>5, <2>6
<1>5. [p \in Paths |-> PostingsAfter(s.postings[p], p, cs)] \in [Paths -> [Refs -> Nat]]
  BY <1>4
<1>6. (s.errors \ (cs.deleted \cup PathsIn(cs.updated) \cup PathsIn(cs.added))) \cup cs.errors
        \in SUBSET Paths
  BY DEF Stores, ChangeSets
<1> QED
  BY <1>1, <1>2, <1>3, <1>5, <1>6 DEF Apply, Stores

-----------------------------------------------------------------------------
(* The types are kept.                                                     *)

LEMMA InitTyped ==
  ASSUME Init
  PROVE  Typed
<1>1. disk \in [Paths -> {Absent} \cup DiskFiles]
  <2>1. ASSUME NEW file \in [mtime: {0}, content: Facts, readable: {TRUE}]
        PROVE  file \in DiskFiles
    <3>1. 0 \in Nat
      OBVIOUS
    <3> QED
      BY <3>1 DEF DiskFiles
  <2>2. disk \in [Paths -> {Absent} \cup [mtime: {0}, content: Facts, readable: {TRUE}]]
    BY DEF Init
  <2> HIDE DEF DiskFiles
  <2> QED
    BY <2>1, <2>2
<1>2. crashes \in 0..MaxCrashes /\ clock \in 0..MaxEdits
  BY RepoServiceAssumption DEF Init
<1>3. \A r \in Refreshers : pass[r] \in PassRecords /\ pass[r].pc = "done"
  BY IdleIsTyped DEF Init, PassPcs
<1>4. TypeOK
  BY <1>1, <1>2, <1>3, IdleIsTyped DEF Init, TypeOK
<1>5. Walking
  BY <1>3, IdleIsTyped DEF Init, Walking
<1> QED
  BY <1>4, <1>5 DEF Typed

LEMMA EditTyped ==
  ASSUME Typed, NEW p \in Paths, Edit(p)
  PROVE  Typed'
<1> USE DEF Typed
<1>1. /\ UNCHANGED <<up, crashes, snapshot, store, lock, builder, pass, ix>>
      /\ clock' = clock + 1 /\ clock < MaxEdits
  BY DEF Edit, Write, Delete, Chmod, MayEdit, service
<1>2. clock' \in 0..MaxEdits
  BY <1>1, RepoServiceAssumption DEF TypeOK
<1>3. disk' \in [Paths -> {Absent} \cup DiskFiles]
  <2>1. CASE Chmod(p)
    <3>1. disk[p] \in DiskFiles
      BY <2>1 DEF Chmod, Present, TypeOK
    <3>2. [disk[p] EXCEPT !.readable = ~@] \in DiskFiles
      BY <3>1 DEF DiskFiles
    <3>3. disk' = [disk EXCEPT ![p] = [disk[p] EXCEPT !.readable = ~@]]
      BY <2>1 DEF Chmod
    <3> QED
      BY <3>2, <3>3 DEF TypeOK
  <2>2. CASE Delete(p)
    BY <2>2 DEF Delete, TypeOK
  <2>3. ASSUME NEW c \in Facts, Write(p, c)
        PROVE  disk' \in [Paths -> {Absent} \cup DiskFiles]
    BY <1>1, <1>2, <2>3 DEF Write, TypeOK, DiskFiles
  <2> QED
    BY <2>1, <2>2, <2>3 DEF Edit
<1>4. /\ query' \in [Queries -> QueryRecords]
      /\ \A q \in Queries : /\ query'[q].pc = query[q].pc /\ query'[q].path = query[q].path
                            /\ query'[q].entry = query[q].entry
  <2>1. CASE UNCHANGED query
    BY <2>1 DEF TypeOK
  <2>2. ASSUME NEW c \in Facts, Witnessed(p, c), NEW q \in Queries
        PROVE  /\ query'[q] \in QueryRecords
               /\ query'[q].pc = query[q].pc /\ query'[q].path = query[q].path
               /\ query'[q].entry = query[q].entry
    <3>1. query[q] \in QueryRecords
      BY DEF TypeOK
    <3>2. query'[q] = query[q] \/ query'[q] = [query[q] EXCEPT !.seen = @ \cup {c}]
      BY <2>2 DEF Witnessed
    <3>3. [query[q] EXCEPT !.seen = @ \cup {c}] \in QueryRecords
      BY <3>1 DEF QueryRecords
    <3> QED
      BY <3>1, <3>2, <3>3 DEF QueryRecords
  <2>3. ASSUME NEW c \in Facts, Write(p, c)
        PROVE  <1>4!1 /\ <1>4!2
    <3>1. Witnessed(p, c)
      BY <2>3 DEF Write
    <3>2. query' \in [Queries -> QueryRecords]
      BY <2>2, <3>1 DEF Witnessed
    <3> QED
      BY <2>2, <3>1, <3>2
  <2>4. Delete(p) \/ Chmod(p) => UNCHANGED query
    BY DEF Delete, Chmod, service
  <2> QED
    BY <2>1, <2>3, <2>4 DEF Edit
<1>5. TypeOK'
  BY <1>1, <1>2, <1>3, <1>4 DEF TypeOK
<1>6. Walking'
  BY <1>1, <1>4 DEF Walking
<1> QED
  BY <1>5, <1>6

LEMMA BootTyped ==
  ASSUME Typed, Boot
  PROVE  Typed'
<1> USE DEF Typed
<1>1. UNCHANGED <<crashes, clock, disk, snapshot, ix, query>> /\ up' = TRUE /\ lock' = NoEntry
  BY DEF Boot
<1>2. /\ store' \in Stores /\ pass' \in [Refreshers -> PassRecords]
      /\ \A r \in Refreshers : pass'[r].pc # "walk"
  <2>1. CASE snapshot # NoEntry
    <3>1. PICK st \in Verdicts : store' = Replace(EmptyStore, snapshot, {}, st)
      BY <2>1 DEF Boot
    <3>2. pass' = [r \in Refreshers |-> IdlePass(IF r = Watch THEN "idle" ELSE "start")]
      BY <2>1 DEF Boot
    <3> QED
      BY <2>1, <3>1, <3>2, IdleIsTyped, ReplaceTyped DEF TypeOK, PassPcs
  <2>2. CASE snapshot = NoEntry
    BY <2>2, IdleIsTyped DEF Boot
  <2> QED
    BY <2>1, <2>2
<1>3. /\ builder' \in [Builders -> BuilderRecords]
      /\ \A b \in Builders : builder'[b] = builder[b] \/ builder'[b] = StartedBuilder
  BY IdleIsTyped DEF Boot, TypeOK
<1>4. TypeOK'
  BY <1>1, <1>2, <1>3 DEF TypeOK
<1>5. Walking'
  BY <1>1, <1>2, <1>3, IdleIsTyped DEF Walking
<1> QED
  BY <1>4, <1>5

LEMMA CrashTyped ==
  ASSUME Typed, Crash
  PROVE  Typed'
<1> USE DEF Typed
<1>1. UNCHANGED <<clock, disk, snapshot>> /\ up' = FALSE /\ crashes' \in 0..MaxCrashes
  BY RepoServiceAssumption DEF Crash, TypeOK
<1>2. "done" \in PassPcs
  BY DEF PassPcs
<1>3. TypeOK'
  BY <1>1, <1>2, IdleIsTyped DEF Crash, NothingRunning, TypeOK
<1>4. Walking'
  BY <1>2, IdleIsTyped DEF Crash, NothingRunning, Walking
<1> QED
  BY <1>3, <1>4

LEMMA BuilderStepTyped ==
  ASSUME Typed, NEW b \in Builders, NEW rec \in BuilderRecords, BuilderStep(b, rec),
         rec.pc = "walk" => rec.todo # {},
         rec.pc \in {"stat", "hash"} => rec.todo \subseteq PathsIn(rec.facts),
         rec.pc = "hash" => rec.at \in PathsIn(rec.facts),
         store' \in Stores, snapshot' \in Files \cup {NoEntry}
  PROVE  Typed'
<1>1. TypeOK'
  BY DEF BuilderStep, Typed, TypeOK
<1>2. \A c \in Builders : builder'[c] = IF c = b THEN rec ELSE builder[c]
  BY DEF BuilderStep, Typed, TypeOK
<1>3. UNCHANGED <<pass, ix, query>>
  BY DEF BuilderStep
<1>4. Walking'
  BY <1>2, <1>3 DEF Typed, Walking
<1> QED
  BY <1>1, <1>4 DEF Typed

LEMMA BuildTyped ==
  ASSUME Typed, NEW b \in Builders, Build(b)
  PROVE  Typed'
<1> DEFINE me == builder[b]
<1>0. /\ me \in BuilderRecords /\ store \in Stores /\ snapshot \in Files \cup {NoEntry}
      /\ disk \in [Paths -> {Absent} \cup DiskFiles]
      /\ me.pc = "walk" => me.todo # {}
      /\ me.pc \in {"stat", "hash"} => me.todo \subseteq PathsIn(me.facts)
      /\ me.pc = "hash" => me.at \in PathsIn(me.facts)
  BY DEF Typed, TypeOK, Walking
<1>a. {"idle", "walk", "parse", "stat", "hash", "capture", "save"} = BuilderPcs
  BY DEF BuilderPcs
<1>1. CASE BuildWalk(b)
  <2> DEFINE p == FirstOf(me.todo)
             found == IF Present(p) THEN me.listed \cup {p} ELSE me.listed
             last == [[[me EXCEPT !.pc = "parse"] EXCEPT !.todo = found] EXCEPT !.listed = found]
             next == [[me EXCEPT !.todo = @ \ {p}] EXCEPT !.listed = found]
  <2>1. me.pc = "walk" /\ UNCHANGED <<store, snapshot>>
    BY <1>1 DEF BuildWalk
  <2>2. me.todo \in SUBSET Paths /\ me.listed \in SUBSET Paths
    BY <1>0 DEF BuilderRecords
  <2>3. p \in me.todo
    <3>1. me.todo # {}
      BY <1>0, <2>1
    <3> QED
      BY <2>2, <3>1, FirstIsMember
  <2>4. found \in SUBSET Paths
    BY <2>2, <2>3
  <2>5. CASE me.todo = {p}
    <3>1. BuilderStep(b, last)
      BY <1>1, <2>5 DEF BuildWalk
    <3>2. last \in BuilderRecords /\ last.pc = "parse"
      BY <1>0, <1>a, <2>4 DEF BuilderRecords
    <3> HIDE DEF last
    <3> QED
      BY <1>0, <2>1, <3>1, <3>2, BuilderStepTyped
  <2>6. CASE me.todo # {p}
    <3>1. BuilderStep(b, next)
      BY <1>1, <2>6 DEF BuildWalk
    <3>2. next \in BuilderRecords /\ next.pc = "walk" /\ next.todo # {}
      BY <1>0, <2>1, <2>2, <2>3, <2>4, <2>6 DEF BuilderRecords
    <3> HIDE DEF next
    <3> QED
      BY <1>0, <2>1, <3>1, <3>2, BuilderStepTyped
  <2> QED
    BY <2>5, <2>6
<1>2. ASSUME NEW p \in Paths, BuildParse(b, p)
      PROVE  Typed'
  <2> DEFINE facts == IF Readable(p) THEN [me.facts EXCEPT ![p] = disk[p].content] ELSE me.facts
             errs == IF Readable(p) THEN me.errs ELSE me.errs \cup {p}
             rec == [[[me EXCEPT !.todo = @ \ {p}] EXCEPT !.facts = facts] EXCEPT !.errs = errs]
  <2>1. facts \in [Paths -> MaybeFacts] /\ errs \in SUBSET Paths
    BY <1>0 DEF BuilderRecords, Readable, Present, DiskFiles, MaybeFacts
  <2>2. BuilderStep(b, rec) /\ me.pc = "parse" /\ UNCHANGED <<store, snapshot>>
    BY <1>0, <1>2 DEF BuildParse, BuilderRecords
  <2>3. rec \in BuilderRecords /\ rec.pc = "parse"
    BY <1>0, <2>1, <2>2 DEF BuilderRecords
  <2> HIDE DEF rec
  <2> QED
    BY <1>0, <2>2, <2>3, BuilderStepTyped
<1>3. CASE BuildParsed(b)
  <2> DEFINE rec == [[[me EXCEPT !.pc = "stat"] EXCEPT !.todo = PathsIn(me.facts)] EXCEPT !.listed = {}]
  <2>1. BuilderStep(b, rec) /\ UNCHANGED <<store, snapshot>>
    BY <1>3 DEF BuildParsed
  <2>2. rec \in BuilderRecords /\ rec.pc = "stat" /\ rec.todo \subseteq PathsIn(rec.facts)
    BY <1>0, <1>a DEF BuilderRecords, PathsIn
  <2> HIDE DEF rec
  <2> QED
    BY <1>0, <2>1, <2>2, BuilderStepTyped
<1>4. ASSUME NEW p \in Paths, LoadStat(b, p)
      PROVE  Typed'
  <2> DEFINE hash == [[[me EXCEPT !.pc = "hash"] EXCEPT !.at = p] EXCEPT !.mtime = disk[p].mtime]
             gone == [[me EXCEPT !.todo = @ \ {p}] EXCEPT !.errs = @ \cup {p}]
  <2>1. me.pc = "stat" /\ UNCHANGED <<store, snapshot>>
    BY <1>4 DEF LoadStat
  <2>2. CASE Present(p)
    <3>1. BuilderStep(b, hash)
      BY <1>4, <2>2 DEF LoadStat
    <3>2. hash \in BuilderRecords /\ hash.pc = "hash" /\ hash.at = p
          /\ hash.todo = me.todo /\ hash.facts = me.facts
      BY <1>0, <1>a, <2>2 DEF BuilderRecords, Present, DiskFiles
    <3>3. p \in me.todo
      BY <1>4 DEF LoadStat
    <3> HIDE DEF hash
    <3> QED
      BY <1>0, <2>1, <3>1, <3>2, <3>3, BuilderStepTyped
  <2>3. CASE ~Present(p)
    <3>1. BuilderStep(b, gone)
      BY <1>4, <2>3 DEF LoadStat
    <3>2. gone \in BuilderRecords /\ gone.pc = "stat"
          /\ gone.todo \subseteq me.todo /\ gone.facts = me.facts
      BY <1>0, <2>1 DEF BuilderRecords
    <3> HIDE DEF gone
    <3> QED
      BY <1>0, <2>1, <3>1, <3>2, BuilderStepTyped
  <2> QED
    BY <2>2, <2>3
<1>5. CASE LoadDigest(b)
  <2> DEFINE p == me.at
             loaded == [[[[me EXCEPT !.pc = "stat"] EXCEPT !.todo = @ \ {p}] EXCEPT !.at = 0]
                          EXCEPT !.mtime = 0]
             entry == Entry(me.mtime, disk[p].content, me.facts[p])
             good == [loaded EXCEPT !.files = [me.files EXCEPT ![p] = entry]]
             bad == [loaded EXCEPT !.errs = @ \cup {p}]
  <2>1. me.pc = "hash" /\ UNCHANGED <<store, snapshot>>
    BY <1>5 DEF LoadDigest
  <2>2. p \in Paths /\ me.facts[p] \in Facts
    <3>1. p \in PathsIn(me.facts)
      BY <1>0, <2>1
    <3> QED
      BY <1>0, <3>1 DEF PathsIn, BuilderRecords, MaybeFacts
  <2>3. loaded \in BuilderRecords /\ loaded.pc = "stat" /\ loaded.files = me.files
        /\ loaded.todo \subseteq PathsIn(loaded.facts)
    BY <1>0, <1>a, <2>1 DEF BuilderRecords
  <2>4. CASE Readable(p)
    <3>1. BuilderStep(b, good)
      <4>1. BuilderStep(b, [loaded EXCEPT !.files[p] = entry])
        BY <1>5, <2>4 DEF LoadDigest
      <4> QED
        BY <2>3, <4>1
    <3>2. entry \in Entries
      BY <1>0, <2>2, <2>4 DEF BuilderRecords, Entries, Entry, Readable, Present, DiskFiles
    <3>3. [me.files EXCEPT ![p] = entry] \in Files
      BY <1>0, <2>2, <3>2 DEF BuilderRecords, Files
    <3>4. good \in BuilderRecords /\ good.pc = "stat" /\ good.todo \subseteq PathsIn(good.facts)
      <4> HIDE DEF loaded, entry
      <4> QED
        BY <2>3, <3>3 DEF BuilderRecords
    <3> HIDE DEF good
    <3> QED
      BY <1>0, <2>1, <3>1, <3>4, BuilderStepTyped
  <2>5. CASE ~Readable(p)
    <3>1. BuilderStep(b, bad)
      BY <1>5, <2>5 DEF LoadDigest
    <3>2. bad \in BuilderRecords /\ bad.pc = "stat" /\ bad.todo \subseteq PathsIn(bad.facts)
      <4> HIDE DEF loaded
      <4> QED
        BY <2>2, <2>3 DEF BuilderRecords
    <3> HIDE DEF bad
    <3> QED
      BY <1>0, <2>1, <3>1, <3>2, BuilderStepTyped
  <2> QED
    BY <2>4, <2>5
<1>6. CASE BuildReplace(b)
  <2> DEFINE rec == [IdleBuilder EXCEPT !.pc = "capture"]
  <2>1. PICK st \in Verdicts : store' = Replace(store, me.files, me.errs, st)
    BY <1>6 DEF BuildReplace
  <2>2. store' \in Stores
    BY <1>0, <2>1, ReplaceTyped DEF BuilderRecords
  <2>3. rec \in BuilderRecords /\ rec.pc = "capture"
    BY <1>a, IdleIsTyped DEF BuilderRecords
  <2>4. BuilderStep(b, rec) /\ UNCHANGED snapshot
    BY <1>6 DEF BuildReplace
  <2> HIDE DEF rec
  <2> QED
    BY <1>0, <2>2, <2>3, <2>4, BuilderStepTyped
<1>7. CASE BuildCapture(b)
  <2> DEFINE rec == [[IdleBuilder EXCEPT !.pc = "save"] EXCEPT !.files = store.entries]
  <2>1. BuilderStep(b, rec) /\ UNCHANGED <<store, snapshot>>
    BY <1>7 DEF BuildCapture
  <2>2. rec \in BuilderRecords /\ rec.pc = "save"
    BY <1>0, <1>a, IdleIsTyped DEF BuilderRecords, Stores
  <2> HIDE DEF rec
  <2> QED
    BY <1>0, <2>1, <2>2, BuilderStepTyped
<1>8. CASE BuildSave(b)
  <2>1. BuilderStep(b, IdleBuilder) /\ UNCHANGED store /\ snapshot' = me.files
    BY <1>8 DEF BuildSave
  <2>2. me.files \in Files
    BY <1>0 DEF BuilderRecords
  <2> QED
    BY <1>0, <2>1, <2>2, IdleIsTyped, BuilderStepTyped
<1> QED
  BY <1>1, <1>2, <1>3, <1>4, <1>5, <1>6, <1>7, <1>8 DEF Build

LEMMA PassStepTyped ==
  ASSUME Typed, NEW r \in Refreshers, NEW rec \in PassRecords, PassStep(r, rec),
         rec.pc = "walk" => rec.todo # {},
         store' \in Stores, snapshot' \in Files \cup {NoEntry}, lock' \in Refreshers \cup {NoEntry},
         builder' \in [Builders -> BuilderRecords],
         \A b \in Builders : builder'[b] = builder[b] \/ builder'[b] = StartedBuilder,
         ix' \in [Refreshers \cup Queries -> IxRecords],
         \A a \in Refreshers \cup Queries : Begun(ix'[a])
  PROVE  Typed'
<1>1. UNCHANGED <<up, crashes, clock, disk, query>>
  BY DEF PassStep
<1>2. TypeOK'
  BY <1>1 DEF PassStep, Typed, TypeOK
<1>3. \A s \in Refreshers : pass'[s] = IF s = r THEN rec ELSE pass[s]
  BY DEF PassStep, Typed, TypeOK
<1>4. Walking'
  BY <1>1, <1>3, IdleIsTyped DEF Typed, Walking
<1> QED
  BY <1>2, <1>4 DEF Typed

\* The same for a step that changes nothing but the pass and the lock.
LEMMA PassAloneTyped ==
  ASSUME Typed, NEW r \in Refreshers, NEW rec \in PassRecords, PassStep(r, rec),
         rec.pc = "walk" => rec.todo # {}, lock' \in Refreshers \cup {NoEntry},
         UNCHANGED <<store, builder, ix, snapshot>>
  PROVE  Typed'
<1>1. /\ store' \in Stores /\ snapshot' \in Files \cup {NoEntry}
      /\ builder' \in [Builders -> BuilderRecords] /\ ix' \in [Refreshers \cup Queries -> IxRecords]
      /\ \A b \in Builders : builder'[b] = builder[b]
      /\ \A a \in Refreshers \cup Queries : Begun(ix'[a])
  BY DEF Typed, TypeOK, Walking
<1> QED
  BY <1>1, PassStepTyped

LEMMA GatheredTyped ==
  ASSUME Typed, NEW r \in Refreshers, IxReturned(r), NEW cs \in ChangeSets
  PROVE  Gathered(cs, r) \in ChangeSets
<1> DEFINE p == ix[r].path
<1>1. ix[r] \in IxRecords
  BY DEF Typed, TypeOK
<1>2. p \in Paths
  BY DEF Typed, Walking, IxReturned, Begun
<1>3. CASE ix[r].pc = "ok"
  <2>1. IxEntry(r) \in Entries
    <3>1. ix[r].digest \in Facts /\ ix[r].facts \in Facts /\ ix[r].mtime \in Nat
      BY <1>1, <1>3 DEF Typed, Walking, Begun, IxRecords
    <3> QED
      BY <3>1 DEF IxEntry, Entry, Entries
  <2>2. [cs.added EXCEPT ![p] = IxEntry(r)] \in Files /\ [cs.updated EXCEPT ![p] = IxEntry(r)] \in Files
    BY <1>2, <2>1 DEF ChangeSets, Files
  <2>3. /\ [cs EXCEPT !.added = [cs.added EXCEPT ![p] = IxEntry(r)]] \in ChangeSets
        /\ [cs EXCEPT !.updated = [cs.updated EXCEPT ![p] = IxEntry(r)]] \in ChangeSets
    BY <2>2 DEF ChangeSets
  <2> QED
    BY <1>3, <2>3 DEF Gathered
<1>4. CASE ix[r].pc = "unstable"
  <2>1. [cs EXCEPT !.errors = @ \cup {p}] \in ChangeSets
    BY <1>2 DEF ChangeSets
  <2> QED
    BY <1>4, <2>1 DEF Gathered
<1>5. CASE ix[r].pc = "error"
  <2>1. [[cs EXCEPT !.errors = @ \cup {p}] EXCEPT !.deleted = @ \cup {p}] \in ChangeSets
    BY <1>2 DEF ChangeSets
  <2>2. Gathered(cs, r) = [[cs EXCEPT !.errors = @ \cup {p}] EXCEPT !.deleted = @ \cup {p}]
    BY <1>5 DEF Gathered, ChangeSets
  <2> QED
    BY <2>1, <2>2
<1>6. CASE ix[r].pc = "same"
  BY <1>6 DEF Gathered
<1> QED
  BY <1>3, <1>4, <1>5, <1>6 DEF IxReturned

LEMMA PassTyped ==
  ASSUME Typed, NEW r \in Refreshers, RefreshBegin(r) \/ Refresh(r)
  PROVE  Typed'
<1> DEFINE me == pass[r]
<1>0. /\ me \in PassRecords /\ store \in Stores /\ snapshot \in Files \cup {NoEntry}
      /\ disk \in [Paths -> {Absent} \cup DiskFiles] /\ lock \in Refreshers \cup {NoEntry}
      /\ builder \in [Builders -> BuilderRecords] /\ ix \in [Refreshers \cup Queries -> IxRecords]
      /\ me.pc = "walk" => me.todo # {}
      /\ \A a \in Refreshers \cup Queries : Begun(ix[a])
  BY DEF Typed, TypeOK, Walking
<1>a. {"idle", "start", "done", "trylock", "walk", "diff", "index", "capture", "save"} = PassPcs
  BY DEF PassPcs
<1>b. /\ me.todo \in SUBSET Paths /\ me.listed \in SUBSET Paths /\ me.added \in SUBSET Paths
      /\ me.changed \in SUBSET Paths /\ me.deleted \in SUBSET Paths
  BY <1>0 DEF PassRecords
<1>1. CASE RefreshBegin(r)
  <2>1. UNCHANGED <<store, builder, ix, snapshot>> /\ UNCHANGED lock
    BY <1>1 DEF RefreshBegin
  <2>2. \E rec \in PassRecords : PassStep(r, rec) /\ rec.pc # "walk"
    BY <1>1, <1>a, IdleIsTyped DEF RefreshBegin
  <2> QED
    BY <1>0, <2>1, <2>2, PassAloneTyped
<1>2. CASE RefreshLock(r)
  <2> DEFINE rec == [[IdlePass("walk") EXCEPT !.meta = store.entries] EXCEPT !.todo = Paths]
  <2>1. UNCHANGED <<store, builder, ix, snapshot>>
    BY <1>2 DEF RefreshLock
  <2>2. CASE lock = NoEntry
    <3>1. lock' = r /\ PassStep(r, rec)
      BY <1>2, <2>2 DEF RefreshLock
    <3>2. rec \in PassRecords /\ rec.todo # {}
      BY <1>0, <1>a, IdleIsTyped, RepoServiceAssumption DEF PassRecords, Stores
    <3> HIDE DEF rec
    <3> QED
      BY <2>1, <3>1, <3>2, PassAloneTyped
  <2>3. CASE lock # NoEntry
    <3>1. UNCHANGED lock /\ PassStep(r, Rest(r))
      BY <1>2, <2>3 DEF RefreshLock
    <3>2. Rest(r) \in PassRecords /\ Rest(r).pc # "walk"
      BY IdleIsTyped
    <3> QED
      BY <1>0, <2>1, <3>1, <3>2, PassAloneTyped
  <2> QED
    BY <2>2, <2>3
<1>3. CASE DiffWalk(r)
  <2> DEFINE p == FirstOf(me.todo)
             found == IF Present(p) THEN me.listed \cup {p} ELSE me.listed
             last == [[[[me EXCEPT !.pc = "diff"] EXCEPT !.todo = found] EXCEPT !.listed = {}]
                        EXCEPT !.deleted = PathsIn(me.meta) \ found]
             next == [[me EXCEPT !.todo = @ \ {p}] EXCEPT !.listed = found]
  <2>1. me.pc = "walk" /\ UNCHANGED <<store, builder, ix, snapshot>> /\ UNCHANGED lock
    BY <1>3 DEF DiffWalk
  <2>2. p \in me.todo
    <3>1. me.todo # {}
      BY <1>0, <2>1
    <3> QED
      BY <1>b, <3>1, FirstIsMember
  <2>3. found \in SUBSET Paths
    BY <1>b, <2>2
  <2>4. CASE me.todo = {p}
    <3>1. PassStep(r, last)
      BY <1>3, <2>4 DEF DiffWalk
    <3>2. PathsIn(me.meta) \ found \in SUBSET Paths
      BY DEF PathsIn
    <3>3. last \in PassRecords /\ last.pc = "diff"
      BY <1>0, <1>a, <2>3, <3>2 DEF PassRecords
    <3> HIDE DEF last
    <3> QED
      BY <1>0, <2>1, <3>1, <3>3, PassAloneTyped
  <2>5. CASE me.todo # {p}
    <3>1. PassStep(r, next)
      BY <1>3, <2>5 DEF DiffWalk
    <3>2. next \in PassRecords /\ next.todo # {}
      BY <1>0, <1>b, <2>2, <2>3, <2>5 DEF PassRecords
    <3> HIDE DEF next
    <3> QED
      BY <1>0, <2>1, <3>1, <3>2, PassAloneTyped
  <2> QED
    BY <2>4, <2>5
<1>4. CASE DiffStat(r)
  <2> DEFINE p == FirstOf(me.todo)
             isAdded == me.meta[p] = NoEntry \/ ~Present(p)
             isChanged == ~isAdded /\ disk[p].mtime # me.meta[p].mtime
             added == IF isAdded THEN me.added \cup {p} ELSE me.added
             changed == IF isChanged THEN me.changed \cup {p} ELSE me.changed
             rec == [[[me EXCEPT !.todo = @ \ {p}] EXCEPT !.added = added] EXCEPT !.changed = changed]
  <2>1. me.pc = "diff" /\ UNCHANGED <<store, builder, ix, snapshot>> /\ UNCHANGED lock /\ p \in me.todo
    BY <1>4, <1>b, FirstIsMember DEF DiffStat
  <2>2. added \in SUBSET Paths /\ changed \in SUBSET Paths
    BY <1>b, <2>1
  <2> HIDE DEF isAdded, isChanged
  <2>3. PassStep(r, rec)
    <3>1. PassStep(r, [me EXCEPT !.todo = @ \ {p},
                                 !.added = IF isAdded THEN @ \cup {p} ELSE @,
                                 !.changed = IF isChanged THEN @ \cup {p} ELSE @])
      BY <1>4 DEF DiffStat, isAdded, isChanged
    <3> QED
      BY <1>0, <3>1 DEF PassRecords
  <2> HIDE DEF added, changed
  <2>4. rec \in PassRecords /\ rec.pc = "diff"
    BY <1>0, <1>b, <2>1, <2>2 DEF PassRecords
  <2> HIDE DEF rec
  <2> QED
    BY <1>0, <2>1, <2>3, <2>4, PassAloneTyped
<1>5. CASE RefreshRebuild(r)
  <2> DEFINE b == FirstOf(IdleBuilders)
  <2>1. UNCHANGED <<ix, snapshot>> /\ PassStep(r, Rest(r)) /\ lock' = NoEntry
    BY <1>5 DEF RefreshRebuild
  <2>2. store' \in Stores
    BY <1>0, <1>5 DEF RefreshRebuild, SetState, Stores, States
  <2>3. builder' = [builder EXCEPT ![b] = StartedBuilder]
    BY <1>5 DEF RefreshRebuild
  <2>4. Rest(r) \in PassRecords /\ Rest(r).pc # "walk"
    BY IdleIsTyped
  <2>5. /\ builder' \in [Builders -> BuilderRecords]
        /\ \A c \in Builders : builder'[c] = builder[c] \/ builder'[c] = StartedBuilder
    <3> HIDE DEF b
    <3> QED
      BY <1>0, <2>3, IdleIsTyped
  <2> QED
    BY <1>0, <2>1, <2>2, <2>4, <2>5, PassStepTyped
<1>6. CASE RefreshNothing(r)
  <2>1. UNCHANGED <<store, builder, ix, snapshot>> /\ PassStep(r, Rest(r)) /\ lock' = NoEntry
    BY <1>6 DEF RefreshNothing
  <2> QED
    BY <2>1, IdleIsTyped, PassAloneTyped
<1>7. CASE RefreshIncremental(r)
  <2> DEFINE rec == [[me EXCEPT !.pc = "index"] EXCEPT !.cs = [me.cs EXCEPT !.deleted = me.deleted]]
  <2>1. UNCHANGED <<store, builder, ix, snapshot>> /\ UNCHANGED lock
    BY <1>7 DEF RefreshIncremental
  <2>2. me.cs \in ChangeSets
    BY <1>0 DEF PassRecords
  <2>3. PassStep(r, rec)
    BY <1>0, <1>7, <2>2 DEF RefreshIncremental, PassRecords
  <2>4. [me.cs EXCEPT !.deleted = me.deleted] \in ChangeSets
    BY <1>b, <2>2 DEF ChangeSets
  <2>5. rec \in PassRecords /\ rec.pc = "index"
    <3> HIDE DEF ChangeSets
    <3> QED
      BY <1>0, <1>a, <2>4 DEF PassRecords
  <2> HIDE DEF rec
  <2> QED
    BY <1>0, <2>1, <2>3, <2>5, PassAloneTyped
<1>8. CASE RefreshIndex(r)
  <2> DEFINE S == IF me.added # {} THEN me.added ELSE me.changed
  <2>1. UNCHANGED <<store, lock, builder, snapshot>> /\ PassStep(r, me) /\ me.pc = "index"
        /\ S # {} /\ ix' = [ix EXCEPT ![r] = StartIx(FirstOf(S))]
    BY <1>8 DEF RefreshIndex
  <2>2. FirstOf(S) \in Paths
    BY <1>b, <2>1, FirstIsMember
  <2>3. StartIx(FirstOf(S)) \in IxRecords /\ Begun(StartIx(FirstOf(S)))
    BY <2>2, IdleIsTyped
  <2>4. /\ ix' \in [Refreshers \cup Queries -> IxRecords]
        /\ \A a \in Refreshers \cup Queries : Begun(ix'[a])
    BY <1>0, <2>1, <2>3
  <2>5. \A c \in Builders : builder'[c] = builder[c]
    BY <2>1
  <2> QED
    BY <1>0, <2>1, <2>4, <2>5, PassStepTyped
<1>9. CASE RefreshGather(r)
  <2> DEFINE p == ix[r].path
             rec == [[[me EXCEPT !.cs = Gathered(me.cs, r)] EXCEPT !.added = @ \ {p}]
                       EXCEPT !.changed = @ \ {p}]
  <2>1. UNCHANGED <<store, lock, builder, snapshot>> /\ me.pc = "index" /\ IxReturned(r)
        /\ ix' = [ix EXCEPT ![r] = IdleIx]
    BY <1>9 DEF RefreshGather
  <2>2. PassStep(r, rec)
    BY <1>0, <1>9 DEF RefreshGather, PassRecords
  <2>3. me.cs \in ChangeSets
    BY <1>0 DEF PassRecords
  <2>4. Gathered(me.cs, r) \in ChangeSets
    BY <2>1, <2>3, GatheredTyped
  <2>5. rec \in PassRecords /\ rec.pc = "index"
    BY <1>0, <1>b, <2>1, <2>4 DEF PassRecords
  <2>6. /\ ix' \in [Refreshers \cup Queries -> IxRecords]
        /\ \A a \in Refreshers \cup Queries : Begun(ix'[a])
    BY <1>0, <2>1, IdleIsTyped
  <2>7. \A c \in Builders : builder'[c] = builder[c]
    BY <2>1
  <2> HIDE DEF rec
  <2> QED
    BY <1>0, <2>1, <2>2, <2>5, <2>6, <2>7, PassStepTyped
<1>10. CASE RefreshApply(r)
  <2>1. UNCHANGED <<lock, builder, ix, snapshot>> /\ PassStep(r, IdlePass("capture"))
    BY <1>10 DEF RefreshApply
  <2>2. PICK st \in Verdicts : store' = Apply(store, me.cs, st)
    BY <1>10 DEF RefreshApply
  <2>3. store' \in Stores
    BY <1>0, <2>2, ApplyTyped DEF PassRecords
  <2>4. IdlePass("capture") \in PassRecords /\ IdlePass("capture").pc = "capture"
    BY <1>a, IdleIsTyped
  <2>5. \A c \in Builders : builder'[c] = builder[c]
    BY <2>1
  <2>6. \A a \in Refreshers \cup Queries : Begun(ix'[a])
    BY <1>0, <2>1
  <2> QED
    BY <1>0, <2>1, <2>3, <2>4, <2>5, <2>6, PassStepTyped
<1>11. CASE RefreshCapture(r)
  <2> DEFINE rec == [IdlePass("save") EXCEPT !.meta = store.entries]
  <2>1. UNCHANGED <<store, builder, ix, snapshot>> /\ UNCHANGED lock /\ PassStep(r, rec)
    BY <1>11 DEF RefreshCapture
  <2>2. rec \in PassRecords /\ rec.pc = "save"
    BY <1>0, <1>a, IdleIsTyped DEF PassRecords, Stores
  <2> HIDE DEF rec
  <2> QED
    BY <1>0, <2>1, <2>2, PassAloneTyped
<1>12. CASE RefreshSave(r)
  <2>1. UNCHANGED <<store, builder, ix>> /\ PassStep(r, Rest(r)) /\ lock' = NoEntry /\ snapshot' = me.meta
    BY <1>12 DEF RefreshSave
  <2>2. Rest(r) \in PassRecords /\ Rest(r).pc # "walk"
    BY IdleIsTyped
  <2>3. me.meta \in Files
    BY <1>0 DEF PassRecords
  <2>4. \A c \in Builders : builder'[c] = builder[c]
    BY <2>1
  <2>5. \A a \in Refreshers \cup Queries : Begun(ix'[a])
    BY <1>0, <2>1
  <2> QED
    BY <1>0, <2>1, <2>2, <2>3, <2>4, <2>5, PassStepTyped
<1> QED
  BY <1>1, <1>2, <1>3, <1>4, <1>5, <1>6, <1>7, <1>8, <1>9, <1>10, <1>11, <1>12 DEF Refresh

LEMMA IxStepTyped ==
  ASSUME Typed, NEW a \in Refreshers \cup Queries, NEW rec \in IxRecords, Begun(rec), IxStep(a, rec)
  PROVE  Typed'
<1>1. UNCHANGED <<up, crashes, clock, disk, snapshot, store, lock, builder, pass, query>>
  BY DEF IxStep
<1>2. TypeOK'
  BY <1>1 DEF IxStep, Typed, TypeOK
<1>3. \A c \in Refreshers \cup Queries : ix'[c] = IF c = a THEN rec ELSE ix[c]
  BY DEF IxStep, Typed, TypeOK
<1>4. Walking'
  BY <1>1, <1>3 DEF Typed, Walking
<1> QED
  BY <1>2, <1>4 DEF Typed

\* The records an indexPath that gives up leaves.
LEMMA IxOutcomes ==
  ASSUME NEW p \in Paths, NEW pc \in {"error", "same", "unstable"}
  PROVE  /\ [[IdleIx EXCEPT !.pc = pc] EXCEPT !.path = p] \in IxRecords
         /\ Begun([[IdleIx EXCEPT !.pc = pc] EXCEPT !.path = p])
<1> DEFINE rec == [[IdleIx EXCEPT !.pc = pc] EXCEPT !.path = p]
<1>1. pc \in IxPcs
  BY DEF IxPcs
<1>2. rec \in IxRecords
  BY <1>1, IdleIsTyped DEF IxRecords
<1>3. Begun(rec)
  BY DEF IdleIx, Begun
<1> QED
  BY <1>2, <1>3

LEMMA IxTyped ==
  ASSUME Typed, NEW a \in Refreshers \cup Queries, IndexPath(a)
  PROVE  Typed'
<1> DEFINE me == ix[a]
           p == me.path
           out(pc) == [[IdleIx EXCEPT !.pc = pc] EXCEPT !.path = p]
<1>0. /\ me \in IxRecords /\ Begun(me) /\ disk \in [Paths -> {Absent} \cup DiskFiles]
  BY DEF Typed, TypeOK, Walking
<1>a. {"off", "stat", "hash", "parse", "restat", "ok", "same", "unstable", "error"} = IxPcs
  BY DEF IxPcs
<1>1. me.pc # "off" /\ p \in Paths
  BY <1>0 DEF IndexPath, IxStat, IxDigest, IxParse, IxRestat, Begun
<1>2. \A pc \in {"error", "same", "unstable"} : out(pc) \in IxRecords /\ Begun(out(pc))
  BY <1>1, IxOutcomes
<1>3. IxFailed(a) = out("error")
  BY DEF IxFailed, IdleIx
<1>4. IxStep(a, IxFailed(a)) => Typed'
  <2>1. out("error") \in IxRecords /\ Begun(out("error"))
    BY <1>2
  <2> HIDE DEF out
  <2> QED
    BY <1>3, <2>1, IxStepTyped
<1>5. Present(p) => disk[p].mtime \in Nat /\ disk[p].content \in Facts
  BY <1>0, <1>1 DEF Present, DiskFiles
<1>6. CASE IxStat(a)
  <2> DEFINE rec == [[me EXCEPT !.pc = "hash"] EXCEPT !.mtime = disk[p].mtime]
  <2>1. CASE Present(p)
    <3>1. IxStep(a, rec)
      BY <1>0, <1>6, <2>1 DEF IxStat, IxRecords
    <3>2. rec \in IxRecords /\ Begun(rec)
      BY <1>0, <1>1, <1>5, <1>a, <2>1 DEF IxRecords, Begun
    <3> HIDE DEF rec
    <3> QED
      BY <3>1, <3>2, IxStepTyped
  <2>2. CASE ~Present(p)
    BY <1>4, <1>6, <2>2 DEF IxStat
  <2> QED
    BY <2>1, <2>2
<1>7. CASE IxDigest(a)
  <2> DEFINE rec == [[me EXCEPT !.pc = "parse"] EXCEPT !.digest = disk[p].content]
             prev == PrevEntry(a)
  <2>1. CASE ~Readable(p)
    BY <1>4, <1>7, <2>1 DEF IxDigest
  <2>2. CASE Readable(p) /\ prev # NoEntry /\ prev.digest = disk[p].content
    <3>1. IxStep(a, [IdleIx EXCEPT !.pc = "same", !.path = p])
      BY <1>7, <2>2 DEF IxDigest
    <3>2. [IdleIx EXCEPT !.pc = "same", !.path = p] = out("same")
      BY DEF IdleIx
    <3>3. out("same") \in IxRecords /\ Begun(out("same"))
      BY <1>2
    <3> HIDE DEF out
    <3> QED
      BY <3>1, <3>2, <3>3, IxStepTyped
  <2>3. CASE Readable(p) /\ ~(prev # NoEntry /\ prev.digest = disk[p].content)
    <3>1. IxStep(a, rec)
      BY <1>0, <1>7, <2>3 DEF IxDigest, IxRecords
    <3>2. rec \in IxRecords /\ Begun(rec)
      BY <1>0, <1>1, <1>5, <1>a, <2>3 DEF IxRecords, Begun, Readable, MaybeFacts
    <3> HIDE DEF rec
    <3> QED
      BY <3>1, <3>2, IxStepTyped
  <2> QED
    BY <2>1, <2>2, <2>3
<1>8. CASE IxParse(a)
  <2> DEFINE rec == [[me EXCEPT !.pc = "restat"] EXCEPT !.facts = disk[p].content]
  <2>1. CASE Readable(p)
    <3>1. IxStep(a, rec) /\ me.pc = "parse"
      BY <1>0, <1>8, <2>1 DEF IxParse, IxRecords
    <3>2. rec \in IxRecords /\ Begun(rec)
      BY <1>0, <1>1, <1>5, <1>a, <2>1, <3>1 DEF IxRecords, Begun, Readable, MaybeFacts
    <3> HIDE DEF rec
    <3> QED
      BY <3>1, <3>2, IxStepTyped
  <2>2. CASE ~Readable(p)
    BY <1>4, <1>8, <2>2 DEF IxParse
  <2> QED
    BY <2>1, <2>2
<1>9. CASE IxRestat(a)
  <2>1. CASE ~Present(p)
    BY <1>4, <1>9, <2>1 DEF IxRestat
  <2>2. CASE Present(p) /\ Unmoved(a)
    <3> DEFINE rec == [me EXCEPT !.pc = "ok"]
    <3>1. IxStep(a, rec) /\ me.pc = "restat"
      BY <1>9, <2>2 DEF IxRestat
    <3>2. rec \in IxRecords /\ Begun(rec)
      BY <1>0, <1>1, <1>a, <3>1 DEF IxRecords, Begun
    <3> HIDE DEF rec
    <3> QED
      BY <3>1, <3>2, IxStepTyped
  <2>3. CASE Present(p) /\ ~Unmoved(a) /\ MayRetry(a)
    <3> DEFINE rec == [StartIx(p) EXCEPT !.attempt = me.attempt + 1]
    <3>1. IxStep(a, rec)
      BY <1>9, <2>3 DEF IxRestat, Retried
    <3>2. me.attempt + 1 \in 0..2
      BY <2>3 DEF MayRetry
    <3>3. StartIx(p) \in IxRecords /\ StartIx(p).path = p /\ StartIx(p).pc = "stat"
      BY <1>1, IdleIsTyped
    <3>4. rec \in IxRecords /\ Begun(rec)
      BY <1>1, <3>2, <3>3 DEF IxRecords, Begun
    <3> HIDE DEF rec
    <3> QED
      BY <3>1, <3>4, IxStepTyped
  <2>4. CASE Present(p) /\ ~Unmoved(a) /\ ~MayRetry(a)
    <3>1. IxStep(a, [IdleIx EXCEPT !.pc = "unstable", !.path = p])
      BY <1>9, <2>4 DEF IxRestat
    <3>2. [IdleIx EXCEPT !.pc = "unstable", !.path = p] = out("unstable")
      BY DEF IdleIx
    <3>3. out("unstable") \in IxRecords /\ Begun(out("unstable"))
      BY <1>2
    <3> HIDE DEF out
    <3> QED
      BY <3>1, <3>2, <3>3, IxStepTyped
  <2> QED
    BY <2>1, <2>2, <2>3, <2>4
<1> QED
  BY <1>6, <1>7, <1>8, <1>9 DEF IndexPath

LEMMA QueryStepTyped ==
  ASSUME Typed, NEW q \in Queries, NEW rec \in QueryRecords, QueryStep(q, rec),
         rec.pc # "idle" => rec.path \in Paths, rec.pc = "hash" => rec.entry # NoEntry,
         store' \in Stores,
         UNCHANGED ix \/ ix' = [ix EXCEPT ![q] = IdleIx]
           \/ \E p \in Paths : ix' = [ix EXCEPT ![q] = StartIx(p)]
  PROVE  Typed'
<1>1. UNCHANGED <<up, crashes, clock, disk, snapshot, lock, builder, pass>>
  BY DEF QueryStep
<1>2. ix' \in [Refreshers \cup Queries -> IxRecords] /\ \A a \in Refreshers \cup Queries : Begun(ix'[a])
  BY IdleIsTyped DEF Typed, TypeOK, Walking
<1>3. TypeOK'
  BY <1>1, <1>2 DEF QueryStep, Typed, TypeOK
<1>4. \A r \in Queries : query'[r] = IF r = q THEN rec ELSE query[r]
  BY DEF QueryStep, Typed, TypeOK
<1>5. Walking'
  BY <1>1, <1>2, <1>4 DEF Typed, Walking
<1> QED
  BY <1>3, <1>5 DEF Typed

LEMMA QueryTyped ==
  ASSUME Typed, NEW q \in Queries, Query(q)
  PROVE  Typed'
<1> DEFINE me == query[q]
           p == me.path
<1>0. /\ me \in QueryRecords /\ store \in Stores /\ disk \in [Paths -> {Absent} \cup DiskFiles]
      /\ me.pc # "idle" => p \in Paths
      /\ me.pc = "hash" => me.entry # NoEntry
      /\ ix \in [Refreshers \cup Queries -> IxRecords] /\ Begun(ix[q])
  BY DEF Typed, TypeOK, Walking
<1>a. {"idle", "meta", "hash", "index", "answered"} = QueryPcs
  BY DEF QueryPcs
<1>b. IdleQuery \in QueryRecords /\ IdleQuery.pc = "idle"
  BY IdleIsTyped
<1>1. ASSUME NEW f \in Paths, QueryResolve(q, f)
      PROVE  Typed'
  <2> DEFINE seen == IF Present(f) THEN {disk[f].content} ELSE {}
             rec == [[[IdleQuery EXCEPT !.pc = "meta"] EXCEPT !.path = f] EXCEPT !.seen = seen]
  <2>1. QueryStep(q, rec) /\ UNCHANGED <<store, ix>>
    BY <1>1 DEF QueryResolve, IdleQuery
  <2>2. seen \in SUBSET Facts
    BY <1>0 DEF Present, DiskFiles
  <2> HIDE DEF seen
  <2>3. rec \in QueryRecords /\ rec.pc = "meta" /\ rec.path = f
    BY <1>a, <1>b, <2>2 DEF QueryRecords
  <2> HIDE DEF rec
  <2> QED
    BY <1>0, <2>1, <2>3, QueryStepTyped
<1>2. CASE QueryMeta(q)
  <2> DEFINE e == store.entries[p]
             rec == [[me EXCEPT !.pc = "hash"] EXCEPT !.entry = e]
  <2>1. UNCHANGED <<store, ix>> /\ me.pc = "meta"
    BY <1>2 DEF QueryMeta
  <2>2. CASE e = NoEntry
    <3>1. QueryStep(q, IdleQuery)
      BY <1>2, <2>2 DEF QueryMeta
    <3> QED
      BY <1>0, <1>b, <2>1, <3>1, QueryStepTyped
  <2>3. CASE e # NoEntry
    <3>1. QueryStep(q, rec)
      BY <1>0, <1>2, <2>3 DEF QueryMeta, QueryRecords
    <3>2. e \in Entries
      BY <1>0, <2>1, <2>3 DEF Stores, Files
    <3>3. rec \in QueryRecords /\ rec.pc = "hash" /\ rec.path = p /\ rec.entry # NoEntry
      <4> HIDE DEF e
      <4> QED
        BY <1>0, <1>a, <2>3, <3>2 DEF QueryRecords
    <3> HIDE DEF rec
    <3> QED
      BY <1>0, <2>1, <3>1, <3>3, QueryStepTyped
  <2> QED
    BY <2>2, <2>3
<1>3. CASE QueryDigest(q)
  <2> DEFINE stale == Readable(p) /\ ~Fresh(q)
             served == [[me EXCEPT !.pc = "answered"] EXCEPT !.answer = me.entry.facts]
             late == [me EXCEPT !.pc = "index"]
  <2>1. /\ me.pc = "hash" /\ UNCHANGED store
        /\ ix' = IF stale THEN [ix EXCEPT ![q] = StartIx(p)] ELSE ix
    BY <1>3 DEF QueryDigest
  <2>2. p \in Paths
    BY <1>0, <2>1
  <2>3. CASE Fresh(q)
    <3>1. QueryStep(q, served) /\ UNCHANGED ix
      BY <1>0, <1>3, <2>1, <2>3 DEF QueryDigest, QueryRecords
    <3>2. me.entry \in Entries
      BY <1>0, <2>1 DEF QueryRecords
    <3>3. me.entry.facts \in MaybeFacts
      BY <3>2 DEF Entries, MaybeFacts
    <3>4. served \in QueryRecords /\ served.pc = "answered" /\ served.path = p
      BY <1>0, <1>a, <3>3 DEF QueryRecords
    <3> HIDE DEF served
    <3> QED
      BY <1>0, <2>1, <2>2, <3>1, <3>4, QueryStepTyped
  <2>4. CASE stale
    <3>1. QueryStep(q, late) /\ ix' = [ix EXCEPT ![q] = StartIx(p)]
      BY <1>3, <2>1, <2>4 DEF QueryDigest
    <3>2. late \in QueryRecords /\ late.pc = "index" /\ late.path = p
      BY <1>0, <1>a DEF QueryRecords
    <3> HIDE DEF late
    <3> QED
      BY <1>0, <2>1, <2>2, <3>1, <3>2, QueryStepTyped
  <2>5. CASE ~Fresh(q) /\ ~stale
    <3>1. QueryStep(q, IdleQuery) /\ UNCHANGED ix
      BY <1>3, <2>1, <2>5 DEF QueryDigest
    <3> QED
      BY <1>0, <1>b, <2>1, <3>1, QueryStepTyped
  <2> QED
    BY <2>3, <2>4, <2>5
<1>4. CASE QueryApply(q)
  <2>1. me.pc = "index" /\ IxReturned(q) /\ ix' = [ix EXCEPT ![q] = IdleIx]
    BY <1>4 DEF QueryApply
  <2>2. CASE ix[q].pc = "ok"
    <3> DEFINE rec == [[me EXCEPT !.pc = "answered"] EXCEPT !.answer = ix[q].facts]
               cs == [NoChange EXCEPT !.updated = [NoFiles EXCEPT ![p] = IxEntry(q)]]
    <3>1. QueryStep(q, rec)
      BY <1>0, <1>4, <2>2 DEF QueryApply, QueryRecords
    <3>2. PICK st \in Verdicts :
            store' = Apply(store, [NoChange EXCEPT !.updated[p] = IxEntry(q)], st)
      BY <1>4, <2>2 DEF QueryApply
    <3>3. [NoChange EXCEPT !.updated[p] = IxEntry(q)] = cs
      BY DEF NoChange
    <3>4. ix[q].facts \in Facts /\ ix[q].digest \in Facts /\ ix[q].mtime \in Nat
      BY <1>0, <2>2 DEF Begun, IxRecords
    <3>5. IxEntry(q) \in Entries
      BY <3>4 DEF IxEntry, Entry, Entries
    <3>6. [NoFiles EXCEPT ![p] = IxEntry(q)] \in Files
      BY <1>0, <2>1, <3>5, IdleIsTyped DEF Files
    <3>7. cs \in ChangeSets
      BY <3>6, IdleIsTyped DEF ChangeSets
    <3>8. store' \in Stores
      <4> HIDE DEF cs
      <4> QED
        BY <1>0, <3>2, <3>3, <3>7, ApplyTyped
    <3>9. rec \in QueryRecords /\ rec.pc = "answered" /\ rec.path = p
      BY <1>0, <1>a, <3>4 DEF QueryRecords, MaybeFacts
    <3> HIDE DEF rec
    <3> QED
      BY <1>0, <2>1, <3>1, <3>8, <3>9, QueryStepTyped
  <2>3. CASE ix[q].pc # "ok"
    <3>1. QueryStep(q, IdleQuery) /\ UNCHANGED store
      BY <1>4, <2>3 DEF QueryApply
    <3> QED
      BY <1>0, <1>b, <2>1, <3>1, QueryStepTyped
  <2> QED
    BY <2>2, <2>3
<1>5. CASE QueryDone(q)
  <2>1. QueryStep(q, IdleQuery) /\ UNCHANGED <<store, ix>>
    BY <1>5 DEF QueryDone
  <2> QED
    BY <1>0, <1>b, <2>1, QueryStepTyped
<1> QED
  BY <1>1, <1>2, <1>3, <1>4, <1>5 DEF Query

LEMMA NextTyped ==
  ASSUME Typed, [Next]_vars
  PROVE  Typed'
<1>1. CASE UNCHANGED vars
  <2>1. UNCHANGED <<up, crashes, clock, disk, snapshot>> /\ UNCHANGED <<store, lock, builder, pass, ix, query>>
    BY <1>1 DEF vars, service
  <2> QED
    BY <2>1 DEF Typed, TypeOK, Walking
<1> QED
  BY <1>1, EditTyped, BootTyped, CrashTyped, BuildTyped, PassTyped, IxTyped, QueryTyped DEF Next

\* Every variable always has its type, and every record the fields its label
\* promises.
THEOREM TypesHold == Spec => [](TypeOK /\ Walking)
<1>1. Init => Typed
  BY InitTyped
<1>2. Typed /\ [Next]_vars => Typed'
  BY NextTyped
<1>3. Typed => TypeOK /\ Walking
  BY DEF Typed
<1> QED
  BY <1>1, <1>2, <1>3, PTL DEF Spec

-----------------------------------------------------------------------------
(* indexPath returns one content, whatever is edited while it runs: an      *)
(* edit of the content takes a modification time later than any read one.   *)

Timed == OnTime /\ IxSound

LEMMA EditMoves ==
  ASSUME Typed, NEW p \in Paths, Edit(p), NEW f \in Paths, disk'[f] # Absent
  PROVE  \/ disk'[f].mtime = clock + 1
         \/ disk[f] # Absent /\ disk'[f].mtime = disk[f].mtime /\ disk'[f].content = disk[f].content
<1> DEFINE Kept == disk[f] # Absent /\ disk'[f].mtime = disk[f].mtime
                   /\ disk'[f].content = disk[f].content
<1>0. disk \in [Paths -> {Absent} \cup DiskFiles]
  BY DEF Typed, TypeOK
<1>1. CASE Chmod(p)
  <2>1. disk[p] \in DiskFiles
    BY <1>0, <1>1 DEF Chmod, Present
  <2>2. disk' = [disk EXCEPT ![p] = [disk[p] EXCEPT !.readable = ~@]]
    BY <1>1 DEF Chmod
  <2>3. [disk[p] EXCEPT !.readable = ~@].mtime = disk[p].mtime
        /\ [disk[p] EXCEPT !.readable = ~@].content = disk[p].content
    BY <2>1 DEF DiskFiles
  <2>4. Present(p)
    BY <1>1 DEF Chmod
  <2> QED
    BY <1>0, <2>2, <2>3, <2>4 DEF Present
<1>2. CASE Delete(p)
  BY <1>0, <1>2 DEF Delete, Present
<1>3. ASSUME NEW c \in Facts, Write(p, c)
      PROVE  disk'[f].mtime = clock + 1 \/ Kept
  BY <1>0, <1>3 DEF Write
<1> QED
  BY <1>1, <1>2, <1>3 DEF Edit

LEMMA EditTimed ==
  ASSUME Typed, Timed, NEW p \in Paths, Edit(p)
  PROVE  Timed'
<1>1. UNCHANGED ix /\ clock' = clock + 1 /\ clock \in Nat
  BY RepoServiceAssumption DEF Edit, Write, Delete, Chmod, service, Typed, TypeOK
<1>2. disk \in [Paths -> {Absent} \cup DiskFiles]
  BY DEF Typed, TypeOK
<1>3. ASSUME NEW f \in Paths, disk'[f] # Absent
      PROVE  \/ disk'[f].mtime = clock + 1
             \/ disk[f] # Absent /\ disk'[f].mtime = disk[f].mtime /\ disk'[f].content = disk[f].content
  BY <1>3, EditMoves
<1>4. OnTime'
  <2> SUFFICES ASSUME NEW f \in Paths, Present(f)'
               PROVE  disk'[f].mtime <= clock'
    BY DEF OnTime
  <2>0. disk'[f] # Absent
    BY DEF Present
  <2>1. CASE disk'[f].mtime = clock + 1
    BY <1>1, <2>1
  <2>2. CASE disk[f] # Absent /\ disk'[f].mtime = disk[f].mtime
    <3>1. disk[f].mtime <= clock /\ disk[f].mtime \in Nat
      BY <1>2, <2>2 DEF Timed, OnTime, Present, DiskFiles
    <3> QED
      BY <1>1, <2>2, <3>1
  <2> QED
    BY <1>3, <2>0, <2>1, <2>2
<1>5. ASSUME NEW a \in Refreshers \cup Queries
      PROVE  SoundAt(ix[a])'
  <2> DEFINE me == ix[a]
  <2>1. me \in IxRecords /\ SoundAt(me) /\ Begun(me) /\ ix'[a] = me
    BY <1>1 DEF Typed, TypeOK, Walking, Timed, IxSound
  <2>2. CASE me.pc \notin {"hash", "parse", "restat", "ok"}
    BY <2>1, <2>2 DEF SoundAt
  <2>3. CASE me.pc \in {"hash", "parse", "restat", "ok"}
    <3>1. me.path \in Paths /\ me.mtime \in Nat /\ me.mtime <= clock
      BY <2>1, <2>3 DEF Begun, IxRecords, SoundAt
    <3>2. StillAt(me)' => StillAt(me) /\ disk'[me.path].content = disk[me.path].content
      <4> DEFINE f == me.path
      <4> SUFFICES ASSUME disk'[f] # Absent, disk'[f].mtime = me.mtime
                   PROVE  disk[f] # Absent /\ disk[f].mtime = me.mtime
                          /\ disk'[f].content = disk[f].content
        BY <2>1 DEF StillAt, Present
      <4>1. disk'[f].mtime # clock + 1
        BY <1>1, <3>1
      <4> QED
        BY <1>3, <3>1, <4>1
    <3>3. me.mtime <= clock'
      BY <1>1, <3>1
    <3> QED
      BY <2>1, <3>2, <3>3 DEF SoundAt
  <2> QED
    BY <2>2, <2>3
<1> QED
  BY <1>4, <1>5 DEF Timed, IxSound

\* Every step that edits no file and ends no read of indexPath.
LEMMA TimedFrame ==
  ASSUME Timed, UNCHANGED <<disk, clock>>,
         \A a \in Refreshers \cup Queries : ix'[a] = ix[a] \/ ix'[a].pc \in {"off", "stat"}
  PROVE  Timed'
<1>1. OnTime'
  BY DEF Timed, OnTime, Present
<1>2. ASSUME NEW a \in Refreshers \cup Queries
      PROVE  SoundAt(ix[a])'
  <2>1. SoundAt(ix[a])
    BY DEF Timed, IxSound
  <2>2. CASE ix'[a] = ix[a]
    BY <2>1, <2>2 DEF SoundAt, StillAt, Present
  <2>3. CASE ix'[a].pc \in {"off", "stat"}
    BY <2>3 DEF SoundAt
  <2> QED
    BY <2>2, <2>3
<1> QED
  BY <1>1, <1>2 DEF Timed, IxSound

LEMMA IxTimed ==
  ASSUME Typed, Timed, NEW a \in Refreshers \cup Queries, IndexPath(a)
  PROVE  Timed'
<1> DEFINE me == ix[a]
           p == me.path
<1>1. UNCHANGED <<disk, clock>> /\ ix' = [ix EXCEPT ![a] = ix'[a]]
  BY DEF IndexPath, IxStat, IxDigest, IxParse, IxRestat, IxStep, Typed, TypeOK
<1>2. me \in IxRecords /\ Begun(me) /\ SoundAt(me)
      /\ ix \in [Refreshers \cup Queries -> IxRecords]
  BY DEF Typed, TypeOK, Walking, Timed, IxSound
<1>3. OnTime'
  BY <1>1 DEF Timed, OnTime, Present
<1>4. SoundAt(ix[a])'
  <2> DEFINE StillAfter == Present(ix'[a].path) /\ disk[ix'[a].path].mtime = ix'[a].mtime
  <2>0. ASSUME NEW rec, ix' = [ix EXCEPT ![a] = rec], SoundAt(rec)
        PROVE  SoundAt(ix[a])'
    <3>1. ix'[a] = rec
      BY <1>2, <2>0
    <3> QED
      BY <1>1, <2>0, <3>1 DEF SoundAt, StillAt, Present
  <2>1. CASE IxStat(a)
    <3> DEFINE rec == IF Present(p) THEN [me EXCEPT !.pc = "hash", !.mtime = disk[p].mtime]
                                    ELSE IxFailed(a)
    <3>1. ix' = [ix EXCEPT ![a] = rec] /\ me.pc = "stat"
      BY <2>1 DEF IxStat, IxStep
    <3>2. p \in Paths
      BY <1>2, <3>1 DEF Begun
    <3>3. Present(p) => disk[p].mtime <= clock
      BY <3>2 DEF Timed, OnTime
    <3>4. SoundAt(rec)
      BY <1>2, <3>3 DEF SoundAt, IxFailed, IdleIx, IxRecords
    <3> HIDE DEF rec
    <3> QED
      BY <2>0, <3>1, <3>4
  <2>2. CASE IxDigest(a)
    <3> DEFINE prev == PrevEntry(a)
               rec == IF ~Readable(p) THEN IxFailed(a)
                      ELSE IF prev # NoEntry /\ prev.digest = disk[p].content
                        THEN [IdleIx EXCEPT !.pc = "same", !.path = p]
                      ELSE [me EXCEPT !.pc = "parse", !.digest = disk[p].content]
    <3>1. ix' = [ix EXCEPT ![a] = rec] /\ me.pc = "hash"
      BY <2>2 DEF IxDigest, IxStep
    <3> HIDE DEF prev
    <3>2. SoundAt(rec)
      BY <1>2, <3>1 DEF SoundAt, StillAt, IxFailed, IdleIx, IxRecords
    <3> HIDE DEF rec
    <3> QED
      BY <2>0, <3>1, <3>2
  <2>3. CASE IxParse(a)
    <3> DEFINE rec == IF Readable(p) THEN [me EXCEPT !.pc = "restat", !.facts = disk[p].content]
                                     ELSE IxFailed(a)
    <3>1. ix' = [ix EXCEPT ![a] = rec] /\ me.pc = "parse"
      BY <2>3 DEF IxParse, IxStep
    <3>2. SoundAt(rec)
      BY <1>2, <3>1 DEF SoundAt, StillAt, IxFailed, IdleIx, IxRecords
    <3> HIDE DEF rec
    <3> QED
      BY <2>0, <3>1, <3>2
  <2>4. CASE IxRestat(a)
    <3> DEFINE rec == IF ~Present(p) THEN IxFailed(a)
                      ELSE IF Unmoved(a) THEN [me EXCEPT !.pc = "ok"]
                      ELSE IF MayRetry(a) THEN Retried(a)
                      ELSE [IdleIx EXCEPT !.pc = "unstable", !.path = p]
    <3>1. ix' = [ix EXCEPT ![a] = rec] /\ me.pc = "restat"
      BY <2>4 DEF IxRestat, IxStep
    <3>2. SoundAt(rec)
      <4>1. CASE ~Present(p)
        BY <4>1 DEF SoundAt, IxFailed, IdleIx
      <4>2. CASE Present(p) /\ Unmoved(a)
        BY <1>2, <3>1, <4>2 DEF SoundAt, StillAt, Unmoved, IxRecords
      <4>3. CASE Present(p) /\ ~Unmoved(a) /\ MayRetry(a)
        <5>1. rec = Retried(a)
          BY <4>3
        <5>2. Retried(a).pc = "stat"
          BY DEF Retried, StartIx, IdleIx
        <5> QED
          BY <5>1, <5>2 DEF SoundAt
      <4>4. CASE Present(p) /\ ~Unmoved(a) /\ ~MayRetry(a)
        BY <4>4 DEF SoundAt, IdleIx
      <4> QED
        BY <4>1, <4>2, <4>3, <4>4
    <3> HIDE DEF rec
    <3> QED
      BY <2>0, <3>1, <3>2
  <2> QED
    BY <2>1, <2>2, <2>3, <2>4 DEF IndexPath
<1>5. ASSUME NEW c \in Refreshers \cup Queries, c # a
      PROVE  SoundAt(ix[c])'
  <2>1. SoundAt(ix[c]) /\ ix'[c] = ix[c]
    BY <1>1, <1>2, <1>5 DEF Timed, IxSound
  <2> QED
    BY <1>1, <2>1 DEF SoundAt, StillAt, Present
<1> QED
  BY <1>3, <1>4, <1>5 DEF Timed, IxSound

LEMMA NextTimed ==
  ASSUME Typed, Timed, [Next]_vars
  PROVE  Timed'
<1>0. ix \in [Refreshers \cup Queries -> IxRecords]
  BY DEF Typed, TypeOK
<1>a. IdleIx.pc = "off" /\ \A p : StartIx(p).pc = "stat"
  BY DEF IdleIx, StartIx
<1>1. CASE UNCHANGED vars
  <2>1. UNCHANGED <<disk, clock>> /\ UNCHANGED ix
    BY <1>1 DEF vars, service
  <2> QED
    BY <2>1, TimedFrame
<1>2. CASE Boot
  <2>1. UNCHANGED <<disk, clock>> /\ UNCHANGED ix
    BY <1>2 DEF Boot
  <2> QED
    BY <2>1, TimedFrame
<1>3. CASE Crash
  <2>1. UNCHANGED <<disk, clock>> /\ ix' = [a \in Refreshers \cup Queries |-> IdleIx]
    BY <1>3 DEF Crash, NothingRunning
  <2> QED
    BY <1>a, <2>1, TimedFrame
<1>4. ASSUME NEW b \in Builders, Build(b)
      PROVE  Timed'
  <2>1. UNCHANGED <<disk, clock>> /\ UNCHANGED ix
    BY <1>4 DEF Build, BuildWalk, BuildParse, BuildParsed, LoadStat, LoadDigest, BuildReplace,
                BuildCapture, BuildSave, BuilderStep
  <2> QED
    BY <2>1, TimedFrame
<1>5. ASSUME NEW r \in Refreshers, RefreshBegin(r) \/ Refresh(r)
      PROVE  Timed'
  <2>1. UNCHANGED <<disk, clock>>
    BY <1>5 DEF RefreshBegin, Refresh, RefreshLock, DiffWalk, DiffStat, RefreshRebuild, RefreshNothing,
                RefreshIncremental, RefreshIndex, RefreshGather, RefreshApply, RefreshCapture,
                RefreshSave, PassStep
  <2>2. UNCHANGED ix \/ ix' = [ix EXCEPT ![r] = IdleIx] \/ \E p : ix' = [ix EXCEPT ![r] = StartIx(p)]
    BY <1>5 DEF RefreshBegin, Refresh, RefreshLock, DiffWalk, DiffStat, RefreshRebuild, RefreshNothing,
                RefreshIncremental, RefreshIndex, RefreshGather, RefreshApply, RefreshCapture,
                RefreshSave
  <2>3. \A a \in Refreshers \cup Queries : ix'[a] = ix[a] \/ ix'[a].pc \in {"off", "stat"}
    BY <1>0, <1>a, <2>2
  <2> QED
    BY <2>1, <2>3, TimedFrame
<1>6. ASSUME NEW q \in Queries, Query(q)
      PROVE  Timed'
  <2>1. UNCHANGED <<disk, clock>>
    BY <1>6 DEF Query, QueryResolve, QueryMeta, QueryDigest, QueryApply, QueryDone, QueryStep
  <2>2. UNCHANGED ix \/ ix' = [ix EXCEPT ![q] = IdleIx] \/ \E p : ix' = [ix EXCEPT ![q] = StartIx(p)]
    BY <1>6 DEF Query, QueryResolve, QueryMeta, QueryDigest, QueryApply, QueryDone
  <2>3. \A a \in Refreshers \cup Queries : ix'[a] = ix[a] \/ ix'[a].pc \in {"off", "stat"}
    BY <1>0, <1>a, <2>2
  <2> QED
    BY <2>1, <2>3, TimedFrame
<1> QED
  BY <1>1, <1>2, <1>3, <1>4, <1>5, <1>6, EditTimed, IxTimed DEF Next

LEMMA InitTimed ==
  ASSUME Init
  PROVE  Timed
<1>1. OnTime
  <2>1. disk \in [Paths -> {Absent} \cup [mtime: {0}, content: Facts, readable: {TRUE}]] /\ clock = 0
    BY DEF Init
  <2>2. \A p \in Paths : disk[p] = Absent \/ disk[p].mtime = 0
    BY <2>1
  <2>3. 0 <= clock
    BY <2>1
  <2> QED
    BY <2>1, <2>2, <2>3 DEF OnTime, Present
<1>2. IxSound
  BY DEF Init, IxSound, SoundAt, IdleIx
<1> QED
  BY <1>1, <1>2 DEF Timed

\* indexPath (repo.go:571-573) returns facts and a digest of one content, the
\* one its file has as long as its modification time is the returned one,
\* under every interleaving with edits, whether builds are quiet or not.
THEOREM IndexPathConsistent == Spec => []IndexPathIsConsistent
<1>1. Init => Typed /\ Timed
  BY InitTyped, InitTimed
<1>2. Typed /\ Timed /\ [Next]_vars => Typed' /\ Timed'
  BY NextTyped, NextTimed
<1>3. Timed => IndexPathIsConsistent
  BY DEF Timed, IxSound, SoundAt, StillAt, Unmoved, IndexPathIsConsistent
<1> QED
  BY <1>1, <1>2, <1>3, PTL DEF Spec

-----------------------------------------------------------------------------
(* The file system moves forward: what is there is as it was, or has a     *)
(* modification time nothing that was read can have.                       *)

Forward ==
  /\ clock \in Nat /\ clock' \in Nat /\ clock <= clock'
  /\ \A f \in Paths : disk'[f] # Absent =>
       \/ disk'[f].mtime = clock + 1
       \/ disk[f] # Absent /\ disk'[f].mtime = disk[f].mtime /\ disk'[f].content = disk[f].content

LEMMA SoundKept ==
  ASSUME Forward, NEW files \in Files, SoundIn(disk, clock, files)
  PROVE  SoundIn(disk', clock', files)
<1> SUFFICES ASSUME NEW p \in PathsIn(files)
             PROVE  /\ files[p].mtime <= clock' /\ files[p].facts = files[p].digest
                    /\ disk'[p] # Absent /\ disk'[p].mtime = files[p].mtime
                         => files[p].facts = disk'[p].content
  BY DEF SoundIn
<1>1. p \in Paths /\ files[p].mtime \in Nat
  BY DEF PathsIn, Files, Entries
<1>2. /\ files[p].mtime <= clock /\ files[p].facts = files[p].digest
      /\ disk[p] # Absent /\ disk[p].mtime = files[p].mtime => files[p].facts = disk[p].content
  BY DEF SoundIn
<1>3. files[p].mtime # clock + 1 /\ files[p].mtime <= clock'
  BY <1>1, <1>2 DEF Forward
<1>4. disk'[p] # Absent =>
        \/ disk'[p].mtime = clock + 1
        \/ disk[p] # Absent /\ disk'[p].mtime = disk[p].mtime /\ disk'[p].content = disk[p].content
  BY <1>1 DEF Forward
<1> QED
  BY <1>2, <1>3, <1>4

LEMMA NothingIsSound ==
  /\ \A d, now : SoundIn(d, now, NoFiles)
  /\ IdleBuilder.files = NoFiles /\ StartedBuilder.files = NoFiles
  /\ EmptyStore.entries = NoFiles
  /\ \A pc : /\ IdlePass(pc).meta = NoFiles
             /\ IdlePass(pc).cs.added = NoFiles /\ IdlePass(pc).cs.updated = NoFiles
BY DEF SoundIn, PathsIn, NoFiles, IdleBuilder, StartedBuilder, EmptyStore, IdlePass, NoChange

LEMMA AppliedIsSound ==
  ASSUME NEW d, NEW now, NEW old \in Files, NEW cs \in ChangeSets,
         SoundIn(d, now, old), SoundIn(d, now, cs.added), SoundIn(d, now, cs.updated)
  PROVE  SoundIn(d, now, [p \in Paths |-> EntryAfter(old[p], p, cs)])
BY DEF SoundIn, PathsIn, EntryAfter

LEMMA EntrySetIsSound ==
  ASSUME NEW d, NEW now, NEW files \in Files, NEW p \in Paths, NEW e \in Entries,
         SoundIn(d, now, files), e.mtime <= now, e.facts = e.digest,
         d[p] # Absent /\ d[p].mtime = e.mtime => e.facts = d[p].content
  PROVE  SoundIn(d, now, [files EXCEPT ![p] = e])
BY DEF SoundIn, PathsIn, Files

\* What indexPath returns is fit to be published.
LEMMA ReturnedIsSound ==
  ASSUME Typed, Timed, NEW a \in Refreshers \cup Queries, ix[a].pc = "ok",
         NEW files \in Files, Sound(files)
  PROVE  /\ [files EXCEPT ![ix[a].path] = IxEntry(a)] \in Files
         /\ Sound([files EXCEPT ![ix[a].path] = IxEntry(a)])
<1>1. ix[a] \in IxRecords /\ Begun(ix[a]) /\ SoundAt(ix[a])
  BY DEF Typed, TypeOK, Walking, Timed, IxSound
<1>2. ix[a].path \in Paths /\ ix[a].facts \in Facts /\ ix[a].digest \in Facts /\ ix[a].mtime \in Nat
  BY <1>1 DEF Begun, IxRecords
<1>3. IxEntry(a) \in Entries /\ IxEntry(a).mtime = ix[a].mtime /\ IxEntry(a).facts = ix[a].facts
      /\ IxEntry(a).digest = ix[a].digest
  BY <1>2 DEF IxEntry, Entry, Entries
<1>4. /\ ix[a].mtime <= clock /\ ix[a].facts = ix[a].digest
      /\ disk[ix[a].path] # Absent /\ disk[ix[a].path].mtime = ix[a].mtime
           => ix[a].facts = disk[ix[a].path].content
  BY <1>1 DEF SoundAt, StillAt, Present
<1>5. [files EXCEPT ![ix[a].path] = IxEntry(a)] \in Files
  BY <1>2, <1>3 DEF Files
<1>6. SoundIn(disk, clock, [files EXCEPT ![ix[a].path] = IxEntry(a)])
  BY <1>2, <1>3, <1>4, EntrySetIsSound DEF Sound
<1> QED
  BY <1>5, <1>6 DEF Sound

-----------------------------------------------------------------------------
(* The entries stay sound.                                                 *)

Sounds == BuilderSound /\ AllSound

\* What was sound before a step still is after it.
StillSound ==
  /\ SoundIn(disk', clock', store.entries)
  /\ snapshot # NoEntry => SoundIn(disk', clock', snapshot)
  /\ \A b \in Builders : SoundIn(disk', clock', builder[b].files)
  /\ \A r \in Refreshers : /\ SoundIn(disk', clock', pass[r].meta)
                           /\ SoundIn(disk', clock', pass[r].cs.added)
                           /\ SoundIn(disk', clock', pass[r].cs.updated)

LEMMA HeldStaySound ==
  ASSUME Typed, AllSound, Forward
  PROVE  StillSound
<1>1. /\ store.entries \in Files
      /\ snapshot # NoEntry => snapshot \in Files
      /\ \A b \in Builders : builder[b].files \in Files
      /\ \A r \in Refreshers : /\ pass[r].meta \in Files
                               /\ pass[r].cs.added \in Files /\ pass[r].cs.updated \in Files
  BY DEF Typed, TypeOK, Stores, BuilderRecords, PassRecords, ChangeSets
<1>2. /\ SoundIn(disk, clock, store.entries)
      /\ snapshot # NoEntry => SoundIn(disk, clock, snapshot)
      /\ \A b \in Builders : SoundIn(disk, clock, builder[b].files)
      /\ \A r \in Refreshers : /\ SoundIn(disk, clock, pass[r].meta)
                               /\ SoundIn(disk, clock, pass[r].cs.added)
                               /\ SoundIn(disk, clock, pass[r].cs.updated)
  BY DEF AllSound, Sound
<1>3. \A files \in Files : SoundIn(disk, clock, files) => SoundIn(disk', clock', files)
  BY SoundKept
<1> HIDE DEF Forward
<1>4. SoundIn(disk', clock', store.entries)
  BY <1>1, <1>2, <1>3
<1>5. snapshot # NoEntry => SoundIn(disk', clock', snapshot)
  BY <1>1, <1>2, <1>3
<1>6. \A b \in Builders : SoundIn(disk', clock', builder[b].files)
  BY <1>1, <1>2, <1>3
<1>7. \A r \in Refreshers : /\ SoundIn(disk', clock', pass[r].meta)
                            /\ SoundIn(disk', clock', pass[r].cs.added)
                            /\ SoundIn(disk', clock', pass[r].cs.updated)
  BY <1>1, <1>2, <1>3
<1> QED
  BY <1>4, <1>5, <1>6, <1>7 DEF StillSound

\* Steps that edit nothing are forward.
LEMMA Standing ==
  ASSUME Typed, UNCHANGED <<disk, clock>>
  PROVE  Forward
<1>1. clock \in Nat
  BY RepoServiceAssumption DEF Typed, TypeOK
<1> QED
  BY <1>1 DEF Forward

LEMMA EditSounds ==
  ASSUME QuietBuilds, Typed, Sounds, NEW p \in Paths, Edit(p)
  PROVE  Forward /\ Sounds'
<1>1. UNCHANGED <<snapshot, store, builder, pass>> /\ clock' = clock + 1 /\ clock \in Nat /\ MayEdit
  BY RepoServiceAssumption DEF Edit, Write, Delete, Chmod, service, Typed, TypeOK
<1>2. Forward
  BY <1>1, EditMoves DEF Forward
<1>3. AllSound'
  <2>1. StillSound
    BY <1>2, HeldStaySound DEF Sounds
  <2> QED
    BY <1>1, <2>1 DEF StillSound, AllSound, Sound
<1>4. \A b \in Builders : builder[b].pc = "idle"
  BY <1>1 DEF MayEdit, Building, IdleBuilders
<1>5. BuilderSound'
  BY <1>1, <1>4 DEF Sounds, BuilderSound, PathsIn
<1> QED
  BY <1>2, <1>3, <1>5 DEF Sounds

\* A step of one build: its own record is sound, and so is what it publishes.
LEMMA BuilderStepSounds ==
  ASSUME Typed, Sounds, NEW b \in Builders, NEW rec, BuilderStep(b, rec),
         \A p \in PathsIn(rec.facts) :
           rec.pc # "idle" /\ disk[p] # Absent /\ rec.facts[p] = disk[p].content,
         rec.pc = "hash" => rec.mtime = disk[rec.at].mtime,
         Sound(rec.files),
         SoundIn(disk, clock, store'.entries),
         snapshot' # NoEntry => SoundIn(disk, clock, snapshot')
  PROVE  Sounds'
<1>1. UNCHANGED <<disk, clock>> /\ UNCHANGED pass
  BY DEF BuilderStep
<1>2. \A c \in Builders : builder'[c] = IF c = b THEN rec ELSE builder[c]
  BY DEF BuilderStep, Typed, TypeOK
<1>3. BuilderSound'
  BY <1>1, <1>2 DEF Sounds, BuilderSound, PathsIn
<1>4. AllSound'
  BY <1>1, <1>2 DEF Sounds, AllSound, Sound
<1> QED
  BY <1>3, <1>4 DEF Sounds

LEMMA BuildSounds ==
  ASSUME Typed, Timed, Sounds, NEW b \in Builders, Build(b)
  PROVE  Sounds'
<1> DEFINE me == builder[b]
<1>0. /\ me \in BuilderRecords /\ disk \in [Paths -> {Absent} \cup DiskFiles]
      /\ me.pc = "hash" => me.at \in PathsIn(me.facts)
      /\ Sound(me.files) /\ SoundIn(disk, clock, store.entries)
      /\ snapshot # NoEntry => SoundIn(disk, clock, snapshot)
      /\ \A p \in PathsIn(me.facts) :
           me.pc # "idle" /\ disk[p] # Absent /\ me.facts[p] = disk[p].content
      /\ me.pc = "hash" => me.mtime = disk[me.at].mtime
  BY DEF Typed, TypeOK, Walking, Sounds, BuilderSound, AllSound, Sound
<1>a. /\ PathsIn(NoFiles) = {} /\ IdleBuilder.facts = NoFiles /\ Sound(NoFiles)
      /\ IdleBuilder.files = NoFiles
  BY NothingIsSound DEF PathsIn, NoFiles, IdleBuilder, Sound
\* A step that keeps the facts and the files it has.
<1>b. ASSUME NEW rec, BuilderStep(b, rec), rec.facts = me.facts, rec.files = me.files,
             rec.pc # "idle", rec.pc = "hash" => rec.mtime = disk[rec.at].mtime,
             UNCHANGED <<store, snapshot>>
      PROVE  Sounds'
  BY <1>0, <1>b, BuilderStepSounds
<1>1. CASE BuildWalk(b)
  <2> DEFINE p == FirstOf(me.todo)
             found == IF Present(p) THEN me.listed \cup {p} ELSE me.listed
             rec == IF me.todo = {p}
                      THEN [me EXCEPT !.pc = "parse", !.todo = found, !.listed = found]
                      ELSE [me EXCEPT !.todo = @ \ {p}, !.listed = found]
  <2>1. BuilderStep(b, rec) /\ me.pc = "walk" /\ UNCHANGED <<store, snapshot>>
    BY <1>1 DEF BuildWalk
  <2> HIDE DEF found, p
  <2>2. rec.facts = me.facts /\ rec.files = me.files /\ rec.pc \in {"walk", "parse"}
    BY <1>0, <2>1 DEF BuilderRecords
  <2> HIDE DEF rec
  <2> QED
    BY <1>b, <2>1, <2>2
<1>2. ASSUME NEW p \in Paths, BuildParse(b, p)
      PROVE  Sounds'
  <2> DEFINE facts == IF Readable(p) THEN [me.facts EXCEPT ![p] = disk[p].content] ELSE me.facts
             errs == IF Readable(p) THEN me.errs ELSE me.errs \cup {p}
             rec == [[[me EXCEPT !.todo = @ \ {p}] EXCEPT !.facts = facts] EXCEPT !.errs = errs]
  <2>1. BuilderStep(b, rec) /\ me.pc = "parse" /\ UNCHANGED <<store, snapshot>>
    BY <1>0, <1>2 DEF BuildParse, BuilderRecords
  <2>2. facts \in [Paths -> MaybeFacts]
    BY <1>0 DEF BuilderRecords, Readable, Present, DiskFiles, MaybeFacts
  <2>3. \A f \in PathsIn(facts) : disk[f] # Absent /\ facts[f] = disk[f].content
    BY <1>0, <2>2 DEF BuilderRecords, Readable, Present, PathsIn
  <2> HIDE DEF facts, errs
  <2>4. rec.facts = facts /\ rec.files = me.files /\ rec.pc = "parse"
    BY <1>0, <2>1 DEF BuilderRecords
  <2> HIDE DEF rec
  <2> QED
    BY <1>0, <2>1, <2>3, <2>4, BuilderStepSounds
<1>3. CASE BuildParsed(b)
  <2> DEFINE rec == [me EXCEPT !.pc = "stat", !.todo = PathsIn(me.facts), !.listed = {}]
  <2>1. BuilderStep(b, rec) /\ UNCHANGED <<store, snapshot>>
    BY <1>3 DEF BuildParsed
  <2>2. rec.facts = me.facts /\ rec.files = me.files /\ rec.pc = "stat"
    BY <1>0 DEF BuilderRecords
  <2> HIDE DEF rec
  <2> QED
    BY <1>b, <2>1, <2>2
<1>4. ASSUME NEW p \in Paths, LoadStat(b, p)
      PROVE  Sounds'
  <2> DEFINE rec == IF Present(p)
                      THEN [me EXCEPT !.pc = "hash", !.at = p, !.mtime = disk[p].mtime]
                      ELSE [me EXCEPT !.todo = @ \ {p}, !.errs = @ \cup {p}]
  <2>1. BuilderStep(b, rec) /\ me.pc = "stat" /\ UNCHANGED <<store, snapshot>>
    BY <1>4 DEF LoadStat
  <2>2. /\ rec.facts = me.facts /\ rec.files = me.files /\ rec.pc # "idle"
        /\ rec.pc = "hash" => rec.mtime = disk[rec.at].mtime
    BY <1>0, <2>1 DEF BuilderRecords
  <2> HIDE DEF rec
  <2> QED
    BY <1>b, <2>1, <2>2
<1>5. CASE LoadDigest(b)
  <2> DEFINE p == me.at
             loaded == [me EXCEPT !.pc = "stat", !.todo = @ \ {p}, !.at = 0, !.mtime = 0]
             entry == Entry(me.mtime, disk[p].content, me.facts[p])
             good == [loaded EXCEPT !.files = [me.files EXCEPT ![p] = entry]]
             bad == [loaded EXCEPT !.errs = @ \cup {p}]
  <2>1. me.pc = "hash" /\ UNCHANGED <<store, snapshot>>
    BY <1>5 DEF LoadDigest
  <2>2. p \in PathsIn(me.facts) /\ p \in Paths
    BY <1>0, <2>1 DEF PathsIn
  <2>3. loaded.pc = "stat" /\ loaded.files = me.files /\ loaded.facts = me.facts
    BY <1>0 DEF BuilderRecords
  <2>4. CASE Readable(p)
    <3>1. BuilderStep(b, good)
      <4>1. BuilderStep(b, [loaded EXCEPT !.files[p] = entry])
        BY <1>5, <2>4 DEF LoadDigest
      <4> QED
        BY <2>3, <4>1
    <3>2. /\ disk[p] \in DiskFiles /\ me.facts[p] = disk[p].content /\ me.mtime = disk[p].mtime
          /\ disk[p].mtime <= clock
      BY <1>0, <2>1, <2>2, <2>4 DEF Readable, Present, Timed, OnTime
    <3>3. entry \in Entries /\ entry.mtime = disk[p].mtime /\ entry.facts = disk[p].content
          /\ entry.digest = disk[p].content
      BY <3>2 DEF Entry, Entries, DiskFiles
    <3>4. me.files \in Files
      BY <1>0 DEF BuilderRecords
    <3> HIDE DEF entry
    <3>5. Sound([me.files EXCEPT ![p] = entry])
      BY <1>0, <2>2, <3>2, <3>3, <3>4, EntrySetIsSound DEF Sound
    <3>6. /\ good.files = [me.files EXCEPT ![p] = entry] /\ good.facts = me.facts
          /\ good.pc = "stat"
      BY <1>0 DEF BuilderRecords
    <3> HIDE DEF good
    <3> QED
      BY <1>0, <2>1, <3>1, <3>5, <3>6, BuilderStepSounds
  <2>5. CASE ~Readable(p)
    <3>1. BuilderStep(b, bad)
      BY <1>5, <2>5 DEF LoadDigest
    <3>2. bad.files = me.files /\ bad.facts = me.facts /\ bad.pc = "stat"
      BY <1>0 DEF BuilderRecords
    <3> HIDE DEF bad
    <3> QED
      BY <1>b, <2>1, <3>1, <3>2
  <2> QED
    BY <2>4, <2>5
<1>6. CASE BuildReplace(b)
  <2> DEFINE rec == [IdleBuilder EXCEPT !.pc = "capture"]
  <2>1. BuilderStep(b, rec) /\ UNCHANGED snapshot
    BY <1>6 DEF BuildReplace
  <2>2. store'.entries = me.files
    BY <1>6 DEF BuildReplace, Replace
  <2>3. rec.facts = NoFiles /\ rec.files = NoFiles /\ rec.pc = "capture"
    BY DEF IdleBuilder
  <2> HIDE DEF rec
  <2> QED
    BY <1>0, <1>a, <2>1, <2>2, <2>3, BuilderStepSounds DEF Sound
<1>7. CASE BuildCapture(b)
  <2> DEFINE rec == [IdleBuilder EXCEPT !.pc = "save", !.files = store.entries]
  <2>1. BuilderStep(b, rec) /\ UNCHANGED <<store, snapshot>>
    BY <1>7 DEF BuildCapture
  <2>2. rec.facts = NoFiles /\ rec.files = store.entries /\ rec.pc = "save"
    BY DEF IdleBuilder
  <2> HIDE DEF rec
  <2> QED
    BY <1>0, <1>a, <2>1, <2>2, BuilderStepSounds DEF Sound
<1>8. CASE BuildSave(b)
  <2>1. BuilderStep(b, IdleBuilder) /\ UNCHANGED store /\ snapshot' = me.files
    BY <1>8 DEF BuildSave
  <2>2. IdleBuilder.pc = "idle"
    BY IdleIsTyped
  <2> QED
    BY <1>0, <1>a, <2>1, <2>2, BuilderStepSounds DEF Sound
<1> QED
  BY <1>1, <1>2, <1>3, <1>4, <1>5, <1>6, <1>7, <1>8 DEF Build

\* A step of one pass.
LEMMA PassStepSounds ==
  ASSUME Typed, Sounds, NEW r \in Refreshers, NEW rec, PassStep(r, rec),
         Sound(rec.meta), Sound(rec.cs.added), Sound(rec.cs.updated),
         SoundIn(disk, clock, store'.entries),
         snapshot' # NoEntry => SoundIn(disk, clock, snapshot'),
         \A b \in Builders : builder'[b] = builder[b] \/ builder'[b] = StartedBuilder
  PROVE  Sounds'
<1>1. UNCHANGED <<disk, clock>>
  BY DEF PassStep
<1>2. \A s \in Refreshers : pass'[s] = IF s = r THEN rec ELSE pass[s]
  BY DEF PassStep, Typed, TypeOK
<1>3. PathsIn(StartedBuilder.facts) = {} /\ StartedBuilder.pc = "walk"
      /\ SoundIn(disk, clock, StartedBuilder.files)
  BY NothingIsSound DEF StartedBuilder, IdleBuilder, NoFiles, PathsIn
<1>4. BuilderSound'
  <2> SUFFICES ASSUME NEW b \in Builders
               PROVE  /\ \A p \in PathsIn(builder'[b].facts) :
                           /\ builder'[b].pc # "idle" /\ disk[p] # Absent
                           /\ builder'[b].facts[p] = disk[p].content
                      /\ builder'[b].pc = "hash" => builder'[b].mtime = disk[builder'[b].at].mtime
    BY <1>1 DEF BuilderSound, PathsIn
  <2> QED
    BY <1>3 DEF Sounds, BuilderSound
<1>5. AllSound'
  BY <1>1, <1>2, <1>3 DEF Sounds, AllSound, Sound
<1> QED
  BY <1>4, <1>5 DEF Sounds

LEMMA PassSounds ==
  ASSUME Typed, Timed, Sounds, NEW r \in Refreshers, RefreshBegin(r) \/ Refresh(r)
  PROVE  Sounds'
<1> DEFINE me == pass[r]
<1>0. /\ me \in PassRecords /\ me.cs \in ChangeSets /\ store \in Stores
      /\ Sound(me.meta) /\ Sound(me.cs.added) /\ Sound(me.cs.updated)
      /\ SoundIn(disk, clock, store.entries)
      /\ snapshot # NoEntry => SoundIn(disk, clock, snapshot)
  BY DEF Typed, TypeOK, Sounds, AllSound, Sound, PassRecords
<1>a. \A pc : /\ Sound(IdlePass(pc).meta) /\ Sound(IdlePass(pc).cs.added)
              /\ Sound(IdlePass(pc).cs.updated)
  BY NothingIsSound DEF Sound
<1>b. \E pc : Rest(r) = IdlePass(pc)
  BY DEF Rest
\* A step that keeps the entries and the change set it has, or has none.
<1>c. ASSUME NEW rec, PassStep(r, rec), UNCHANGED <<store, snapshot, builder>>,
             \/ rec.meta = me.meta /\ rec.cs.added = me.cs.added /\ rec.cs.updated = me.cs.updated
             \/ \E pc : rec = IdlePass(pc)
      PROVE  Sounds'
  <2>1. Sound(rec.meta) /\ Sound(rec.cs.added) /\ Sound(rec.cs.updated)
    BY <1>0, <1>a, <1>c
  <2> QED
    BY <1>0, <1>c, <2>1, PassStepSounds
<1>1. CASE RefreshBegin(r)
  <2>1. UNCHANGED <<store, snapshot, builder>> /\ \E rec : PassStep(r, rec) /\ \E pc : rec = IdlePass(pc)
    BY <1>1, <1>b DEF RefreshBegin
  <2> QED
    BY <1>c, <2>1
<1>2. CASE RefreshLock(r)
  <2>1. CASE lock = NoEntry
    <3> DEFINE rec == [IdlePass("walk") EXCEPT !.meta = store.entries, !.todo = Paths]
    <3>1. PassStep(r, rec) /\ UNCHANGED <<store, snapshot, builder>>
      BY <1>2, <2>1 DEF RefreshLock
    <3>2. rec.meta = store.entries /\ rec.cs.added = NoFiles /\ rec.cs.updated = NoFiles
      BY DEF IdlePass, NoChange
    <3> HIDE DEF rec
    <3> QED
      BY <1>0, <3>1, <3>2, NothingIsSound, PassStepSounds DEF Sound
  <2>2. CASE lock # NoEntry
    BY <1>2, <1>b, <1>c, <2>2 DEF RefreshLock
  <2> QED
    BY <2>1, <2>2
<1>3. CASE DiffWalk(r)
  <2> DEFINE p == FirstOf(me.todo)
             found == IF Present(p) THEN me.listed \cup {p} ELSE me.listed
             rec == IF me.todo = {p}
                       THEN [me EXCEPT !.pc = "diff", !.todo = found, !.listed = {},
                                       !.deleted = PathsIn(me.meta) \ found]
                       ELSE [me EXCEPT !.todo = @ \ {p}, !.listed = found]
  <2>1. PassStep(r, rec) /\ UNCHANGED <<store, snapshot, builder>>
    BY <1>3 DEF DiffWalk
  <2> HIDE DEF p, found
  <2>2. rec.meta = me.meta /\ rec.cs = me.cs
    BY <1>0 DEF PassRecords
  <2> HIDE DEF rec
  <2> QED
    BY <1>c, <2>1, <2>2
<1>4. CASE DiffStat(r)
  <2> DEFINE p == FirstOf(me.todo)
             isAdded == me.meta[p] = NoEntry \/ ~Present(p)
             isChanged == ~isAdded /\ disk[p].mtime # me.meta[p].mtime
             rec == [me EXCEPT !.todo = @ \ {p},
                               !.added = IF isAdded THEN @ \cup {p} ELSE @,
                               !.changed = IF isChanged THEN @ \cup {p} ELSE @]
  <2>1. PassStep(r, rec) /\ UNCHANGED <<store, snapshot, builder>>
    BY <1>4 DEF DiffStat
  <2> HIDE DEF p, isAdded, isChanged
  <2>2. rec.meta = me.meta /\ rec.cs = me.cs
    BY <1>0 DEF PassRecords
  <2> HIDE DEF rec
  <2> QED
    BY <1>c, <2>1, <2>2
<1>5. CASE RefreshRebuild(r)
  <2> DEFINE b == FirstOf(IdleBuilders)
  <2>1. /\ UNCHANGED snapshot /\ PassStep(r, Rest(r)) /\ store'.entries = store.entries
        /\ builder' = [builder EXCEPT ![b] = StartedBuilder]
    BY <1>0, <1>5 DEF RefreshRebuild, SetState, Stores
  <2>2. \A c \in Builders : builder'[c] = builder[c] \/ builder'[c] = StartedBuilder
    <3> HIDE DEF b
    <3> QED
      BY <2>1 DEF Typed, TypeOK
  <2>3. Sound(Rest(r).meta) /\ Sound(Rest(r).cs.added) /\ Sound(Rest(r).cs.updated)
    BY <1>a, <1>b
  <2> QED
    BY <1>0, <2>1, <2>2, <2>3, PassStepSounds
<1>6. CASE RefreshNothing(r)
  BY <1>6, <1>b, <1>c DEF RefreshNothing
<1>7. CASE RefreshIncremental(r)
  <2> DEFINE rec == [me EXCEPT !.pc = "index", !.cs.deleted = me.deleted]
  <2>1. PassStep(r, rec) /\ UNCHANGED <<store, snapshot, builder>>
    BY <1>7 DEF RefreshIncremental
  <2>2. rec.meta = me.meta /\ rec.cs = [me.cs EXCEPT !.deleted = me.deleted]
    BY <1>0 DEF PassRecords
  <2>3. [me.cs EXCEPT !.deleted = me.deleted].added = me.cs.added
        /\ [me.cs EXCEPT !.deleted = me.deleted].updated = me.cs.updated
    BY <1>0 DEF ChangeSets
  <2> HIDE DEF rec
  <2> QED
    BY <1>c, <2>1, <2>2, <2>3
<1>8. CASE RefreshIndex(r)
  BY <1>8, <1>c DEF RefreshIndex
<1>9. CASE RefreshGather(r)
  <2> DEFINE p == ix[r].path
             cs == Gathered(me.cs, r)
             rec == [me EXCEPT !.cs = cs, !.added = @ \ {p}, !.changed = @ \ {p}]
  <2>1. PassStep(r, rec) /\ UNCHANGED <<store, snapshot, builder>> /\ IxReturned(r)
    BY <1>0, <1>9 DEF RefreshGather, PassRecords
  <2>2. cs \in ChangeSets /\ me.cs.added \in Files /\ me.cs.updated \in Files
    BY <1>0, <2>1, GatheredTyped DEF ChangeSets
  <2>3. Sound(cs.added) /\ Sound(cs.updated)
    <3>1. CASE ix[r].pc = "ok"
      <4>1. /\ Sound([me.cs.added EXCEPT ![p] = IxEntry(r)])
            /\ Sound([me.cs.updated EXCEPT ![p] = IxEntry(r)])
        BY <1>0, <2>2, <3>1, ReturnedIsSound
      <4>2. \/ cs.added = [me.cs.added EXCEPT ![p] = IxEntry(r)] /\ cs.updated = me.cs.updated
            \/ cs.added = me.cs.added /\ cs.updated = [me.cs.updated EXCEPT ![p] = IxEntry(r)]
        BY <1>0, <3>1 DEF Gathered, ChangeSets
      <4> HIDE DEF cs
      <4> QED
        BY <1>0, <4>1, <4>2
    <3>2. CASE ix[r].pc # "ok"
      <4>1. cs.added = me.cs.added /\ cs.updated = me.cs.updated
        BY <1>0, <2>1, <3>2 DEF Gathered, ChangeSets, IxReturned
      <4> HIDE DEF cs
      <4> QED
        BY <1>0, <4>1
    <3> QED
      BY <3>1, <3>2
  <2> HIDE DEF cs
  <2>4. rec.meta = me.meta /\ rec.cs = cs
    BY <1>0 DEF PassRecords
  <2>5. \A b \in Builders : builder'[b] = builder[b]
    BY <2>1
  <2>6. SoundIn(disk, clock, store'.entries) /\ (snapshot' # NoEntry => SoundIn(disk, clock, snapshot'))
    BY <1>0, <2>1
  <2> HIDE DEF rec
  <2> QED
    BY <1>0, <2>1, <2>3, <2>4, <2>5, <2>6, PassStepSounds
<1>10. CASE RefreshApply(r)
  <2>1. UNCHANGED <<builder, snapshot>> /\ PassStep(r, IdlePass("capture"))
    BY <1>10 DEF RefreshApply
  <2>2. store'.entries = [p \in Paths |-> EntryAfter(store.entries[p], p, me.cs)]
    BY <1>10 DEF RefreshApply, Apply
  <2>3. store.entries \in Files
    BY <1>0 DEF Stores
  <2>4. SoundIn(disk, clock, store'.entries)
    BY <1>0, <2>2, <2>3, AppliedIsSound DEF Sound
  <2>5. \A b \in Builders : builder'[b] = builder[b]
    BY <2>1
  <2> QED
    BY <1>0, <1>a, <2>1, <2>4, <2>5, PassStepSounds
<1>11. CASE RefreshCapture(r)
  <2> DEFINE rec == [IdlePass("save") EXCEPT !.meta = store.entries]
  <2>1. PassStep(r, rec) /\ UNCHANGED <<store, snapshot, builder>>
    BY <1>11 DEF RefreshCapture
  <2>2. rec.meta = store.entries /\ rec.cs.added = NoFiles /\ rec.cs.updated = NoFiles
    BY DEF IdlePass, NoChange
  <2> HIDE DEF rec
  <2> QED
    BY <1>0, <2>1, <2>2, NothingIsSound, PassStepSounds DEF Sound
<1>12. CASE RefreshSave(r)
  <2>1. UNCHANGED <<store, builder>> /\ PassStep(r, Rest(r)) /\ snapshot' = me.meta
    BY <1>12 DEF RefreshSave
  <2>2. Sound(Rest(r).meta) /\ Sound(Rest(r).cs.added) /\ Sound(Rest(r).cs.updated)
    BY <1>a, <1>b
  <2>3. \A b \in Builders : builder'[b] = builder[b]
    BY <2>1
  <2> QED
    BY <1>0, <2>1, <2>2, <2>3, PassStepSounds DEF Sound
<1> QED
  BY <1>1, <1>2, <1>3, <1>4, <1>5, <1>6, <1>7, <1>8, <1>9, <1>10, <1>11, <1>12 DEF Refresh

\* A request publishes what its indexPath returned, under the path it asked.
LEMMA QuerySounds ==
  ASSUME Typed, Timed, Sounds, QuerySound, NEW q \in Queries, Query(q)
  PROVE  Sounds'
<1>1. UNCHANGED <<disk, clock>> /\ UNCHANGED snapshot /\ UNCHANGED builder /\ UNCHANGED pass
  BY DEF Query, QueryResolve, QueryMeta, QueryDigest, QueryApply, QueryDone, QueryStep
<1>2. SoundIn(disk, clock, store'.entries)
  <2>0. SoundIn(disk, clock, store.entries)
    BY DEF Sounds, AllSound, Sound
  <2>1. CASE QueryApply(q) /\ ix[q].pc = "ok"
    <3> DEFINE files == [NoFiles EXCEPT ![query[q].path] = IxEntry(q)]
               cs == [NoChange EXCEPT !.updated = files]
    <3>1. PICK st \in Verdicts :
            store' = Apply(store, [NoChange EXCEPT !.updated[query[q].path] = IxEntry(q)], st)
      BY <2>1 DEF QueryApply
    <3>2. [NoChange EXCEPT !.updated[query[q].path] = IxEntry(q)] = cs
      BY DEF NoChange
    <3>3. ix[q].path = query[q].path
      BY <2>1 DEF QueryApply, QuerySound, Seen
    <3>4. files \in Files /\ Sound(files)
      BY <2>1, <3>3, IdleIsTyped, NothingIsSound, ReturnedIsSound DEF Sound
    <3> HIDE DEF files
    <3>5. cs \in ChangeSets /\ cs.added = NoFiles /\ cs.updated = files
      BY <3>4, IdleIsTyped DEF ChangeSets, NoChange
    <3> HIDE DEF cs
    <3>6. store'.entries = [p \in Paths |-> EntryAfter(store.entries[p], p, cs)]
      BY <3>1, <3>2 DEF Apply
    <3>7. store.entries \in Files
      BY DEF Typed, TypeOK, Stores
    <3> QED
      BY <2>0, <3>4, <3>5, <3>6, <3>7, NothingIsSound, AppliedIsSound DEF Sound
  <2>2. CASE ~(QueryApply(q) /\ ix[q].pc = "ok")
    <3>1. UNCHANGED store
      BY <2>2 DEF Query, QueryResolve, QueryMeta, QueryDigest, QueryApply, QueryDone
    <3> QED
      BY <2>0, <3>1
  <2> QED
    BY <2>1, <2>2
<1>3. BuilderSound'
  BY <1>1 DEF Sounds, BuilderSound, PathsIn
<1>4. AllSound'
  BY <1>1, <1>2 DEF Sounds, AllSound, Sound
<1> QED
  BY <1>3, <1>4 DEF Sounds

LEMMA NextSounds ==
  ASSUME QuietBuilds, Typed, Timed, Sounds, QuerySound, [Next]_vars
  PROVE  Sounds'
<1>0. /\ \A b \in Builders : Sound(builder[b].files)
      /\ \A r \in Refreshers : /\ Sound(pass[r].meta)
                               /\ Sound(pass[r].cs.added) /\ Sound(pass[r].cs.updated)
      /\ Sound(store.entries)
      /\ snapshot # NoEntry => Sound(snapshot)
  BY DEF Sounds, AllSound
<1>a. /\ SoundIn(disk, clock, NoFiles) /\ PathsIn(NoFiles) = {}
      /\ \A pc : /\ IdlePass(pc).meta = NoFiles
                 /\ IdlePass(pc).cs.added = NoFiles /\ IdlePass(pc).cs.updated = NoFiles
      /\ EmptyStore.entries = NoFiles
      /\ IdleBuilder.pc = "idle" /\ IdleBuilder.facts = NoFiles /\ IdleBuilder.files = NoFiles
      /\ StartedBuilder.pc = "walk" /\ StartedBuilder.facts = NoFiles
      /\ StartedBuilder.files = NoFiles
  BY NothingIsSound DEF PathsIn, NoFiles, IdleBuilder, StartedBuilder
<1>1. CASE UNCHANGED vars
  <2>1. UNCHANGED <<disk, clock>> /\ UNCHANGED <<snapshot, store, builder, pass>>
    BY <1>1 DEF vars, service
  <2> QED
    BY <2>1 DEF Sounds, BuilderSound, AllSound, Sound, PathsIn
<1>2. CASE Boot
  <2>1. UNCHANGED <<disk, clock>> /\ UNCHANGED snapshot
    BY <1>2 DEF Boot
  <2>2. SoundIn(disk, clock, store'.entries)
    BY <1>0, <1>2, <1>a DEF Boot, Replace, Sound
  <2>3. \A r \in Refreshers : \E pc : pass'[r] = IdlePass(pc)
    BY <1>2 DEF Boot, Rest
  <2>4. \A b \in Builders : builder'[b] = builder[b] \/ builder'[b] = StartedBuilder
    BY <1>2 DEF Boot, Typed, TypeOK
  <2>5. \A b \in Builders : SoundIn(disk, clock, builder'[b].files)
    BY <1>0, <1>a, <2>4 DEF Sound
  <2>6. BuilderSound'
    <3> SUFFICES ASSUME NEW b \in Builders
                 PROVE  /\ \A p \in PathsIn(builder'[b].facts) :
                             /\ builder'[b].pc # "idle" /\ disk[p] # Absent
                             /\ builder'[b].facts[p] = disk[p].content
                        /\ builder'[b].pc = "hash" => builder'[b].mtime = disk[builder'[b].at].mtime
      BY <2>1 DEF BuilderSound, PathsIn
    <3> QED
      BY <1>a, <2>4 DEF Sounds, BuilderSound
  <2>7. AllSound'
    BY <1>0, <1>a, <2>1, <2>2, <2>3, <2>5 DEF AllSound, Sound
  <2> QED
    BY <2>6, <2>7 DEF Sounds
<1>3. CASE Crash
  <2>1. /\ UNCHANGED <<disk, clock>> /\ UNCHANGED snapshot /\ store' = EmptyStore
        /\ \A b \in Builders : builder'[b] = IdleBuilder
        /\ \A r \in Refreshers : pass'[r] = IdlePass("done")
    BY <1>3 DEF Crash, NothingRunning
  <2>2. BuilderSound'
    BY <1>a, <2>1 DEF BuilderSound, PathsIn
  <2>3. AllSound'
    BY <1>0, <1>a, <2>1 DEF AllSound, Sound
  <2> QED
    BY <2>2, <2>3 DEF Sounds
<1>4. ASSUME NEW a \in Refreshers \cup Queries, IndexPath(a)
      PROVE  Sounds'
  <2>1. UNCHANGED <<disk, clock>> /\ UNCHANGED <<snapshot, store, builder, pass>>
    BY <1>4 DEF IndexPath, IxStat, IxDigest, IxParse, IxRestat, IxStep
  <2> QED
    BY <2>1 DEF Sounds, BuilderSound, AllSound, Sound, PathsIn
<1> QED
  BY <1>1, <1>2, <1>3, <1>4, EditSounds, BuildSounds, PassSounds, QuerySounds DEF Next

-----------------------------------------------------------------------------
(* Requests answer with a content their file had since they were asked.    *)

\* A step that leaves the file system and one request alone.
LEMMA SeenFrame ==
  ASSUME NEW q \in Queries, Seen(query[q], ix[q]), UNCHANGED disk,
         query'[q] = query[q], ix'[q] = ix[q]
  PROVE  Seen(query[q], ix[q])'
BY DEF Seen, Present

LEMMA EditSeen ==
  ASSUME Typed, QuerySound, NEW p \in Paths, Edit(p)
  PROVE  QuerySound'
<1> SUFFICES ASSUME NEW q \in Queries
             PROVE  Seen(query[q], ix[q])'
  BY DEF QuerySound
<1> DEFINE me == query[q]
<1>0. /\ me \in QueryRecords /\ Seen(me, ix[q]) /\ disk \in [Paths -> {Absent} \cup DiskFiles]
      /\ me.pc # "idle" => me.path \in Paths
  BY DEF Typed, TypeOK, Walking, QuerySound
<1>1. ix'[q] = ix[q]
  BY DEF Edit, Write, Delete, Chmod, service
<1>2. CASE Delete(p) \/ Chmod(p)
  <2>1. query'[q] = me
    BY <1>2 DEF Delete, Chmod, service
  <2>2. ASSUME NEW f \in Paths, disk'[f] # Absent
        PROVE  disk[f] # Absent /\ disk'[f].content = disk[f].content
    <3>1. CASE Delete(p)
      BY <1>0, <2>2, <3>1 DEF Delete
    <3>2. CASE Chmod(p)
      <4>1. disk[p] \in DiskFiles
        BY <1>0, <3>2 DEF Chmod, Present
      <4>2. disk' = [disk EXCEPT ![p] = [disk[p] EXCEPT !.readable = ~@]]
        BY <3>2 DEF Chmod
      <4>3. [disk[p] EXCEPT !.readable = ~@].content = disk[p].content
        BY <4>1 DEF DiskFiles
      <4>4. Present(p)
        BY <3>2 DEF Chmod
      <4> QED
        BY <1>0, <2>2, <4>2, <4>3, <4>4 DEF Present
    <3> QED
      BY <1>2, <3>1, <3>2
  <2>3. me.pc # "idle" /\ disk'[me.path] # Absent =>
          disk[me.path] # Absent /\ disk'[me.path].content = disk[me.path].content
    BY <1>0, <2>2
  <2> QED
    BY <1>0, <1>1, <2>1, <2>3 DEF Seen, Present
<1>3. ASSUME NEW c \in Facts, Write(p, c)
      PROVE  Seen(query[q], ix[q])'
  <2>1. /\ disk' = [disk EXCEPT ![p] = [mtime |-> clock + 1, content |-> c, readable |-> TRUE]]
        /\ query'[q] = IF me.pc # "idle" /\ me.path = p
                         THEN [me EXCEPT !.seen = @ \cup {c}] ELSE me
    BY <1>3 DEF Write, Witnessed
  <2>2. CASE me.pc # "idle" /\ me.path = p
    <3>1. /\ query'[q].seen = me.seen \cup {c} /\ query'[q].pc = me.pc /\ query'[q].path = p
          /\ query'[q].entry = me.entry /\ query'[q].answer = me.answer
      BY <1>0, <2>1, <2>2 DEF QueryRecords
    <3>2. disk'[p].content = c
      BY <1>0, <2>1
    <3> QED
      BY <1>0, <1>1, <2>2, <3>1, <3>2 DEF Seen, Present
  <2>3. CASE ~(me.pc # "idle" /\ me.path = p)
    <3>1. query'[q] = me
      BY <2>1, <2>3
    <3>2. me.pc # "idle" => disk'[me.path] = disk[me.path]
      BY <1>0, <2>1, <2>3
    <3> QED
      BY <1>0, <1>1, <3>1, <3>2 DEF Seen, Present
  <2> QED
    BY <2>2, <2>3
<1> QED
  BY <1>2, <1>3 DEF Edit

\* A reading indexPath reads what its request has seen.
LEMMA IxSeen ==
  ASSUME Typed, QuerySound, NEW a \in Refreshers \cup Queries, IndexPath(a)
  PROVE  QuerySound'
<1> SUFFICES ASSUME NEW q \in Queries
             PROVE  Seen(query[q], ix[q])'
  BY DEF QuerySound
<1>0. /\ Seen(query[q], ix[q]) /\ UNCHANGED disk /\ UNCHANGED query
      /\ ix \in [Refreshers \cup Queries -> IxRecords] /\ ix[a] \in IxRecords
  BY DEF QuerySound, Typed, TypeOK, IndexPath, IxStat, IxDigest, IxParse, IxRestat, IxStep
<1>1. \E rec : ix' = [ix EXCEPT ![a] = rec]
  BY DEF IndexPath, IxStat, IxDigest, IxParse, IxRestat, IxStep
<1>2. CASE a # q
  <2>1. ix'[q] = ix[q]
    BY <1>0, <1>1, <1>2
  <2> QED
    BY <1>0, <2>1, SeenFrame
<1>3. CASE a = q
  <2> DEFINE me == ix[q]
             p == me.path
             new == ix'[q]
  <2>1. /\ me.pc # "off" /\ new.pc # "off" /\ new.path = p
        /\ new.pc \in {"restat", "ok"} =>
             \/ Present(p) /\ new.facts = disk[p].content
             \/ me.pc \in {"restat", "ok"} /\ new.facts = me.facts
    <3>1. CASE IxStat(q)
      BY <1>0, <1>3, <3>1 DEF IxStat, IxStep, IxFailed, IdleIx, IxRecords
    <3>2. CASE IxDigest(q)
      <4> DEFINE prev == PrevEntry(a)
                 rec == IF ~Readable(p) THEN IxFailed(q)
                        ELSE IF prev # NoEntry /\ prev.digest = disk[p].content
                          THEN [IdleIx EXCEPT !.pc = "same", !.path = p]
                        ELSE [me EXCEPT !.pc = "parse", !.digest = disk[p].content]
      <4>1. ix' = [ix EXCEPT ![q] = rec] /\ me.pc = "hash"
        BY <1>3, <3>2 DEF IxDigest, IxStep
      <4> HIDE DEF prev
      <4>2. rec.pc \in {"error", "same", "parse"} /\ rec.path = p
        BY <1>0, <1>3, <4>1 DEF IxFailed, IdleIx, IxRecords
      <4> HIDE DEF rec
      <4> QED
        BY <1>0, <4>1, <4>2
    <3>3. CASE IxParse(q)
      BY <1>0, <1>3, <3>3 DEF IxParse, IxStep, IxFailed, IdleIx, IxRecords, Readable
    <3>4. CASE IxRestat(q)
      <4> DEFINE rec == IF ~Present(p) THEN IxFailed(q)
                        ELSE IF Unmoved(q) THEN [me EXCEPT !.pc = "ok"]
                        ELSE IF MayRetry(q) THEN Retried(q)
                        ELSE [IdleIx EXCEPT !.pc = "unstable", !.path = p]
      <4>1. ix' = [ix EXCEPT ![q] = rec] /\ me.pc = "restat"
        BY <3>4 DEF IxRestat, IxStep
      <4>2. Retried(q).pc = "stat" /\ Retried(q).path = p
        BY DEF Retried, StartIx, IdleIx
      <4>3. /\ rec.pc \in {"error", "ok", "stat", "unstable"} /\ rec.path = p
            /\ rec.pc = "ok" => rec.facts = me.facts
        BY <1>0, <1>3, <4>2 DEF IxFailed, IdleIx, IxRecords
      <4> HIDE DEF rec
      <4> QED
        BY <1>0, <4>1, <4>3
    <3> QED
      BY <1>3, <3>1, <3>2, <3>3, <3>4 DEF IndexPath
  <2>2. query[q].pc = "index" /\ p = query[q].path
    BY <1>0, <2>1 DEF Seen
  <2>3. Present(p) => disk[p].content \in query[q].seen
    BY <1>0, <2>2 DEF Seen
  <2>4. new.pc \in {"restat", "ok"} => new.facts \in query[q].seen
    BY <1>0, <2>1, <2>3 DEF Seen
  <2> HIDE DEF new
  <2>5. Seen(query[q], new)
    BY <1>0, <2>1, <2>2, <2>4 DEF Seen
  <2> QED
    BY <1>0, <2>5 DEF Seen, Present, new
<1> QED
  BY <1>2, <1>3

LEMMA QuerySeen ==
  ASSUME Typed, Sounds, QuerySound, NEW a \in Queries, Query(a)
  PROVE  QuerySound'
<1> SUFFICES ASSUME NEW q \in Queries
             PROVE  Seen(query[q], ix[q])'
  BY DEF QuerySound
<1>0. /\ Seen(query[q], ix[q]) /\ UNCHANGED disk
      /\ ix \in [Refreshers \cup Queries -> IxRecords] /\ query \in [Queries -> QueryRecords]
  BY DEF QuerySound, Typed, TypeOK, Query, QueryResolve, QueryMeta, QueryDigest, QueryApply,
         QueryDone, QueryStep
<1>1. \E rec, i : query' = [query EXCEPT ![a] = rec] /\ (UNCHANGED ix \/ ix' = [ix EXCEPT ![a] = i])
  BY DEF Query, QueryResolve, QueryMeta, QueryDigest, QueryApply, QueryDone, QueryStep
<1>2. CASE a # q
  <2>1. ix'[q] = ix[q] /\ query'[q] = query[q]
    BY <1>0, <1>1, <1>2
  <2> QED
    BY <1>0, <2>1, SeenFrame
<1>3. CASE a = q
  <2> DEFINE me == query[q]
             p == me.path
  <2>0. /\ me \in QueryRecords /\ ix[q] \in IxRecords /\ Seen(me, ix[q])
    BY <1>0
  <2>a. ASSUME NEW rec, NEW i, query'[q] = rec, ix'[q] = i, Seen(rec, i)
        PROVE  Seen(query[q], ix[q])'
    BY <1>0, <2>a DEF Seen, Present
  <2>b. Seen(IdleQuery, IdleIx) /\ IdleIx.pc = "off"
    BY DEF Seen, IdleQuery, IdleIx
  <2>c. ASSUME ix[q].pc = "off" PROVE Seen(IdleQuery, ix[q])
    BY <2>c DEF Seen, IdleQuery
  <2>1. ASSUME NEW f \in Paths, QueryResolve(q, f)
        PROVE  Seen(query[q], ix[q])'
    <3> DEFINE rec == [IdleQuery EXCEPT !.pc = "meta", !.path = f,
                                        !.seen = IF Present(f) THEN {disk[f].content} ELSE {}]
    <3>1. query'[q] = rec /\ ix'[q] = ix[q] /\ me.pc = "idle"
      BY <1>0, <2>1 DEF QueryResolve, QueryStep
    <3>2. ix[q].pc = "off"
      BY <2>0, <3>1 DEF Seen
    <3>3. Seen(rec, ix[q])
      BY <3>2 DEF Seen, IdleQuery
    <3> HIDE DEF rec
    <3> QED
      BY <2>a, <3>1, <3>3
  <2>2. CASE QueryMeta(q)
    <3> DEFINE e == store.entries[p]
               rec == [me EXCEPT !.pc = "hash", !.entry = e]
    <3>1. /\ me.pc = "meta" /\ ix'[q] = ix[q]
          /\ query'[q] = IF e = NoEntry THEN IdleQuery ELSE rec
      BY <1>0, <2>2 DEF QueryMeta, QueryStep
    <3>2. ix[q].pc = "off" /\ p \in Paths
      BY <2>0, <3>1 DEF Seen, Typed, Walking
    <3>3. e # NoEntry => e.facts = e.digest
      BY <3>2 DEF Sounds, AllSound, Sound, SoundIn, PathsIn
    <3>4. e # NoEntry => Seen(rec, ix[q])
      <4> HIDE DEF e
      <4> QED
        BY <2>0, <3>1, <3>2, <3>3 DEF Seen, QueryRecords
    <3> HIDE DEF rec
    <3> QED
      BY <2>a, <2>c, <3>1, <3>2, <3>4
  <2>3. CASE QueryDigest(q)
    <3>1. me.pc = "hash" /\ ix[q].pc = "off" /\ p \in Paths /\ me.entry.facts = me.entry.digest
      BY <2>0, <2>3 DEF QueryDigest, Seen, Typed, Walking
    <3>2. CASE Fresh(q)
      <4> DEFINE rec == [me EXCEPT !.pc = "answered", !.answer = me.entry.facts]
      <4>1. query'[q] = rec /\ ix'[q] = ix[q]
        BY <1>0, <2>3, <3>2 DEF QueryDigest, QueryStep
      <4>2. me.entry.facts \in me.seen
        BY <2>0, <3>1, <3>2 DEF Fresh, Readable, Seen
      <4>3. Seen(rec, ix[q])
        BY <2>0, <3>1, <4>2 DEF Seen, QueryRecords
      <4> HIDE DEF rec
      <4> QED
        BY <2>a, <4>1, <4>3
    <3>3. CASE Readable(p) /\ ~Fresh(q)
      <4> DEFINE rec == [me EXCEPT !.pc = "index"]
      <4>1. query'[q] = rec /\ ix'[q] = StartIx(p)
        BY <1>0, <2>3, <3>3 DEF QueryDigest, QueryStep
      <4>2. StartIx(p).pc = "stat" /\ StartIx(p).path = p
        BY DEF StartIx, IdleIx
      <4>3. Seen(rec, StartIx(p))
        BY <2>0, <3>1, <4>2 DEF Seen, QueryRecords
      <4> HIDE DEF rec
      <4> QED
        BY <2>a, <4>1, <4>3
    <3>4. CASE ~Readable(p)
      <4>1. query'[q] = IdleQuery /\ ix'[q] = ix[q]
        BY <1>0, <2>3, <3>4 DEF QueryDigest, QueryStep, Fresh
      <4> QED
        BY <2>a, <2>c, <3>1, <4>1
    <3> QED
      BY <3>2, <3>3, <3>4
  <2>4. CASE QueryApply(q)
    <3>1. me.pc = "index" /\ ix'[q] = IdleIx
      BY <1>0, <2>4 DEF QueryApply
    <3>2. CASE ix[q].pc = "ok"
      <4> DEFINE rec == [me EXCEPT !.pc = "answered", !.answer = ix[q].facts]
      <4>1. query'[q] = rec
        BY <1>0, <2>4, <3>2 DEF QueryApply, QueryStep
      <4>2. ix[q].facts \in me.seen
        BY <2>0, <3>2 DEF Seen
      <4>3. Seen(rec, IdleIx)
        BY <2>0, <2>b, <3>1, <4>2 DEF Seen, QueryRecords
      <4> HIDE DEF rec
      <4> QED
        BY <2>a, <3>1, <4>1, <4>3
    <3>3. CASE ix[q].pc # "ok"
      <4>1. query'[q] = IdleQuery
        BY <1>0, <2>4, <3>3 DEF QueryApply, QueryStep
      <4> QED
        BY <2>a, <2>b, <3>1, <4>1
    <3> QED
      BY <3>2, <3>3
  <2>5. CASE QueryDone(q)
    <3>1. query'[q] = IdleQuery /\ ix'[q] = ix[q] /\ ix[q].pc = "off"
      BY <1>0, <2>0, <2>5 DEF QueryDone, QueryStep, Seen
    <3> QED
      BY <2>a, <2>c, <3>1
  <2> QED
    BY <1>3, <2>1, <2>2, <2>3, <2>4, <2>5 DEF Query
<1> QED
  BY <1>2, <1>3

LEMMA NextSeen ==
  ASSUME Typed, Sounds, QuerySound, [Next]_vars
  PROVE  QuerySound'
<1>0. ix \in [Refreshers \cup Queries -> IxRecords] /\ Refreshers \cap Queries = {}
  BY RepoServiceAssumption DEF Typed, TypeOK, Refreshers
<1>a. ASSUME UNCHANGED <<disk, query>>, \A q \in Queries : ix'[q] = ix[q]
      PROVE  QuerySound'
  BY <1>a, SeenFrame DEF QuerySound
<1>1. CASE UNCHANGED vars
  <2>1. UNCHANGED <<disk, query>> /\ UNCHANGED ix
    BY <1>1 DEF vars, service
  <2> QED
    BY <1>a, <2>1
<1>2. CASE Boot
  BY <1>2, <1>a DEF Boot
<1>3. CASE Crash
  <2>1. UNCHANGED disk /\ \A q \in Queries : query'[q] = IdleQuery /\ ix'[q] = IdleIx
    BY <1>3 DEF Crash, NothingRunning
  <2>2. IdleQuery.pc = "idle" /\ IdleIx.pc = "off"
    BY IdleIsTyped
  <2> QED
    BY <2>1, <2>2 DEF QuerySound, Seen
<1>4. ASSUME NEW b \in Builders, Build(b)
      PROVE  QuerySound'
  <2>1. UNCHANGED <<disk, query>> /\ UNCHANGED ix
    BY <1>4 DEF Build, BuildWalk, BuildParse, BuildParsed, LoadStat, LoadDigest, BuildReplace,
                BuildCapture, BuildSave, BuilderStep
  <2> QED
    BY <1>a, <2>1
<1>5. ASSUME NEW r \in Refreshers, RefreshBegin(r) \/ Refresh(r)
      PROVE  QuerySound'
  <2>1. UNCHANGED <<disk, query>>
    BY <1>5 DEF RefreshBegin, Refresh, RefreshLock, DiffWalk, DiffStat, RefreshRebuild, RefreshNothing,
                RefreshIncremental, RefreshIndex, RefreshGather, RefreshApply, RefreshCapture,
                RefreshSave, PassStep
  <2>2. UNCHANGED ix \/ ix' = [ix EXCEPT ![r] = IdleIx] \/ \E p : ix' = [ix EXCEPT ![r] = StartIx(p)]
    BY <1>5 DEF RefreshBegin, Refresh, RefreshLock, DiffWalk, DiffStat, RefreshRebuild, RefreshNothing,
                RefreshIncremental, RefreshIndex, RefreshGather, RefreshApply, RefreshCapture,
                RefreshSave
  <2>3. \A q \in Queries : ix'[q] = ix[q]
    BY <1>0, <2>2
  <2> QED
    BY <1>a, <2>1, <2>3
<1> QED
  BY <1>1, <1>2, <1>3, <1>4, <1>5, EditSeen, IxSeen, QuerySeen DEF Next

-----------------------------------------------------------------------------
(* The inductive invariant, and what follows.                              *)

IInv == Typed /\ Timed /\ Sounds /\ QuerySound

LEMMA InitIInv ==
  ASSUME Init
  PROVE  IInv
<1>1. Typed
  BY InitTyped
<1>2. Timed
  BY InitTimed
<1>3. BuilderSound
  <2>1. IdleBuilder.facts = NoFiles /\ IdleBuilder.pc = "idle" /\ PathsIn(NoFiles) = {}
    BY DEF IdleBuilder, PathsIn, NoFiles
  <2> QED
    BY <2>1 DEF Init, BuilderSound
<1>4. AllSound
  BY NothingIsSound DEF Init, AllSound, Sound
<1>5. QuerySound
  BY DEF Init, QuerySound, Seen, IdleQuery, IdleIx
<1> QED
  BY <1>1, <1>2, <1>3, <1>4, <1>5 DEF IInv, Sounds

LEMMA NextIInv ==
  ASSUME QuietBuilds, IInv, [Next]_vars
  PROVE  IInv'
<1>1. Typed'
  BY NextTyped DEF IInv
<1>2. Timed'
  BY NextTimed DEF IInv
<1>3. Sounds'
  BY NextSounds DEF IInv
<1>4. QuerySound'
  BY NextSeen DEF IInv
<1> QED
  BY <1>1, <1>2, <1>3, <1>4 DEF IInv

\* When no file is edited while a build runs, no interleaving of builds,
\* passes and requests, and no crash, leaves a published or a persisted entry
\* that the diff (repo.go:637) takes for current and that is not.
THEOREM EntriesThatLookCurrentAre ==
  ASSUME QuietBuilds
  PROVE  Spec => []LooksCurrentIsCurrent
<1>1. Init => IInv
  BY InitIInv
<1>2. IInv /\ [Next]_vars => IInv'
  BY NextIInv
<1>3. IInv => LooksCurrentIsCurrent
  <2> SUFFICES ASSUME IInv
               PROVE  LooksCurrentIsCurrent
    OBVIOUS
  <2>1. \A files : Sound(files) => CurrentIn(files)
    BY DEF Sound, SoundIn, PathsIn, CurrentIn, Present
  <2> QED
    BY <2>1 DEF IInv, Sounds, AllSound, LooksCurrentIsCurrent
<1> QED
  BY <1>1, <1>2, <1>3, PTL DEF Spec

\* Under the same condition freshFacts (repo.go:786) answers with facts of a
\* content its file had between the request and the answer.
THEOREM AnswersAreFresh ==
  ASSUME QuietBuilds
  PROVE  Spec => []FreshAnswer
<1>1. Init => IInv
  BY InitIInv
<1>2. IInv /\ [Next]_vars => IInv'
  BY NextIInv
<1>3. IInv => FreshAnswer
  BY DEF IInv, QuerySound, Seen, FreshAnswer
<1> QED
  BY <1>1, <1>2, <1>3, PTL DEF Spec
=============================================================================
