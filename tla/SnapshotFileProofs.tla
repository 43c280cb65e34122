------------------------- MODULE SnapshotFileProofs -------------------------
(***************************************************************************)
(* With one server, the snapshot file is whole after any number of saves,  *)
(* failures and crashes, and the saves implement AtomicFile.               *)
(*                                                                         *)
(* The argument: the server never has the inode at the snapshot path open. *)
(* It creates its file under a new inode, or truncates the one a crash     *)
(* left at path.tmp, which was never renamed.                              *)
(***************************************************************************)
EXTENDS SnapshotFile, TLAPS

\* What the step of a save says about the two directory entries.
SavePlace ==
  \A s \in Servers :
    /\ server[s].pc = "create" => /\ server[s].save \in Saves /\ path # server[s].save
                                  /\ server[s].save <= saves
    /\ server[s].pc \in {"encode", "rename", "remove"} => server[s].save \in Saves
    /\ server[s].pc \in {"encode", "rename"} => server[s].fd = tmp /\ tmp # NoFile
    /\ server[s].pc \in {"encode", "rename"} =>
         \A part \in Parts \ server[s].left : inode[tmp][part] = server[s].save
    /\ server[s].pc = "rename" => server[s].left = {}
    /\ server[s].pc = "idle" => server[s].save = 0

\* Inodes in the directory are distinct, and older than the next save.
Directory ==
  /\ tmp # NoFile => tmp # path /\ tmp <= saves
  /\ path # NoFile => path <= saves

FileInv == TypeOK /\ SavePlace /\ Directory /\ SnapshotIsWhole

LEMMA FileInit == Init => FileInv
<1>. SUFFICES ASSUME Init PROVE FileInv
  OBVIOUS
<1>. USE SnapshotFileAssumption DEF Init, Resting, Saves
<1>1. TypeOK
  BY DEF TypeOK, MaybeInode, Pcs, Empty
<1>2. SavePlace /\ Directory /\ SnapshotIsWhole
  BY DEF SavePlace, Directory, SnapshotIsWhole
<1>. QED
  BY <1>1, <1>2 DEF FileInv

OneServer == \A s, t \in Servers : s = t

\* The record of a server is a record of its type, whatever a step sets in it.
LEMMA ServerType ==
  ASSUME TypeOK, NEW s \in Servers
  PROVE  /\ server[s] \in [pc: Pcs, save: Saves \cup {0}, fd: MaybeInode, left: SUBSET Parts]
         /\ server[s].save \in Saves \cup {0} /\ server[s].fd \in MaybeInode
         /\ server[s].left \subseteq Parts /\ server[s].pc \in Pcs
         /\ Resting \in [pc: Pcs, save: Saves \cup {0}, fd: MaybeInode, left: SUBSET Parts]
  BY DEF TypeOK, Resting, Pcs, MaybeInode

\* A step that leaves the directory and the inodes alone, and after which the
\* server rests or is about to remove its file.
LEMMA LetGo ==
  ASSUME FileInv, NEW s \in Servers, OneServer,
         UNCHANGED <<tmp, path, inode, saves>>,
         \/ server' = [server EXCEPT ![s] = Resting]
         \/ server[s].save \in Saves /\ Goto(s, "remove")
  PROVE  FileInv'
<1>1. TypeOK'
  BY ServerType DEF FileInv, TypeOK, Goto, Pcs
<1>2. /\ \A t \in Servers : t = s
      /\ server'[s] = Resting \/ (server'[s].pc = "remove" /\ server'[s].save \in Saves)
  BY DEF OneServer, FileInv, TypeOK, Goto
<1>3. SavePlace'
  BY <1>2 DEF SavePlace, Resting
<1>4. Directory' /\ SnapshotIsWhole'
  BY DEF FileInv, Directory, SnapshotIsWhole, WrittenBy
<1>. QED
  BY <1>1, <1>3, <1>4 DEF FileInv

LEMMA BeginStep ==
  ASSUME FileInv, NEW s \in Servers, OneServer, Begin(s)
  PROVE  FileInv'
<1> DEFINE r == [pc |-> "create", save |-> saves + 1, fd |-> NoFile, left |-> {}]
<1>1. /\ saves + 1 \in Saves /\ saves \in Nat /\ saves' = saves + 1
      /\ server' = [server EXCEPT ![s] = r] /\ UNCHANGED <<tmp, path, inode>>
  BY SnapshotFileAssumption DEF FileInv, TypeOK, Saves, Begin
<1>2. r \in [pc: Pcs, save: Saves \cup {0}, fd: MaybeInode, left: SUBSET Parts]
  BY <1>1 DEF Pcs, MaybeInode
<1>3. /\ \A t \in Servers : t = s
      /\ server'[s] = [pc |-> "create", save |-> saves + 1, fd |-> NoFile, left |-> {}]
  BY <1>1 DEF OneServer, FileInv, TypeOK
<1>. HIDE DEF r
<1>4. TypeOK'
  BY <1>1, <1>2, SnapshotFileAssumption DEF FileInv, TypeOK, Saves
<1>5. path # saves + 1
  BY <1>1, SnapshotFileAssumption DEF FileInv, TypeOK, Directory, MaybeInode, Saves
<1>6. SavePlace'
  BY <1>1, <1>3, <1>5 DEF SavePlace
<1>7. Directory' /\ SnapshotIsWhole'
  BY <1>1, SnapshotFileAssumption
  DEF FileInv, TypeOK, Directory, MaybeInode, Saves, SnapshotIsWhole, WrittenBy
<1>. QED
  BY <1>4, <1>6, <1>7 DEF FileInv

LEMMA CreateStep ==
  ASSUME FileInv, NEW s \in Servers, OneServer, Create(s)
  PROVE  FileInv'
<1> DEFINE i == IF tmp = NoFile THEN server[s].save ELSE tmp
           r == [server[s] EXCEPT !.pc = "encode", !.fd = i, !.left = Parts]
<1>1. /\ server[s].pc = "create" /\ tmp' = i /\ inode' = [inode EXCEPT ![i] = Empty]
      /\ server' = [server EXCEPT ![s] = r] /\ UNCHANGED <<path, saves>>
  BY DEF Create, FileInv, TypeOK
<1>2. /\ i \in Saves /\ i # path /\ i # NoFile /\ server[s].save \in Saves
      /\ path \in Saves \cup {NoFile}
  BY <1>1, SnapshotFileAssumption DEF FileInv, SavePlace, Directory, TypeOK, MaybeInode
<1>3. i <= saves
  BY <1>1 DEF FileInv, SavePlace, Directory
<1>. HIDE DEF i
<1>4. /\ r \in [pc: Pcs, save: Saves \cup {0}, fd: MaybeInode, left: SUBSET Parts]
      /\ r.pc = "encode" /\ r.fd = i /\ r.left = Parts /\ r.save = server[s].save
  BY <1>2, ServerType DEF FileInv, Pcs, MaybeInode
<1>5. /\ \A t \in Servers : t = s
      /\ server'[s] = r
  BY <1>1 DEF OneServer, FileInv, TypeOK
<1>. HIDE DEF r
<1>6. Empty \in [Parts -> Saves \cup {Blank}]
  BY DEF Empty
<1>7. inode' \in [Saves -> [Parts -> Saves \cup {Blank}]]
  BY <1>1, <1>2, <1>6 DEF FileInv, TypeOK
<1>8. TypeOK'
  BY <1>1, <1>2, <1>4, <1>7 DEF FileInv, TypeOK, MaybeInode
<1>9. SavePlace'
  BY <1>1, <1>2, <1>4, <1>5 DEF SavePlace
<1>10. Directory'
  BY <1>1, <1>2, <1>3 DEF FileInv, Directory
<1>11. path # NoFile => inode'[path] = inode[path]
  BY <1>1, <1>2 DEF FileInv, TypeOK
<1>12. SnapshotIsWhole'
  BY <1>1, <1>11 DEF FileInv, SnapshotIsWhole, WrittenBy
<1>. QED
  BY <1>8, <1>9, <1>10, <1>12 DEF FileInv

LEMMA EncodeStep ==
  ASSUME FileInv, NEW s \in Servers, OneServer, NEW part \in Parts, Encode(s, part)
  PROVE  FileInv'
<1> DEFINE g == server[s].save
           r == [server[s] EXCEPT !.left = @ \ {part}]
<1>1. /\ server[s].pc = "encode" /\ g \in Saves
      /\ tmp \in Saves /\ server[s].fd = tmp
      /\ inode' = [inode EXCEPT ![tmp][part] = g]
      /\ server' = [server EXCEPT ![s] = r] /\ UNCHANGED <<tmp, path, saves>>
  BY DEF Encode, FileInv, TypeOK, SavePlace, MaybeInode
<1>2. /\ r \in [pc: Pcs, save: Saves \cup {0}, fd: MaybeInode, left: SUBSET Parts]
      /\ r.pc = "encode" /\ r.fd = tmp /\ r.left = server[s].left \ {part} /\ r.save = g
  BY <1>1, ServerType DEF FileInv
<1>3. /\ \A t \in Servers : t = s
      /\ server'[s] = r
  BY <1>1 DEF OneServer, FileInv, TypeOK
<1>4. \A p \in Parts \ server[s].left : inode[tmp][p] = g
  BY <1>1 DEF FileInv, SavePlace
<1>. HIDE DEF r, g
<1>5. /\ inode' \in [Saves -> [Parts -> Saves \cup {Blank}]]
      /\ inode'[tmp] = [inode[tmp] EXCEPT ![part] = g]
      /\ \A i \in Saves \ {tmp} : inode'[i] = inode[i]
  BY <1>1 DEF FileInv, TypeOK
<1>6. inode[tmp] \in [Parts -> Saves \cup {Blank}]
  BY <1>1 DEF FileInv, TypeOK
<1>7. \A p \in Parts \ r.left : inode'[tmp][p] = g
  BY <1>2, <1>4, <1>5, <1>6
<1>8. TypeOK'
  BY <1>1, <1>2, <1>5 DEF FileInv, TypeOK
<1>9. SavePlace'
  BY <1>1, <1>2, <1>3, <1>7, SnapshotFileAssumption DEF SavePlace
<1>10. Directory'
  BY <1>1 DEF FileInv, Directory
<1>11. path # NoFile => inode'[path] = inode[path]
  BY <1>1, <1>5, SnapshotFileAssumption DEF FileInv, TypeOK, Directory, MaybeInode
<1>12. SnapshotIsWhole'
  BY <1>1, <1>11 DEF FileInv, SnapshotIsWhole, WrittenBy
<1>. QED
  BY <1>8, <1>9, <1>10, <1>12 DEF FileInv

LEMMA CloseStep ==
  ASSUME FileInv, NEW s \in Servers, OneServer, Close(s)
  PROVE  FileInv'
<1>1. /\ server[s].pc = "encode" /\ server[s].left = {} /\ UNCHANGED <<tmp, path, inode, saves>>
      /\ server' = [server EXCEPT ![s] = [@ EXCEPT !.pc = "rename"]]
  BY DEF Close, Encoded, Goto, FileInv, TypeOK
<1>2. TypeOK'
  BY <1>1, ServerType DEF FileInv, TypeOK, Pcs
<1>3. /\ \A t \in Servers : t = s
      /\ server'[s] = [server[s] EXCEPT !.pc = "rename"]
  BY <1>1 DEF OneServer, FileInv, TypeOK
<1>4. /\ server'[s].pc = "rename" /\ server'[s].save = server[s].save
      /\ server'[s].fd = server[s].fd /\ server'[s].left = server[s].left
  BY <1>3, ServerType DEF FileInv
<1>5. SavePlace'
  BY <1>1, <1>3, <1>4 DEF FileInv, SavePlace
<1>6. Directory' /\ SnapshotIsWhole'
  BY <1>1 DEF FileInv, Directory, SnapshotIsWhole, WrittenBy
<1>. QED
  BY <1>2, <1>5, <1>6 DEF FileInv

\* The renamed file was written out by this save.
LEMMA RenamedIsWhole ==
  ASSUME FileInv, NEW s \in Servers, Rename(s)
  PROVE  /\ tmp \in Saves /\ server[s].save \in Saves
         /\ WrittenBy(tmp, server[s].save)
  BY DEF Rename, FileInv, SavePlace, TypeOK, MaybeInode, WrittenBy

LEMMA RenameStep ==
  ASSUME FileInv, NEW s \in Servers, OneServer, Rename(s)
  PROVE  FileInv'
<1>1. /\ path' = tmp /\ tmp' = NoFile /\ UNCHANGED <<inode, saves>>
      /\ server' = [server EXCEPT ![s] = Resting]
  BY DEF Rename
<1>2. TypeOK'
  BY <1>1, ServerType DEF FileInv, TypeOK, MaybeInode
<1>3. (\A t \in Servers : t = s) /\ server'[s] = Resting
  BY <1>1 DEF OneServer, FileInv, TypeOK
<1>4. SavePlace'
  BY <1>3 DEF SavePlace, Resting
<1>5. Directory'
  BY <1>1 DEF FileInv, Directory
<1>6. SnapshotIsWhole'
  BY <1>1, RenamedIsWhole DEF SnapshotIsWhole, WrittenBy
<1>. QED
  BY <1>2, <1>4, <1>5, <1>6 DEF FileInv

LEMMA RemoveStep ==
  ASSUME FileInv, NEW s \in Servers, OneServer, Remove(s)
  PROVE  FileInv'
<1>1. /\ tmp' = NoFile /\ UNCHANGED <<path, inode, saves>>
      /\ server' = [server EXCEPT ![s] = Resting]
  BY DEF Remove
<1>2. TypeOK'
  BY <1>1, ServerType DEF FileInv, TypeOK, MaybeInode
<1>3. (\A t \in Servers : t = s) /\ server'[s] = Resting
  BY <1>1 DEF OneServer, FileInv, TypeOK
<1>4. SavePlace'
  BY <1>3 DEF SavePlace, Resting
<1>5. Directory' /\ SnapshotIsWhole'
  BY <1>1 DEF FileInv, Directory, SnapshotIsWhole, WrittenBy
<1>. QED
  BY <1>2, <1>4, <1>5 DEF FileInv

LEMMA FileStep ==
  ASSUME FileInv, OneServer, [Next]_vars
  PROVE  FileInv'
<1>1. CASE UNCHANGED vars
  BY <1>1 DEF vars, FileInv, TypeOK, SavePlace, Directory, SnapshotIsWhole, WrittenBy
<1>2. ASSUME NEW s \in Servers, CreateFails(s) \/ Crash(s) PROVE FileInv'
  BY <1>2, LetGo DEF CreateFails, Crash
<1>3. ASSUME NEW s \in Servers, Fails(s) PROVE FileInv'
  <2>1. server[s].save \in Saves
    BY <1>3 DEF Fails, FileInv, SavePlace
  <2>. QED
    BY <1>3, <2>1, LetGo DEF Fails
<1>. QED
  BY <1>1, <1>2, <1>3, BeginStep, CreateStep, EncodeStep, CloseStep, RenameStep, RemoveStep
  DEF Next, Save

-----------------------------------------------------------------------------
\* One server: the file at the snapshot path is whole and of one save, however
\* many saves there were and wherever they failed or the server died
\* (SaveSnapshot of snapshot.go under snapshotMu of repo.go).
THEOREM OneServerWritesWhole ==
  ASSUME OneServer
  PROVE  Spec => []SnapshotIsWhole
<1>1. Init => FileInv
  BY FileInit
<1>2. FileInv /\ [Next]_vars => FileInv'
  BY FileStep
<1>3. FileInv => SnapshotIsWhole
  BY DEF FileInv
<1>. QED
  BY <1>1, <1>2, <1>3, PTL DEF Spec

-----------------------------------------------------------------------------
(* The saves implement AtomicFile.                                         *)

\* Every part of a whole file has the one value.
LEMMA SoleValue ==
  ASSUME NEW f, NEW g \in Saves, \A part \in Parts : f[part] = g
  PROVE  (CHOOSE h \in Saves : \A part \in Parts : f[part] = h) = g
  BY SnapshotFileAssumption DEF SnapshotFileAssumption

LEMMA LoadedIs ==
  ASSUME NEW g \in Saves, path # NoFile, WrittenBy(path, g)
  PROVE  Loaded = g
<1>1. Loaded = CHOOSE h \in Saves : \A part \in Parts : inode[path][part] = h
  BY DEF Loaded, SnapshotIsWhole, WrittenBy
<1>. QED
  BY <1>1, SoleValue DEF WrittenBy

LEMMA LoadedNextIs ==
  ASSUME NEW g \in Saves, path' # NoFile, \A part \in Parts : inode'[path'][part] = g
  PROVE  Loaded' = g
<1>1. Loaded' = CHOOSE h \in Saves : \A part \in Parts : inode'[path'][part] = h
  BY DEF Loaded, SnapshotIsWhole, WrittenBy
<1>. QED
  BY <1>1, SoleValue

LEMMA LoadedStays ==
  ASSUME FileInv, path' = path, path # NoFile => inode'[path] = inode[path]
  PROVE  Loaded' = Loaded
<1>1. CASE path = NoFile
  BY <1>1 DEF Loaded
<1>2. CASE path # NoFile
  <2>1. PICK g \in Saves : WrittenBy(path, g)
    BY <1>2 DEF FileInv, SnapshotIsWhole
  <2>2. Loaded = g
    BY <1>2, <2>1, LoadedIs
  <2>3. Loaded' = g
    BY <1>2, <2>1, LoadedNextIs DEF WrittenBy
  <2>. QED
    BY <2>2, <2>3
<1>. QED
  BY <1>1, <1>2

Pending == {server[s].save : s \in Servers} \ {0}

\* The save of a server that ends, whichever way, was begun.
LEMMA EndStep ==
  ASSUME FileInv, NEW s \in Servers, OneServer, server[s].save \in Saves,
         server' = [server EXCEPT ![s] = Resting],
         Loaded' = Loaded \/ Loaded' = server[s].save
  PROVE  Atomic!Next
<1>1. /\ \A t \in Servers : t = s
      /\ server'[s] = Resting /\ server[s].save # 0
  BY DEF OneServer, FileInv, TypeOK, Saves
<1>2. Pending = {server[s].save} /\ Pending' = {}
  BY <1>1 DEF Pending, Resting
<1>. QED
  BY <1>2 DEF Atomic!Next, Atomic!End, Pending

LEMMA AtomicStep ==
  ASSUME FileInv, OneServer, [Next]_vars
  PROVE  [Atomic!Next]_<<Loaded, Pending>>
<1>1. CASE UNCHANGED vars
  BY <1>1, LoadedStays DEF vars, Pending
<1>2. ASSUME NEW s \in Servers, Begin(s) PROVE Atomic!Next
  <2>1. /\ \A t \in Servers : t = s
        /\ saves + 1 \in Saves /\ saves + 1 # 0
        /\ server[s].save = 0 /\ server'[s].save = saves + 1
    BY <1>2, SnapshotFileAssumption
    DEF OneServer, FileInv, SavePlace, TypeOK, Begin, Saves
  <2>2. Pending = {} /\ Pending' = {saves + 1}
    BY <2>1 DEF Pending
  <2>3. Loaded' = Loaded
    BY <1>2, LoadedStays DEF Begin
  <2>. QED
    BY <2>1, <2>2, <2>3 DEF Atomic!Next, Atomic!Begin, Pending
<1>3. ASSUME NEW s \in Servers, Rename(s) PROVE Atomic!Next
  <2>1. /\ tmp # NoFile /\ server[s].save \in Saves
        /\ \A part \in Parts : inode'[path'][part] = server[s].save
        /\ path' # NoFile /\ server' = [server EXCEPT ![s] = Resting]
    BY <1>3, RenamedIsWhole DEF Rename, WrittenBy
  <2>2. Loaded' = server[s].save
    BY <2>1, LoadedNextIs
  <2>. QED
    BY <2>1, <2>2, EndStep
<1>4. ASSUME NEW s \in Servers, CreateFails(s) \/ Remove(s) PROVE Atomic!Next
  <2>1. server[s].save \in Saves
    BY <1>4 DEF CreateFails, Remove, FileInv, SavePlace
  <2>2. Loaded' = Loaded
    BY <1>4, LoadedStays DEF CreateFails, Remove
  <2>. QED
    BY <1>4, <2>1, <2>2, EndStep DEF CreateFails, Remove
<1>5. ASSUME NEW s \in Servers, Crash(s) PROVE Atomic!Next
  <2>1. server[s].save \in Saves
    BY <1>5 DEF Crash, FileInv, SavePlace, TypeOK, Pcs
  <2>2. Loaded' = Loaded
    BY <1>5, LoadedStays DEF Crash
  <2>. QED
    BY <1>5, <2>1, <2>2, EndStep DEF Crash
<1>6. ASSUME NEW s \in Servers, Create(s) \/ (\E part \in Parts : Encode(s, part)) \/ Close(s) \/ Fails(s)
      PROVE  UNCHANGED <<Loaded, Pending>>
  <2>1. \A t \in Servers : server'[t].save = server[t].save
    <3>1. CASE Create(s)
      BY <3>1 DEF Create, FileInv, TypeOK
    <3>2. ASSUME NEW part \in Parts, Encode(s, part)
          PROVE  \A t \in Servers : server'[t].save = server[t].save
      BY <3>2 DEF Encode, FileInv, TypeOK
    <3>3. CASE Close(s) \/ Fails(s)
      <4>1. PICK pc : server' = [server EXCEPT ![s] = [@ EXCEPT !.pc = pc]]
        BY <3>3 DEF Close, Fails, Goto
      <4>. QED
        BY <4>1 DEF FileInv, TypeOK
    <3>. QED
      BY <1>6, <3>1, <3>2, <3>3
  <2>2. Pending' = Pending
    BY <2>1 DEF Pending
  <2>3. path' = path /\ (path # NoFile => inode'[path] = inode[path])
    <3>1. CASE Create(s)
      BY <3>1 DEF Create, FileInv, SavePlace, Directory, TypeOK
    <3>2. ASSUME NEW part \in Parts, Encode(s, part)
          PROVE  path' = path /\ (path # NoFile => inode'[path] = inode[path])
      BY <3>2, SnapshotFileAssumption
      DEF Encode, FileInv, SavePlace, Directory, TypeOK, MaybeInode
    <3>3. CASE Close(s) \/ Fails(s)
      BY <3>3 DEF Close, Fails
    <3>. QED
      BY <1>6, <3>1, <3>2, <3>3
  <2>. QED
    BY <2>2, <2>3, LoadedStays
<1>. QED
  BY <1>1, <1>2, <1>3, <1>4, <1>5, <1>6 DEF Next, Save

\* One server: every behaviour of SaveSnapshot is one of a file whose content
\* is replaced at once or not at all (SaveSnapshot of snapshot.go).
THEOREM OneServerSavesAtomically ==
  ASSUME OneServer
  PROVE  Spec => SavesAreAtomic
<1>1. Init => FileInv
  BY FileInit
<1>2. FileInv /\ [Next]_vars => FileInv'
  BY FileStep
<1>3. Init => Atomic!Init
  BY DEF Init, Atomic!Init, Loaded, Resting
<1>4. FileInv /\ [Next]_vars => [Atomic!Next]_<<Loaded, Pending>>
  BY AtomicStep
<1>. QED
  BY <1>1, <1>2, <1>3, <1>4, PTL DEF Spec, SavesAreAtomic, Atomic!Spec, Pending
=============================================================================
