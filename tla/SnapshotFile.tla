---------------------------- MODULE SnapshotFile ----------------------------
(***************************************************************************)
(* SaveSnapshot of internal/repoindex/snapshot.go on a file system, one    *)
(* system call per step: create or truncate path.tmp, write it part by     *)
(* part, close it, rename it over path, and remove it when a step fails.   *)
(* A server can crash between any two of them.  snapshotMu lets a server   *)
(* save once at a time; nothing keeps two servers on the same repository   *)
(* apart.                                                                  *)
(*                                                                         *)
(* A file is an inode: renaming moves it, and a server that has it open    *)
(* goes on writing to it.  Its parts are numbered by the save that wrote   *)
(* them.  LoadSnapshot decodes a file whose parts are all of one save.     *)
(***************************************************************************)
EXTENDS Naturals

CONSTANTS
  Servers,    \* the processes that keep a snapshot of one repository
  Parts,      \* the writes of one encoding
  MaxSaves,   \* bound: saves, counting those that fail
  NoFile,     \* no inode
  Blank,      \* a part that is not written
  Torn        \* what LoadSnapshot cannot decode, or decodes as a mixture

Saves == 1..MaxSaves

ASSUME SnapshotFileAssumption ==
  /\ Parts # {}
  /\ MaxSaves \in Nat
  /\ NoFile \notin Saves /\ Blank \notin Saves /\ Torn \notin Saves \cup {NoFile}

VARIABLES
  tmp, path,   \* the directory entries: an inode, or NoFile
  inode,       \* inode[i]: the parts of the file created by save i
  server,      \* server[s]: the step of its save, and what it holds
  saves        \* how many saves were begun

vars == <<tmp, path, inode, server, saves>>

Resting == [pc |-> "idle", save |-> 0, fd |-> NoFile, left |-> {}]
Empty == [i \in Parts |-> Blank]

Init ==
  /\ tmp = NoFile /\ path = NoFile
  /\ inode = [i \in Saves |-> Empty]
  /\ server = [s \in Servers |-> Resting]
  /\ saves = 0

Goto(s, pc) == server' = [server EXCEPT ![s].pc = pc]

\* saveSnapshot enters SaveSnapshot under snapshotMu.
Begin(s) ==
  /\ server[s].pc = "idle" /\ saves < MaxSaves
  /\ saves' = saves + 1
  /\ server' = [server EXCEPT ![s] =
       [pc |-> "create", save |-> saves + 1, fd |-> NoFile, left |-> {}]]
  /\ UNCHANGED <<tmp, path, inode>>

\* os.Create truncates a file that exists.
Create(s) ==
  LET i == IF tmp = NoFile THEN server[s].save ELSE tmp
  IN  /\ server[s].pc = "create"
      /\ tmp' = i
      /\ inode' = [inode EXCEPT ![i] = Empty]
      /\ server' = [server EXCEPT ![s] = [@ EXCEPT !.pc = "encode", !.fd = i, !.left = Parts]]
      /\ UNCHANGED <<path, saves>>

\* The parts are written in order; the order does not matter to a reader.
Encode(s, part) ==
  /\ server[s].pc = "encode" /\ part \in server[s].left
  /\ inode' = [inode EXCEPT ![server[s].fd][part] = server[s].save]
  /\ server' = [server EXCEPT ![s].left = @ \ {part}]
  /\ UNCHANGED <<tmp, path, saves>>

\* Mutant: the file is renamed before its last part is flushed.
EncodedEnough(s) == \E part \in Parts : server[s].left \subseteq {part}
Encoded(s) == server[s].left = {}

Close(s) ==
  /\ server[s].pc = "encode" /\ Encoded(s)
  /\ Goto(s, "rename")
  /\ UNCHANGED <<tmp, path, inode, saves>>

Rename(s) ==
  /\ server[s].pc = "rename" /\ tmp # NoFile
  /\ path' = tmp /\ tmp' = NoFile
  /\ server' = [server EXCEPT ![s] = Resting]
  /\ UNCHANGED <<inode, saves>>

\* Creating can fail; so can a write, the close and the rename, and then the
\* temporary file is removed, whoever made it.
CreateFails(s) ==
  /\ server[s].pc = "create"
  /\ server' = [server EXCEPT ![s] = Resting]
  /\ UNCHANGED <<tmp, path, inode, saves>>

Fails(s) ==
  /\ server[s].pc \in {"encode", "rename"}
  /\ Goto(s, "remove")
  /\ UNCHANGED <<tmp, path, inode, saves>>

\* Mutant: the failure takes the old snapshot with it.
RemoveBoth(s) ==
  /\ server[s].pc = "remove"
  /\ tmp' = NoFile /\ path' = NoFile
  /\ server' = [server EXCEPT ![s] = Resting]
  /\ UNCHANGED <<inode, saves>>

Remove(s) ==
  /\ server[s].pc = "remove"
  /\ tmp' = NoFile
  /\ server' = [server EXCEPT ![s] = Resting]
  /\ UNCHANGED <<path, inode, saves>>

\* The process dies; the directory keeps whatever it left.
Crash(s) ==
  /\ server[s].pc # "idle"
  /\ server' = [server EXCEPT ![s] = Resting]
  /\ UNCHANGED <<tmp, path, inode, saves>>

Save(s) ==
  \/ Begin(s) \/ Create(s) \/ (\E part \in Parts : Encode(s, part)) \/ Close(s)
  \/ Rename(s) \/ CreateFails(s) \/ Fails(s) \/ Remove(s)

Next == \E s \in Servers : Save(s) \/ Crash(s)

Spec == Init /\ [][Next]_vars

-----------------------------------------------------------------------------
(* What must hold.                                                         *)

Pcs == {"idle", "create", "encode", "rename", "remove"}
MaybeInode == Saves \cup {NoFile}

\* Directory entries are inodes, and a server that writes has one open.
TypeOK ==
  /\ tmp \in MaybeInode /\ path \in MaybeInode
  /\ inode \in [Saves -> [Parts -> Saves \cup {Blank}]]
  /\ server \in [Servers -> [pc: Pcs, save: Saves \cup {0}, fd: MaybeInode, left: SUBSET Parts]]
  /\ saves \in 0..MaxSaves

WrittenBy(i, g) == \A part \in Parts : inode[i][part] = g

\* snapshot.go:38, "writes the snapshot atomically": the file at the snapshot
\* path, when there is one, is whole and of one save, through failures and
\* crashes at any step.
SnapshotIsWhole ==
  path # NoFile => \E g \in Saves : WrittenBy(path, g)

\* What LoadSnapshot would return.
Loaded ==
  IF path = NoFile THEN NoFile
  ELSE IF SnapshotIsWhole THEN CHOOSE g \in Saves : WrittenBy(path, g)
  ELSE Torn

Atomic == INSTANCE AtomicFile WITH
  content <- Loaded, pending <- {server[s].save : s \in Servers} \ {0}

\* A save publishes what its own server gave it, all of it and at once, or
\* nothing: the step that ends a save is the only one a reader can see.
SavesAreAtomic == Atomic!Spec
=============================================================================
