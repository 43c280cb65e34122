--------------------------- MODULE MCRepoService ---------------------------
(* Instances of RepoService for TLC.  A content is its own facts; the      *)
(* facts hold one occurrence of their own and the one all contents share.  *)
EXTENDS RepoService

MCRefsOf == [f \in Facts |-> {f} \cup (Refs \ Facts)]
OnePath == {1}
TwoPaths == {1, 2}
ReadyOnly == {"ready"}
AnyVerdict == {"ready", "partial"}

\* The second path is there for builds beside passes and for the threshold
\* between them: it has one content, and with a crash or a third edit there is
\* nothing of it at all.
OneContent == CHOOSE c \in Facts : TRUE
OnePathOnly ==
  /\ disk[2] = Absent /\ 2 \notin PathsIn(store.entries)
  /\ snapshot = NoEntry \/ snapshot[2] = NoEntry
Bounded ==
  \/ crashes = 0 /\ clock <= 2 /\ (Present(2) => disk[2].content = OneContent)
  \/ OnePathOnly /\ crashes + clock <= 3

\* A third edit, which makes a file unstable for indexPath, where there is
\* nothing of the second path.
BoundedLive == clock <= 2 \/ OnePathOnly
=============================================================================
