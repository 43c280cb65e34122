----------------------------- MODULE AtomicFile -----------------------------
(***************************************************************************)
(* What RepoService relies on: a save either replaces the whole content of *)
(* the snapshot file or leaves it as it was.                               *)
(***************************************************************************)
EXTENDS Naturals

CONSTANTS Saves, NoFile

VARIABLES content, pending

Init == content = NoFile /\ pending = {}

Begin(g) ==
  /\ pending' = pending \cup {g}
  /\ UNCHANGED content

End(g) ==
  /\ g \in pending
  /\ pending' = pending \ {g}
  /\ content' \in {content, g}

Next == \E g \in Saves : Begin(g) \/ End(g)

Spec == Init /\ [][Next]_<<content, pending>>
=============================================================================
