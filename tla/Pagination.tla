----------------------------- MODULE Pagination -----------------------------
(***************************************************************************)
(* A client that pages through find_usages (mode occurrences) or           *)
(* repo_impact with next_cursor, while the index is refreshed, rebuilt and *)
(* restarted under it: handleFindUsages and handleRepoImpact of tools.go,  *)
(* ResolveIndex, usagePage and impact of repo.go, UsagesWindow of store.go *)
(* and the cursor of cursor.go.                                            *)
(*                                                                         *)
(* A step of a call is one critical section of MemoryStore.mu.  What is    *)
(* paged through is a list whose order is fixed by its content, so a list  *)
(* is its length, and a page is the list it was cut from, the positions it *)
(* holds and the life of the process (`restarts`) that answered it.  Every *)
(* publication makes another list; its `generation` is never reused, while *)
(* the version starts again with the process.                              *)
(***************************************************************************)
EXTENDS Naturals, Sequences

CONSTANTS
  Clients,
  NotFound,          \* a name or target the index does not know
  MaxLength,         \* bound: length of a list
  Limits,            \* the page sizes a client asks for
  MaxGenerations,    \* bound: publications
  MaxRestarts        \* bound: restarts of the server

ASSUME PaginationAssumption ==
  /\ MaxLength \in Nat /\ MaxGenerations \in Nat /\ MaxRestarts \in Nat
  /\ Limits \subseteq Nat \ {0} /\ NotFound \notin Nat

Contents == 0..MaxLength \cup {NotFound}
Tools == {"find_usages", "repo_impact"}
NoCursor == [version |-> 0, offset |-> 0]

VARIABLES
  state,        \* Info.State
  version,      \* Info.Version
  generation,   \* how many lists were published
  content,      \* content[g]: the length of list g, or NotFound
  restarts,
  client        \* client[c]: its session and the call it waits for

index == <<state, version, generation, content, restarts>>
vars == <<index, client>>

Generations == 0..MaxGenerations

NoSession == [pc |-> "idle", tool |-> "find_usages", cursor |-> NoCursor, limit |-> 0,
              version |-> 0, pages |-> <<>>, answer |-> "none"]

Init ==
  /\ state = "building" /\ version = 0
  /\ generation = 0 /\ content = [g \in Generations |-> NotFound]
  /\ restarts = 0
  /\ client = [c \in Clients |-> NoSession]

\* A find_usages of an unknown name answers an empty list; repo_impact of an
\* unknown target is an error.
Length(g) == IF content[g] = NotFound THEN 0 ELSE content[g]

InCall(c) == client[c].pc \notin {"idle", "more", "over"}

-----------------------------------------------------------------------------
(* The index: a publication is a Replace or an Apply.                      *)

Publish ==
  /\ generation < MaxGenerations
  /\ generation' = generation + 1
  /\ \E n \in Contents : content' = [content EXCEPT ![generation + 1] = n]
  /\ version' = version + 1
  /\ state' \in {"ready", "partial"}
  /\ UNCHANGED <<restarts, client>>

SetRefreshing ==
  /\ state \in {"ready", "partial"}
  /\ state' = "refreshing"
  /\ UNCHANGED <<version, generation, content, restarts, client>>

\* The calls under way are lost; a client may ask again with its cursor.
Restart ==
  /\ restarts < MaxRestarts
  /\ restarts' = restarts + 1
  /\ state' = "building" /\ version' = 0
  /\ client' = [c \in Clients |->
                  IF ~InCall(c) THEN client[c]
                  ELSE [client[c] EXCEPT !.pc = IF client[c].pages = <<>> THEN "idle" ELSE "more"]]
  /\ UNCHANGED <<generation, content>>

-----------------------------------------------------------------------------
(* A call.                                                                 *)

Goto(c, pc) == client' = [client EXCEPT ![c].pc = pc] /\ UNCHANGED index
Reply(c, answer) ==
  client' = [client EXCEPT ![c].pc = "over", ![c].answer = answer] /\ UNCHANGED index

Ask(c, tool, limit) ==
  /\ client[c].pc = "idle"
  /\ client' = [client EXCEPT ![c] =
       [NoSession EXCEPT !.pc = "asked", !.tool = tool, !.limit = limit]]
  /\ UNCHANGED index

AskMore(c) == client[c].pc = "more" /\ Goto(c, "asked")

Covered == state = "ready"

\* ImpactAt resolves the path; what is not covered is an error.  For
\* handleFindUsages this is the first of two lookups: a path that is not
\* covered is searched on disk.
Resolve(c) ==
  /\ client[c].pc = "asked"
  /\ IF Covered
       THEN Goto(c, IF client[c].tool = "find_usages" THEN "indexed" ELSE "resolved")
       ELSE Reply(c, IF client[c].tool = "find_usages" THEN "disk" ELSE "not covered")

\* FindOccurrencesAt resolves it again.  Its ok is not looked at, and the page
\* it did not return is dereferenced.
ResolveAgain(c) ==
  /\ client[c].pc = "indexed"
  /\ IF Covered THEN Goto(c, "resolved") ELSE Reply(c, "nil page")

\* Mutant: the version of the cursor is not compared.
AnyCursor(cursor) == TRUE
CheckCursor(cursor) == cursor # NoCursor => cursor.version = version

\* usagePage and impact read the version; a stale cursor is an error, and
\* ImpactAt answers ok = false with it.
ReadInfo(c) ==
  /\ client[c].pc = "resolved"
  /\ IF CheckCursor(client[c].cursor)
       THEN /\ client' = [client EXCEPT ![c].pc = "checked", ![c].version = version]
            /\ UNCHANGED index
       ELSE Reply(c, IF client[c].tool = "find_usages" THEN "stale cursor" ELSE "not covered")

\* Mutant: the page starts one position early.
OverlappingFrom(offset) == offset
PageFrom(offset) == offset + 1

Smaller(m, n) == IF m < n THEN m ELSE n

\* UsagesWindow, or the graph and Impact: one read of the published list.
ReadPage(c) ==
  LET me == client[c]
      len == Length(generation)
      end == me.cursor.offset + me.limit
      page == [list |-> generation, life |-> restarts,
               from |-> PageFrom(me.cursor.offset), to |-> Smaller(end, len)]
  IN  /\ me.pc = "checked"
      /\ IF me.tool = "repo_impact" /\ content[generation] = NotFound
           THEN Reply(c, "not covered")
           ELSE /\ client' = [client EXCEPT ![c] =
                     [me EXCEPT !.pages = Append(@, page),
                                !.pc = IF end < len THEN "more" ELSE "over",
                                !.answer = IF end < len THEN "none" ELSE "complete",
                                !.cursor = IF end < len
                                             THEN [version |-> me.version, offset |-> end]
                                             ELSE @]]
                /\ UNCHANGED index

Call(c) == Resolve(c) \/ ResolveAgain(c) \/ ReadInfo(c) \/ ReadPage(c)

-----------------------------------------------------------------------------
Next ==
  \/ Publish \/ SetRefreshing \/ Restart
  \/ \E c \in Clients :
       \/ \E tool \in Tools, limit \in Limits : Ask(c, tool, limit)
       \/ AskMore(c) \/ Call(c)

Spec == Init /\ [][Next]_vars

-----------------------------------------------------------------------------
(* What must hold.                                                         *)

Pages == [list: Generations, life: 0..MaxRestarts, from: 1..MaxLength + 1, to: 0..MaxLength]
Cursors == [version: 0..MaxGenerations, offset: 0..MaxLength]
Answers == {"none", "complete", "disk", "not covered", "nil page", "stale cursor"}

\* The index and the sessions are records of their types.
TypeOK ==
  /\ state \in {"building", "refreshing", "ready", "partial"}
  /\ generation \in Generations /\ version \in 0..generation
  /\ content \in [Generations -> Contents]
  /\ restarts \in 0..MaxRestarts
  /\ \A c \in Clients :
       /\ client[c].pc \in {"idle", "asked", "indexed", "resolved", "checked", "more", "over"}
       /\ client[c].tool \in Tools /\ client[c].limit \in Limits \cup {0}
       /\ client[c].cursor \in Cursors /\ client[c].version \in 0..MaxGenerations
       /\ client[c].pages \in Seq(Pages)
       /\ client[c].answer \in Answers

\* cursor.go:12-13: "A cursor from a different index version is rejected so
\* pages never mix snapshots".  The version is read before the list is
\* (repo.go:693, 704), so a page can be cut from a later list than its cursor
\* says, and a cursor of an earlier process is accepted once the count is back
\* at its version.  But such a page is the last one its process answers: the
\* pages of a session that are followed by one of the same process are all of
\* one list.
OnlyLastPageMayMix ==
  \A c \in Clients :
    LET pages == client[c].pages
        Followed(i) == i < Len(pages) /\ pages[i + 1].life = pages[i].life
    IN  \A i, j \in 1..Len(pages) :
          Followed(i) /\ Followed(j) /\ pages[i].life = pages[j].life
            => pages[i].list = pages[j].list

\* A session that ran to its end over one list was given every position of it
\* exactly once, in order (usagePage, repo.go:704-713; Impact, graph.go:238-247).
FinishedSessionIsWhole ==
  \A c \in Clients :
    LET pages == client[c].pages
        n == Len(pages)
    IN  (client[c].answer = "complete" /\ \A i \in 1..n : pages[i].list = pages[1].list) =>
          /\ pages[1].from = 1
          /\ \A i \in 1..n - 1 : pages[i + 1].from = pages[i].to + 1 /\ pages[i].from <= pages[i].to
          /\ pages[n].to = Length(pages[1].list)
=============================================================================
