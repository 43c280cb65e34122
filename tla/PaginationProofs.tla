-------------------------- MODULE PaginationProofs --------------------------
(***************************************************************************)
(* The pages of a session, for any number of clients, publications and     *)
(* restarts and for lists and pages of any length.  The argument: within   *)
(* one life of the server, generation and version move together, so a      *)
(* version stands for one list (`sum` in Unmoved); and a session keeps the *)
(* version of its first cursor, because every further call compares it.    *)
(***************************************************************************)
EXTENDS Pagination, SequenceTheorems, TLAPS

Pcs == {"idle", "asked", "indexed", "resolved", "checked", "more", "over"}

Sessions ==
  [pc: Pcs, tool: Tools, cursor: Cursors, limit: Limits \cup {0},
   version: 0..MaxGenerations, pages: Seq(Pages), answer: Answers]

IndexTyped ==
  /\ state \in {"building", "refreshing", "ready", "partial"}
  /\ generation \in Generations /\ version \in 0..generation
  /\ content \in [Generations -> Contents]
  /\ restarts \in 0..MaxRestarts

Followed(pages, i) == i < Len(pages) /\ pages[i + 1].life = pages[i].life

\* A page of this life was cut from the list its cursor's version stands for.
AtItsVersion(me, i) == me.pages[i].list + version = generation + me.cursor.version

\* What a session knows of the lists its pages were cut from.
OfOneList(me) ==
  LET pages == me.pages
      n == Len(pages)
  IN  /\ \A i \in 1..n : pages[i].list <= generation /\ pages[i].life <= restarts
      /\ \A i, j \in 1..n :
           Followed(pages, i) /\ Followed(pages, j) /\ pages[i].life = pages[j].life
             => pages[i].list = pages[j].list
      /\ me.pc # "over" =>
           /\ \A i \in 1..n : Followed(pages, i) /\ pages[i].life = restarts => AtItsVersion(me, i)
           /\ n > 0 /\ pages[n].life = restarts =>
                pages[n].list + version >= generation + me.cursor.version
      /\ me.pc = "checked" =>
           /\ me.version <= version
           /\ n > 0 => me.version = me.cursor.version
           /\ n > 0 /\ pages[n].life = restarts => AtItsVersion(me, n)

\* Where a session is in its list.
InOrder(me) ==
  LET pages == me.pages
      n == Len(pages)
  IN  /\ me.pc \notin {"idle", "over"} => me.limit \in Limits
      /\ n = 0 => me.pc # "more" /\ me.cursor = NoCursor /\ me.answer # "complete"
      /\ n > 0 => pages[1].from = 1 /\ me.pc # "idle"
      /\ \A i \in 1..n - 1 : pages[i + 1].from = pages[i].to + 1 /\ pages[i].from <= pages[i].to
      /\ n > 0 /\ me.pc # "over" =>
           me.cursor.offset = pages[n].to /\ pages[n].from <= pages[n].to
      /\ me.answer = "complete" => pages[n].to = Length(pages[n].list)

IInv ==
  /\ IndexTyped
  /\ client \in [Clients -> Sessions]
  /\ \A c \in Clients, me \in Sessions : client[c] = me => OfOneList(me) /\ InOrder(me)

-----------------------------------------------------------------------------
(* Types.                                                                  *)

LEMMA Constants ==
  /\ MaxLength \in Nat /\ MaxGenerations \in Nat /\ MaxRestarts \in Nat
  /\ \A n \in Contents \ {NotFound} : n \in 0..MaxLength
  /\ \A limit \in Limits : limit \in Nat /\ limit > 0
  /\ Generations \subseteq Nat
BY PaginationAssumption DEF Contents, Generations

LEMMA LengthIsTyped ==
  ASSUME IndexTyped, NEW g \in Generations
  PROVE  Length(g) \in 0..MaxLength
BY Constants DEF IndexTyped, Length, Contents

LEMMA NoSessionIsTyped == NoSession \in Sessions
BY Constants DEF NoSession, Sessions, NoCursor, Cursors, Tools, Pcs, Answers

LEMMA InitIInv == Init => IInv
<1> SUFFICES ASSUME Init PROVE IInv
  OBVIOUS
<1> USE Constants
<1>1. IndexTyped
  BY DEF Init, IndexTyped, Generations, Contents
<1>2. NoSession \in Sessions
  BY NoSessionIsTyped
<1>3. NoSession.pages = <<>> /\ NoSession.pc = "idle" /\ NoSession.answer = "none"
      /\ NoSession.cursor = NoCursor
  BY DEF NoSession
<1>4. OfOneList(NoSession) /\ InOrder(NoSession)
  BY <1>3 DEF OfOneList, InOrder
<1> QED
  BY <1>1, <1>2, <1>4 DEF Init, IInv

LEMMA IInvTypes == IInv => TypeOK
BY DEF IInv, IndexTyped, TypeOK, Sessions, Pcs

-----------------------------------------------------------------------------
(* Steps of the index.                                                     *)

\* The index moves and a session does not: what the session knows stays.
LEMMA Unmoved ==
  ASSUME IndexTyped, NEW me \in Sessions, OfOneList(me), InOrder(me),
         restarts' = restarts,
         \/ generation' = generation /\ version' = version
         \/ generation' = generation + 1 /\ version' = version + 1,
         \A g \in Generations : g <= generation => content'[g] = content[g]
  PROVE  OfOneList(me)' /\ InOrder(me)'
<1> DEFINE pages == me.pages
<1>1. pages \in Seq(Pages) /\ me.cursor \in Cursors /\ me.version \in Nat /\ Len(pages) \in Nat
  BY Constants DEF Sessions
<1>2. \A i \in 1..Len(pages) : pages[i] \in Pages
  BY <1>1
<1>3. \A i \in 1..Len(pages) : pages[i].list \in Generations /\ pages[i].list \in Nat
                               /\ pages[i].life \in Nat
  <2> TAKE i \in 1..Len(pages)
  <2>1. pages[i].list \in Generations /\ pages[i].life \in 0..MaxRestarts
    BY <1>2 DEF Pages
  <2>2. pages[i].list \in Nat
    BY <2>1, Constants
  <2>3. pages[i].life \in Nat
    BY <2>1, PaginationAssumption
  <2> QED
    BY <2>1, <2>2, <2>3
<1>4. generation \in Nat /\ version \in Nat /\ me.cursor.version \in Nat
  <2>1. generation \in Nat
    BY Constants DEF IndexTyped
  <2>2. version \in Nat
    BY <2>1 DEF IndexTyped
  <2>3. me.cursor.version \in 0..MaxGenerations
    BY <1>1 DEF Cursors
  <2> QED
    BY <2>1, <2>2, <2>3, Constants
<1>5. \A i \in 1..Len(pages) : pages[i].list <= generation
  BY DEF OfOneList
<1>6. ASSUME NEW i \in 1..Len(pages)
      PROVE  AtItsVersion(me, i)' <=> AtItsVersion(me, i)
  <2> DEFINE list == pages[i].list
             v == me.cursor.version
  <2>1. list \in Nat /\ v \in Nat
    BY <1>3, <1>4
  <2>2. AtItsVersion(me, i) <=> list + version = generation + v
    BY DEF AtItsVersion
  <2>3. AtItsVersion(me, i)' <=> list + version' = generation' + v
    BY DEF AtItsVersion
  <2> HIDE DEF list, v
  <2> QED
    BY <1>4, <2>1, <2>2, <2>3
<1>7. OfOneList(me)'
  <2> DEFINE n == Len(pages)
  <2>1. \A i \in 1..n : pages[i].list <= generation' /\ pages[i].life <= restarts'
    BY <1>3, <1>4, <1>5 DEF OfOneList
  <2>2. \A i, j \in 1..n :
          Followed(pages, i) /\ Followed(pages, j) /\ pages[i].life = pages[j].life
            => pages[i].list = pages[j].list
    BY DEF OfOneList
  <2>3. me.pc # "over" =>
          \A i \in 1..n : Followed(pages, i) /\ pages[i].life = restarts => AtItsVersion(me, i)
    BY DEF OfOneList
  <2>4. me.pc # "over" /\ n > 0 /\ pages[n].life = restarts =>
          pages[n].list + version' >= generation' + me.cursor.version
    <3> SUFFICES ASSUME me.pc # "over", n > 0, pages[n].life = restarts
                 PROVE  pages[n].list + version' >= generation' + me.cursor.version
      OBVIOUS
    <3> DEFINE list == pages[n].list
               v == me.cursor.version
    <3>1. list + version >= generation + v
      BY DEF OfOneList
    <3>2. list \in Nat /\ v \in Nat
      BY <1>1, <1>3, <1>4
    <3> HIDE DEF list, v
    <3>3. list + version' >= generation' + v
      BY <1>4, <3>1, <3>2
    <3> QED
      BY <3>3 DEF list, v
  <2>5. me.pc = "checked" =>
          /\ me.version <= version'
          /\ n > 0 => me.version = me.cursor.version
          /\ n > 0 /\ pages[n].life = restarts => AtItsVersion(me, n)
    BY <1>1, <1>4 DEF OfOneList
  <2>6. n > 0 => n \in 1..n
    BY <1>1
  <2> QED
    BY <1>6, <2>1, <2>2, <2>3, <2>4, <2>5, <2>6 DEF OfOneList, Followed
<1>8. \A i \in 1..Len(pages) : Length(pages[i].list)' = Length(pages[i].list)
  BY <1>3, <1>5 DEF Length
<1>9. InOrder(me)'
  BY <1>1, <1>8 DEF InOrder
<1> QED
  BY <1>7, <1>9

LEMMA PublishKeepsIInv ==
  ASSUME IInv, Publish
  PROVE  IInv'
<1>1. IndexTyped'
  <2>1. generation' = generation + 1 /\ version' = version + 1 /\ generation' \in Generations
    BY Constants DEF Publish, IInv, IndexTyped, Generations
  <2>2. PICK n \in Contents : content' = [content EXCEPT ![generation + 1] = n]
    BY DEF Publish
  <2>3. content' \in [Generations -> Contents]
    BY <2>2 DEF IInv, IndexTyped
  <2> QED
    BY <2>1, <2>3, Constants DEF Publish, IInv, IndexTyped, Generations
<1>2. \A g \in Generations : g <= generation => content'[g] = content[g]
  BY Constants DEF Publish, IInv, IndexTyped, Generations
<1>3. ASSUME NEW c \in Clients, NEW me \in Sessions, client'[c] = me
      PROVE  OfOneList(me)' /\ InOrder(me)'
  BY <1>2, <1>3, Unmoved DEF IInv, Publish
<1> QED
  BY <1>1, <1>3 DEF IInv, Publish

LEMMA SetRefreshingKeepsIInv ==
  ASSUME IInv, SetRefreshing
  PROVE  IInv'
<1>1. IndexTyped'
  BY DEF SetRefreshing, IInv, IndexTyped
<1>2. ASSUME NEW c \in Clients, NEW me \in Sessions, client'[c] = me
      PROVE  OfOneList(me)' /\ InOrder(me)'
  BY <1>2, Unmoved DEF IInv, SetRefreshing
<1> QED
  BY <1>1, <1>2 DEF IInv, SetRefreshing

\* A call under way is lost with the process.  No page is of the new life.
LEMMA RestartKeepsIInv ==
  ASSUME IInv, Restart
  PROVE  IInv'
<1>1. IndexTyped'
  BY Constants DEF Restart, IInv, IndexTyped, Generations
<1>2. restarts \in Nat /\ restarts' = restarts + 1 /\ generation' = generation
      /\ content' = content
  BY Constants DEF Restart, IInv, IndexTyped
<1>3. client' = [c \in Clients |->
                   IF ~InCall(c) THEN client[c]
                   ELSE [client[c] EXCEPT !.pc = IF client[c].pages = <<>> THEN "idle" ELSE "more"]]
  BY DEF Restart
<1>4. ASSUME NEW c \in Clients
      PROVE  /\ client'[c] \in Sessions
             /\ \A me \in Sessions : client'[c] = me => OfOneList(me)' /\ InOrder(me)'
  <2>1. PICK old \in Sessions : client[c] = old
    BY DEF IInv
  <2>2. OfOneList(old) /\ InOrder(old)
    BY <2>1 DEF IInv
  <2>3. /\ client'[c] \in Sessions
        /\ client'[c].pages = old.pages /\ client'[c].cursor = old.cursor
        /\ client'[c].limit = old.limit /\ client'[c].answer = old.answer
        /\ \/ client'[c].pc = old.pc /\ old.pc \in {"idle", "more", "over"}
           \/ /\ old.pc \notin {"idle", "more", "over"}
              /\ client'[c].pc = IF old.pages = <<>> THEN "idle" ELSE "more"
    BY <1>3, <2>1 DEF InCall, Sessions, Pcs
  <2>4. SUFFICES ASSUME NEW me \in Sessions, client'[c] = me
                 PROVE  OfOneList(me)' /\ InOrder(me)'
    BY <2>3
  <2>5. old.pages \in Seq(Pages) /\ Len(old.pages) \in Nat
    BY DEF Sessions
  <2>6. \A i \in 1..Len(old.pages) : old.pages[i].life <= restarts /\ old.pages[i].life \in Nat
    <3> TAKE i \in 1..Len(old.pages)
    <3>1. old.pages[i] \in Pages
      BY <2>5
    <3>2. old.pages[i].life \in 0..MaxRestarts
      BY <3>1 DEF Pages
    <3>3. old.pages[i].life \in Nat
      BY <3>2, PaginationAssumption
    <3> QED
      BY <2>2, <3>3 DEF OfOneList
  <2>7. \A i \in 1..Len(old.pages) : old.pages[i].life <= restarts' /\ old.pages[i].life # restarts'
    BY <1>2, <2>6
  <2>8. me.pages = old.pages /\ me.pc # "checked"
    BY <2>3, <2>4
  <2>9. \A i, j \in 1..Len(old.pages) :
          Followed(old.pages, i) /\ Followed(old.pages, j) /\ old.pages[i].life = old.pages[j].life
            => old.pages[i].list = old.pages[j].list
    BY <2>2 DEF OfOneList
  <2>10. \A i \in 1..Len(old.pages) : old.pages[i].list <= generation'
    <3>1. \A i \in 1..Len(old.pages) : old.pages[i].list <= generation
      BY <2>2 DEF OfOneList
    <3> QED
      BY <1>2, <3>1
  <2>11. Len(old.pages) > 0 => Len(old.pages) \in 1..Len(old.pages)
    BY <2>5
  <2>12. OfOneList(me)'
    BY <2>7, <2>8, <2>9, <2>10, <2>11 DEF OfOneList, Followed
  <2>13. Len(old.pages) = 0 <=> old.pages = <<>>
    BY <2>5
  <2>14. \A g : Length(g)' = Length(g)
    BY <1>2 DEF Length
  <2>15. InOrder(me)'
    BY <2>2, <2>3, <2>4, <2>13, <2>14 DEF InOrder
  <2> QED
    BY <2>12, <2>15
<1> QED
  BY <1>1, <1>3, <1>4 DEF IInv

-----------------------------------------------------------------------------
(* Steps of a session.                                                     *)

LEMMA SessionStep ==
  ASSUME IInv, UNCHANGED index, NEW c \in Clients, NEW new \in Sessions,
         client' = [client EXCEPT ![c] = new], OfOneList(new), InOrder(new)
  PROVE  IInv'
<1>1. IndexTyped'
  BY DEF IInv, IndexTyped, index
<1>2. ASSUME NEW me \in Sessions, OfOneList(me), InOrder(me)
      PROVE  OfOneList(me)' /\ InOrder(me)'
  BY <1>2, Unmoved DEF IInv, index
<1>3. ASSUME NEW d \in Clients, NEW me \in Sessions, client'[d] = me
      PROVE  OfOneList(me)' /\ InOrder(me)'
  <2>1. CASE d = c
    <3>1. me = new
      BY <1>3, <2>1 DEF IInv
    <3> QED
      BY <1>2, <3>1
  <2>2. CASE d # c
    <3>1. client[d] = me
      BY <1>3, <2>2 DEF IInv
    <3> QED
      BY <1>2, <3>1 DEF IInv
  <2> QED
    BY <2>1, <2>2
<1>4. client' \in [Clients -> Sessions]
  BY DEF IInv
<1> QED
  BY <1>1, <1>3, <1>4 DEF IInv

\* A session that gets no page and reads no version keeps what it knows.
LEMMA Moved ==
  ASSUME NEW old \in Sessions, OfOneList(old), InOrder(old), old.pc \notin {"idle", "over"},
         NEW new \in Sessions, new.pages = old.pages, new.cursor = old.cursor,
         new.limit = old.limit, new.pc \in {"asked", "indexed", "resolved", "over"},
         new.answer = old.answer \/ new.answer # "complete"
  PROVE  OfOneList(new) /\ InOrder(new)
<1>1. OfOneList(new)
  BY DEF OfOneList, AtItsVersion
<1>2. InOrder(new)
  BY DEF InOrder
<1> QED
  BY <1>1, <1>2

LEMMA GotoKeepsIInv ==
  ASSUME IInv, NEW c \in Clients, client[c].pc \notin {"idle", "over"},
         NEW pc \in {"asked", "indexed", "resolved"}, Goto(c, pc)
  PROVE  IInv'
<1>1. PICK old \in Sessions : client[c] = old /\ OfOneList(old) /\ InOrder(old)
  BY DEF IInv
<1>2. PICK new \in Sessions : new = [old EXCEPT !.pc = pc]
  BY DEF Sessions, Pcs
<1>3. OfOneList(new) /\ InOrder(new)
  BY <1>1, <1>2, Moved DEF Sessions
<1>4. client' = [client EXCEPT ![c] = new]
  BY <1>1, <1>2 DEF Goto, IInv
<1> QED
  BY <1>3, <1>4, SessionStep DEF Goto

LEMMA ReplyKeepsIInv ==
  ASSUME IInv, NEW c \in Clients, client[c].pc \notin {"idle", "over"},
         NEW answer \in Answers \ {"complete"}, Reply(c, answer)
  PROVE  IInv'
<1>1. PICK old \in Sessions : client[c] = old /\ OfOneList(old) /\ InOrder(old)
  BY DEF IInv
<1>2. PICK new \in Sessions : new = [old EXCEPT !.pc = "over", !.answer = answer]
  BY DEF Sessions, Pcs
<1>3. OfOneList(new) /\ InOrder(new)
  BY <1>1, <1>2, Moved DEF Sessions
<1>4. client' = [client EXCEPT ![c] = new]
  BY <1>1, <1>2 DEF Reply, IInv
<1> QED
  BY <1>3, <1>4, SessionStep DEF Reply

LEMMA AskKeepsIInv ==
  ASSUME IInv, NEW c \in Clients, NEW tool \in Tools, NEW limit \in Limits, Ask(c, tool, limit)
  PROVE  IInv'
<1>1. PICK new : new = [NoSession EXCEPT !.pc = "asked", !.tool = tool, !.limit = limit]
  OBVIOUS
<1>2. new \in Sessions
  <2>1. NoSession \in Sessions
    BY NoSessionIsTyped
  <2> QED
    BY <1>1, <2>1 DEF Sessions, Pcs
<1>3. /\ new.pages = <<>> /\ new.pc = "asked" /\ new.limit \in Limits
      /\ new.cursor = NoCursor /\ new.answer = "none"
  BY <1>1 DEF NoSession
<1>4. OfOneList(new) /\ InOrder(new)
  BY <1>3 DEF OfOneList, InOrder
<1>5. client' = [client EXCEPT ![c] = new]
  BY <1>1 DEF Ask
<1> QED
  BY <1>2, <1>4, <1>5, SessionStep DEF Ask

LEMMA ResolveKeepsIInv ==
  ASSUME IInv, NEW c \in Clients, AskMore(c) \/ Resolve(c) \/ ResolveAgain(c)
  PROVE  IInv'
<1>1. CASE AskMore(c)
  BY <1>1, GotoKeepsIInv DEF AskMore
<1>2. CASE Resolve(c)
  BY <1>2, GotoKeepsIInv, ReplyKeepsIInv DEF Resolve, Answers
<1>3. CASE ResolveAgain(c)
  BY <1>3, GotoKeepsIInv, ReplyKeepsIInv DEF ResolveAgain, Answers
<1> QED
  BY <1>1, <1>2, <1>3

\* The version read is the one of the session's cursor, unless it has no page
\* yet; so the page that is next is not older than the last.
LEMMA ReadInfoKeepsIInv ==
  ASSUME IInv, NEW c \in Clients, ReadInfo(c)
  PROVE  IInv'
<1>1. PICK old \in Sessions : client[c] = old /\ OfOneList(old) /\ InOrder(old)
  BY DEF IInv
<1>2. old.pc = "resolved"
  BY <1>1 DEF ReadInfo
<1>3. CASE CheckCursor(old.cursor)
  <2>1. version \in 0..MaxGenerations
    BY Constants DEF IInv, IndexTyped, Generations
  <2>2. PICK new \in Sessions : new = [old EXCEPT !.pc = "checked", !.version = version]
    BY <2>1 DEF Sessions, Pcs
  <2>3. /\ new.pages = old.pages /\ new.cursor = old.cursor /\ new.limit = old.limit
        /\ new.answer = old.answer /\ new.pc = "checked" /\ new.version = version
    BY <2>2 DEF Sessions
  <2>4. Len(old.pages) > 0 => old.cursor # NoCursor
    <3> SUFFICES ASSUME Len(old.pages) > 0, old.cursor.offset = 0
                 PROVE  FALSE
      BY DEF NoCursor
    <3>1. old.pages[Len(old.pages)] \in Pages
      BY DEF Sessions
    <3>2. old.pages[Len(old.pages)].from \in 1..MaxLength + 1
      BY <3>1 DEF Pages
    <3>3. old.pages[Len(old.pages)].from <= 0
      BY <1>1, <1>2 DEF InOrder
    <3> QED
      BY <3>2, <3>3, PaginationAssumption
  <2>5. Len(old.pages) > 0 => old.cursor.version = version
    BY <1>3, <2>4 DEF CheckCursor
  <2>6. Len(old.pages) > 0 /\ old.pages[Len(old.pages)].life = restarts =>
          AtItsVersion(new, Len(old.pages))
    <3> SUFFICES ASSUME Len(old.pages) > 0, old.pages[Len(old.pages)].life = restarts
                 PROVE  AtItsVersion(new, Len(old.pages))
      OBVIOUS
    <3> DEFINE list == old.pages[Len(old.pages)].list
    <3>1. old.pages[Len(old.pages)] \in Pages
      BY DEF Sessions
    <3>2. list \in Nat
      BY <3>1, Constants DEF Pages
    <3>3. list + version >= generation + version /\ list <= generation
      BY <1>1, <1>2, <2>5 DEF OfOneList
    <3>4. generation \in Nat /\ version \in Nat
      BY <2>1, Constants DEF IInv, IndexTyped
    <3> HIDE DEF list
    <3>5. list = generation
      BY <3>2, <3>3, <3>4
    <3> QED
      BY <2>3, <2>5, <3>4, <3>5 DEF AtItsVersion, list
  <2>7. OfOneList(new)
    <3>1. version <= version
      BY <2>1
    <3> QED
      BY <1>1, <1>2, <2>3, <2>5, <2>6, <3>1 DEF OfOneList, AtItsVersion
  <2>8. InOrder(new)
    BY <1>1, <1>2, <2>3 DEF InOrder
  <2>9. client' = [client EXCEPT ![c] = new] /\ UNCHANGED index
    BY <1>1, <1>3, <2>2 DEF ReadInfo, IInv
  <2> QED
    BY <2>7, <2>8, <2>9, SessionStep
<1>4. CASE ~CheckCursor(old.cursor)
  BY <1>1, <1>2, <1>4, ReplyKeepsIInv DEF ReadInfo, Answers
<1> QED
  BY <1>3, <1>4

\* The page that is appended is of the list of the cursor's version or of a
\* later one, and then it is the first of its life or the session's last.
LEMMA AppendedOfOneList ==
  ASSUME IndexTyped, NEW old \in Sessions, OfOneList(old), old.pc = "checked",
         NEW page \in Pages, page.list = generation, page.life = restarts,
         NEW new \in Sessions, new.pages = Append(old.pages, page),
         \/ new.pc = "over"
         \/ new.pc = "more" /\ new.cursor.version = old.version
  PROVE  OfOneList(new)
<1> DEFINE n == Len(old.pages)
<1>1. old.pages \in Seq(Pages) /\ n \in Nat /\ Len(new.pages) = n + 1
  BY DEF Sessions
<1>2. \A i \in 1..n : new.pages[i] = old.pages[i] /\ old.pages[i] \in Pages
  BY <1>1
<1>3. new.pages[n + 1] = page
  BY <1>1
<1>4. generation \in Nat /\ version \in Nat /\ restarts \in Nat
  BY Constants DEF IndexTyped
<1>5. old.cursor.version \in Nat /\ old.version \in Nat
  BY Constants DEF Sessions, Cursors
<1> HIDE DEF n
<1>6. \A i \in 1..n : old.pages[i].list \in Nat
  <2> TAKE i \in 1..n
  <2>1. old.pages[i].list \in Generations
    BY <1>2 DEF Pages
  <2> QED
    BY <2>1, Constants
<1>7. \A i \in 1..n + 1 : i \in 1..n \/ i = n + 1
  BY <1>1
<1>8. \A i \in 1..n + 1 : new.pages[i].list <= generation /\ new.pages[i].life <= restarts
  <2>1. \A i \in 1..n : old.pages[i].list <= generation /\ old.pages[i].life <= restarts
    BY DEF OfOneList, n
  <2>2. page.list <= generation /\ page.life <= restarts
    BY <1>4
  <2> TAKE i \in 1..n + 1
  <2>3. CASE i \in 1..n
    BY <1>2, <2>1, <2>3
  <2>4. CASE i = n + 1
    BY <1>3, <2>2, <2>4
  <2> QED
    BY <1>7, <2>3, <2>4
\* A page of this life that is followed is of the list of the version.
<1>9. ASSUME NEW i \in 1..n + 1, Followed(new.pages, i), new.pages[i].life = restarts
      PROVE  /\ i \in 1..n /\ n > 0 /\ old.version = old.cursor.version
             /\ old.pages[i].list + version = generation + old.version
  <2>1. i \in 1..n /\ n > 0
    BY <1>1, <1>9 DEF Followed
  <2>2. old.version = old.cursor.version
    BY <2>1 DEF OfOneList, n
  <2>3. CASE i = n
    BY <1>2, <1>9, <2>1, <2>2, <2>3 DEF OfOneList, n, AtItsVersion
  <2>4. CASE i # n
    <3>1. i < n /\ i \in 1..n /\ i + 1 \in 1..n
      BY <1>1, <2>1, <2>4
    <3>2. Followed(old.pages, i) /\ old.pages[i].life = restarts
      BY <1>2, <1>9, <3>1 DEF Followed, n
    <3>3. AtItsVersion(old, i)
      BY <3>1, <3>2 DEF OfOneList, n
    <3> QED
      BY <2>1, <2>2, <3>3 DEF AtItsVersion
  <2> QED
    BY <2>3, <2>4
<1>10. ASSUME NEW i \in 1..n + 1, NEW j \in 1..n + 1,
              Followed(new.pages, i), Followed(new.pages, j),
              new.pages[i].life = new.pages[j].life
       PROVE  new.pages[i].list = new.pages[j].list
  <2>1. i \in 1..n /\ j \in 1..n
    BY <1>1, <1>10 DEF Followed
  <2>2. CASE new.pages[i].life = restarts
    <3> DEFINE first == old.pages[i].list
               second == old.pages[j].list
    <3>1. first + version = generation + old.version
      BY <1>9, <1>10, <2>2
    <3>2. second + version = generation + old.version
      BY <1>9, <1>10, <2>2
    <3>3. first \in Nat /\ second \in Nat
      BY <1>6, <2>1
    <3> HIDE DEF first, second
    <3>4. first = second
      BY <1>4, <1>5, <3>1, <3>2, <3>3
    <3> QED
      BY <1>2, <2>1, <3>4 DEF first, second
  <2>3. CASE new.pages[i].life # restarts
    <3>1. i # n /\ j # n
      BY <1>1, <1>3, <1>10, <2>3 DEF Followed
    <3>2. i + 1 \in 1..n /\ j + 1 \in 1..n /\ i < n /\ j < n
      BY <1>1, <2>1, <3>1
    <3>3. Followed(old.pages, i) /\ Followed(old.pages, j)
      BY <1>2, <1>10, <2>1, <3>2 DEF Followed, n
    <3>4. old.pages[i].life = old.pages[j].life
      BY <1>2, <1>10, <2>1
    <3>5. old.pages[i].list = old.pages[j].list
      BY <2>1, <3>3, <3>4 DEF OfOneList, n
    <3> QED
      BY <1>2, <2>1, <3>5
  <2> QED
    BY <2>2, <2>3
<1>11. ASSUME new.pc # "over"
       PROVE  /\ \A i \in 1..n + 1 :
                   Followed(new.pages, i) /\ new.pages[i].life = restarts => AtItsVersion(new, i)
              /\ new.pages[n + 1].list + version >= generation + new.cursor.version
  <2>1. new.cursor.version = old.version /\ old.version <= version
    BY <1>11 DEF OfOneList
  <2>2. ASSUME NEW i \in 1..n + 1, Followed(new.pages, i), new.pages[i].life = restarts
        PROVE  AtItsVersion(new, i)
    BY <1>2, <1>9, <2>1, <2>2 DEF AtItsVersion
  <2>3. generation + version >= generation + old.version
    BY <1>4, <1>5, <2>1
  <2> QED
    BY <1>3, <2>1, <2>2, <2>3
<1> QED
  BY <1>1, <1>8, <1>10, <1>11 DEF OfOneList

\* The page that is appended goes on where the last one ended.
LEMMA AppendedInOrder ==
  ASSUME NEW old \in Sessions, InOrder(old), old.pc = "checked",
         NEW page \in Pages, page.from = old.cursor.offset + 1,
         NEW new \in Sessions, new.pages = Append(old.pages, page), new.limit = old.limit,
         \/ /\ new.pc = "more" /\ new.answer = "none"
            /\ new.cursor.offset = page.to /\ page.from <= page.to
         \/ /\ new.pc = "over" /\ page.to = Length(page.list)
  PROVE  InOrder(new)
<1> DEFINE n == Len(old.pages)
<1>1. old.pages \in Seq(Pages) /\ n \in Nat /\ Len(new.pages) = n + 1
  BY DEF Sessions
<1>2. \A i \in 1..n : new.pages[i] = old.pages[i]
  BY <1>1
<1>3. new.pages[n + 1] = page
  BY <1>1
<1> HIDE DEF n
<1>4. new.pages[1].from = 1
  <2>1. CASE n = 0
    BY <1>3, <2>1 DEF InOrder, n, NoCursor
  <2>2. CASE n # 0
    BY <1>1, <1>2, <2>2 DEF InOrder, n
  <2> QED
    BY <2>1, <2>2
<1>5. ASSUME NEW i \in 1..n
      PROVE  /\ new.pages[i + 1].from = new.pages[i].to + 1
             /\ new.pages[i].from <= new.pages[i].to
  <2>1. CASE i = n
    <3>1. old.cursor.offset = old.pages[n].to /\ old.pages[n].from <= old.pages[n].to
      BY <1>1, <1>5 DEF InOrder, n
    <3> QED
      BY <1>2, <1>3, <2>1, <3>1
  <2>2. CASE i # n
    <3>1. i \in 1..n - 1 /\ i + 1 \in 1..n
      BY <1>1, <2>2
    <3> QED
      BY <1>2, <3>1 DEF InOrder, n
  <2> QED
    BY <2>1, <2>2
<1>6. (n + 1) - 1 = n /\ n + 1 > 0 /\ n + 1 # 0
  BY <1>1
<1>7. new.limit \in Limits
  BY DEF InOrder
<1> QED
  BY <1>1, <1>3, <1>4, <1>5, <1>6, <1>7 DEF InOrder

LEMMA ReadPageKeepsIInv ==
  ASSUME IInv, NEW c \in Clients, ReadPage(c)
  PROVE  IInv'
<1>1. PICK old \in Sessions : client[c] = old /\ OfOneList(old) /\ InOrder(old)
  BY DEF IInv
<1>2. old.pc = "checked"
  BY <1>1 DEF ReadPage
<1>3. CASE old.tool = "repo_impact" /\ content[generation] = NotFound
  BY <1>1, <1>2, <1>3, ReplyKeepsIInv DEF ReadPage, Answers
<1>4. CASE ~(old.tool = "repo_impact" /\ content[generation] = NotFound)
  <2> DEFINE len == Length(generation)
             offset == old.cursor.offset
             limit == old.limit
             end == offset + limit
             page == [list |-> generation, life |-> restarts,
                      from |-> PageFrom(offset), to |-> Smaller(end, len)]
             new == [old EXCEPT !.pages = Append(@, page),
                                !.pc = IF end < len THEN "more" ELSE "over",
                                !.answer = IF end < len THEN "none" ELSE "complete",
                                !.cursor = IF end < len
                                             THEN [version |-> old.version, offset |-> end]
                                             ELSE @]
  <2>1. client' = [client EXCEPT ![c] = new] /\ UNCHANGED index
    BY <1>1, <1>4 DEF ReadPage
  <2>2. len \in 0..MaxLength
    BY LengthIsTyped DEF IInv, IndexTyped
  <2>3. offset \in 0..MaxLength
    BY DEF Sessions, Cursors
  <2>4. limit \in Nat /\ limit > 0
    <3>1. limit \in Limits
      BY <1>1, <1>2 DEF InOrder
    <3> QED
      BY <3>1, Constants
  <2>5. generation \in Generations /\ restarts \in 0..MaxRestarts
    BY DEF IInv, IndexTyped
  <2> HIDE DEF len, offset, limit
  <2>6. page \in Pages
    <3>1. PageFrom(offset) \in 1..MaxLength + 1
      BY <2>3, PaginationAssumption DEF PageFrom
    <3>2. Smaller(end, len) \in 0..MaxLength
      BY <2>2, <2>3, <2>4, PaginationAssumption DEF Smaller
    <3> QED
      BY <2>5, <3>1, <3>2 DEF Pages
  <2>7. page.list = generation /\ page.life = restarts /\ page.from = offset + 1
        /\ page.to = Smaller(end, len)
    BY DEF PageFrom
  <2>8. end < len => end \in 0..MaxLength /\ Smaller(end, len) = end /\ offset + 1 <= end
    BY <2>2, <2>3, <2>4, PaginationAssumption DEF Smaller
  <2>9. ~(end < len) => Smaller(end, len) = len
    BY DEF Smaller
  <2>10. old.pages \in Seq(Pages) /\ old.cursor \in Cursors /\ old.version \in 0..MaxGenerations
         /\ old.limit = limit /\ old.cursor.offset = offset
    BY DEF Sessions, limit, offset
  <2> HIDE DEF page, end
  <2>11. Append(old.pages, page) \in Seq(Pages)
    BY <2>6, <2>10
  <2>12. [version |-> old.version, offset |-> end] \in Cursors \/ ~(end < len)
    BY <2>8, <2>10 DEF Cursors
  <2>13. new \in Sessions
    BY <2>11, <2>12 DEF Sessions, Pcs, Answers
  <2>14. /\ new.pages = Append(old.pages, page) /\ new.limit = old.limit
         /\ \/ /\ end < len /\ new.pc = "more" /\ new.answer = "none"
               /\ new.cursor = [version |-> old.version, offset |-> end]
            \/ ~(end < len) /\ new.pc = "over"
    BY DEF Sessions
  <2> HIDE DEF new
  <2>15. OfOneList(new)
    BY <1>1, <1>2, <2>6, <2>7, <2>13, <2>14, AppendedOfOneList DEF IInv
  <2>16. InOrder(new)
    <3>1. CASE end < len
      <4>1. page.from = old.cursor.offset + 1 /\ page.from <= page.to /\ page.to = end
        BY <2>7, <2>8, <2>10, <3>1
      <4>2. new.pc = "more" /\ new.answer = "none" /\ new.cursor.offset = page.to
        BY <2>14, <3>1, <4>1
      <4> QED
        BY <1>1, <1>2, <2>6, <2>13, <2>14, <4>1, <4>2, AppendedInOrder
    <3>2. CASE ~(end < len)
      BY <1>1, <1>2, <2>6, <2>7, <2>9, <2>10, <2>13, <2>14, <3>2, AppendedInOrder DEF len
    <3> QED
      BY <3>1, <3>2
  <2> QED
    BY <2>1, <2>13, <2>15, <2>16, SessionStep
<1> QED
  BY <1>3, <1>4

-----------------------------------------------------------------------------
(* The theorems.                                                           *)

LEMMA NextKeepsIInv == IInv /\ [Next]_vars => IInv'
<1> SUFFICES ASSUME IInv, [Next]_vars PROVE IInv'
  OBVIOUS
<1>1. CASE Publish
  BY <1>1, PublishKeepsIInv
<1>2. CASE SetRefreshing
  BY <1>2, SetRefreshingKeepsIInv
<1>3. CASE Restart
  BY <1>3, RestartKeepsIInv
<1>4. ASSUME NEW c \in Clients, NEW tool \in Tools, NEW limit \in Limits, Ask(c, tool, limit)
      PROVE  IInv'
  BY <1>4, AskKeepsIInv
<1>5. ASSUME NEW c \in Clients, AskMore(c) \/ Call(c)
      PROVE  IInv'
  BY <1>5, ResolveKeepsIInv, ReadInfoKeepsIInv, ReadPageKeepsIInv DEF Call
<1>6. CASE UNCHANGED vars
  <2>1. UNCHANGED index /\ client' = client
    BY <1>6 DEF vars
  <2>2. IndexTyped'
    BY <2>1 DEF IInv, IndexTyped, index
  <2>3. ASSUME NEW c \in Clients, NEW me \in Sessions, client'[c] = me
        PROVE  OfOneList(me)' /\ InOrder(me)'
    BY <2>1, <2>3, Unmoved DEF IInv, index
  <2> QED
    BY <2>1, <2>2, <2>3 DEF IInv
<1> QED
  BY <1>1, <1>2, <1>3, <1>4, <1>5, <1>6 DEF Next

LEMMA Invariance == Spec => []IInv
<1>1. Init => IInv
  BY InitIInv
<1>2. IInv /\ [Next]_vars => IInv'
  BY NextKeepsIInv
<1> QED
  BY <1>1, <1>2, PTL DEF Spec

\* The index and every session are of their types (TypeOK).
THEOREM TypesHold == Spec => []TypeOK
<1>1. IInv => TypeOK
  BY IInvTypes
<1> QED
  BY <1>1, Invariance, PTL

\* A page that is followed by one of the same process is of one list with the
\* other such pages of that process (usagePage and impact compare the version
\* of the cursor, repo.go:690-702).
THEOREM PagesAreOfOneList == Spec => []OnlyLastPageMayMix
<1>1. IInv => OnlyLastPageMayMix
  <2> SUFFICES ASSUME IInv, NEW c \in Clients
               PROVE  \A i, j \in 1..Len(client[c].pages) :
                        (/\ Followed(client[c].pages, i) /\ Followed(client[c].pages, j)
                         /\ client[c].pages[i].life = client[c].pages[j].life)
                          => client[c].pages[i].list = client[c].pages[j].list
    BY DEF OnlyLastPageMayMix, Followed
  <2>1. PICK me \in Sessions : client[c] = me /\ OfOneList(me)
    BY DEF IInv
  <2> QED
    BY <2>1 DEF OfOneList
<1> QED
  BY <1>1, Invariance, PTL

\* A finished session whose pages are of one list was given all of it, in order
\* and once (the offset of usagePage and Impact).
THEOREM NothingIsSkipped == Spec => []FinishedSessionIsWhole
<1>1. IInv => FinishedSessionIsWhole
  <2> SUFFICES ASSUME IInv, NEW c \in Clients, client[c].answer = "complete",
                      \A i \in 1..Len(client[c].pages) :
                        client[c].pages[i].list = client[c].pages[1].list
               PROVE  LET pages == client[c].pages
                          n == Len(pages)
                      IN  /\ pages[1].from = 1
                          /\ \A i \in 1..n - 1 : /\ pages[i + 1].from = pages[i].to + 1
                                                 /\ pages[i].from <= pages[i].to
                          /\ pages[n].to = Length(pages[1].list)
    BY DEF FinishedSessionIsWhole
  <2>1. PICK me \in Sessions : client[c] = me /\ InOrder(me)
    BY DEF IInv
  <2>2. Len(me.pages) \in Nat /\ Len(me.pages) # 0
    BY <2>1 DEF Sessions, InOrder
  <2>3. me.pages[Len(me.pages)].list = me.pages[1].list
    BY <2>1, <2>2
  <2> QED
    BY <2>1, <2>2, <2>3 DEF InOrder
<1> QED
  BY <1>1, Invariance, PTL
=============================================================================
