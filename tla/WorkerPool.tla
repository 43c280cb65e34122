---------------------------- MODULE WorkerPool ----------------------------
(***************************************************************************)
(* walkFiles of internal/engine/symbols.go: the walk that lists the files, *)
(* the pool of goroutines that parses them, and the cancellation of the    *)
(* call's context at any moment.  The parse itself is IndexDir's callback  *)
(* (index.go): facts go into one map, errors into the other.               *)
(*                                                                         *)
(* The job channel has no buffer, so a send and its receive are one step.  *)
(* Both mutexes guard a single map update, which is one step here.         *)
(***************************************************************************)
EXTENDS Naturals, FiniteSets

CONSTANTS
  Workers,    \* the goroutines of the pool (2 to 16 in the code)
  Entries,    \* what the walk meets, numbered in the order it meets it
  NoTask,     \* a worker with nothing to do
  MayCancel   \* FALSE: the context is never cancelled, as in build

ASSUME WorkerPoolAssumption ==
  /\ Workers # {}
  /\ Entries \subseteq Nat
  /\ NoTask \notin Entries
  /\ MayCancel \in BOOLEAN

VARIABLES
  cancelled,    \* ctx.Err() # nil
  pc,           \* where the caller is
  walk,         \* the entries the walk has not met
  tasks,        \* the source files it listed
  unsent,       \* those not yet given to a worker
  closed,       \* is the job channel closed
  worker,       \* worker[w]: its step and its task
  files, errs,  \* the results
  runs,         \* how often the callback was called on an entry
  result        \* what the call returned

walking == <<walk, tasks>>
results == <<files, errs, runs>>
vars == <<cancelled, pc, walking, unsent, closed, worker, results, result>>

FirstOf(S) == CHOOSE x \in S : \A y \in S : x <= y
At(step) == [step |-> step, task |-> NoTask]

Init ==
  /\ cancelled = FALSE
  /\ pc = "walk"
  /\ walk = Entries
  /\ tasks = {} /\ unsent = {}
  /\ closed = FALSE
  /\ worker = [w \in Workers |-> At("off")]
  /\ files = {} /\ errs = {}
  /\ runs = [t \in Entries |-> 0]
  /\ result = "none"

\* A timeout of the tool call, or the client going away.
Cancel ==
  /\ MayCancel /\ ~cancelled /\ result = "none"
  /\ cancelled' = TRUE
  /\ UNCHANGED <<pc, walking, unsent, closed, worker, results, result>>

-----------------------------------------------------------------------------
(* collectFileTasks.                                                       *)

\* An unreadable entry is skipped before the context is looked at; any other
\* one is skipped or listed if the context is alive, and ends the walk if not.
WalkEntry ==
  LET e == FirstOf(walk)
  IN  /\ pc = "walk" /\ walk # {}
      /\ \/ /\ walk' = walk \ {e}
            /\ tasks' \in {tasks} \cup (IF cancelled THEN {} ELSE {tasks \cup {e}})
            /\ UNCHANGED <<pc, result>>
         \/ /\ cancelled
            /\ pc' = "returned" /\ result' = "cancelled"
            /\ UNCHANGED walking
      /\ UNCHANGED <<cancelled, unsent, closed, worker, results>>

\* Mutant: what the walk skipped is sent as well.
EverythingWalked == Entries
Listed == tasks

StartWorkers ==
  /\ pc = "walk" /\ walk = {}
  /\ pc' = "send"
  /\ unsent' = Listed
  /\ worker' = [w \in Workers |-> At("receive")]
  /\ UNCHANGED <<cancelled, walking, closed, results, result>>

-----------------------------------------------------------------------------
(* runFileTasks: the sender.                                               *)

\* When a worker waits and the context is done, select takes either case.
Send(w) ==
  /\ pc = "send" /\ unsent # {} /\ worker[w].step = "receive"
  /\ worker' = [worker EXCEPT ![w] = [step |-> "look", task |-> FirstOf(unsent)]]
  /\ unsent' = unsent \ {FirstOf(unsent)}
  /\ UNCHANGED <<cancelled, pc, walking, closed, results, result>>

\* Everything was sent, or the context is done.
CloseJobs ==
  /\ pc = "send" /\ (unsent = {} \/ cancelled)
  /\ closed' = TRUE
  /\ pc' = "wait"
  /\ UNCHANGED <<cancelled, walking, unsent, worker, results, result>>

\* Mutant: wg.Wait returns when one worker is done.
SomeExited == \E w \in Workers : worker[w].step = "exited"
AllExited == \A w \in Workers : worker[w].step = "exited"

WaitGroup ==
  /\ pc = "wait" /\ AllExited
  /\ pc' = "verdict"
  /\ UNCHANGED <<cancelled, walking, unsent, closed, worker, results, result>>

\* Mutant: the context is not looked at after the workers are done.
VerdictOfTheSend == IF unsent = {} THEN "ok" ELSE "cancelled"
Verdict == IF cancelled THEN "cancelled" ELSE "ok"

Return ==
  /\ pc = "verdict"
  /\ result' = Verdict
  /\ pc' = "returned"
  /\ UNCHANGED <<cancelled, walking, unsent, closed, worker, results>>

Caller == WalkEntry \/ StartWorkers \/ (\E w \in Workers : Send(w)) \/ CloseJobs \/ WaitGroup \/ Return

-----------------------------------------------------------------------------
(* runFileTasks: a worker.                                                 *)

\* Mutant: a worker waits for the tasks that were not sent.
NoMoreJobsSent == closed /\ unsent = {}
NoMoreJobs == closed

Exit(w) ==
  /\ worker[w].step = "receive" /\ NoMoreJobs
  /\ worker' = [worker EXCEPT ![w] = At("exited")]
  /\ UNCHANGED <<cancelled, pc, walking, unsent, closed, results, result>>

\* A task received after the cancellation is dropped, and the worker leaves.
Look(w) ==
  /\ worker[w].step = "look"
  /\ worker' = [worker EXCEPT ![w] = IF cancelled THEN At("exited") ELSE [@ EXCEPT !.step = "run"]]
  /\ UNCHANGED <<cancelled, pc, walking, unsent, closed, results, result>>

\* The callback returns an error or keeps its facts.
Run(w) ==
  LET t == worker[w].task
  IN  /\ worker[w].step = "run"
      /\ worker' = [worker EXCEPT ![w] = At("receive")]
      /\ runs' = [runs EXCEPT ![t] = @ + 1]
      /\ \/ files' = files \cup {t} /\ UNCHANGED errs
         \/ errs' = errs \cup {t} /\ UNCHANGED files
      /\ UNCHANGED <<cancelled, pc, walking, unsent, closed, result>>

Worker(w) == Exit(w) \/ Look(w) \/ Run(w)

-----------------------------------------------------------------------------
Next == Cancel \/ Caller \/ (\E w \in Workers : Worker(w))

Spec == Init /\ [][Next]_vars

\* The goroutines run and the callback returns; nobody has to cancel.
Fairness == WF_vars(Caller) /\ \A w \in Workers : WF_vars(Worker(w))

FairSpec == Spec /\ Fairness

-----------------------------------------------------------------------------
(* What must hold.                                                         *)

Steps == {"off", "receive", "look", "run", "exited"}

\* Every variable has the type of the local it stands for.
TypeOK ==
  /\ cancelled \in BOOLEAN
  /\ pc \in {"walk", "send", "wait", "verdict", "returned"}
  /\ walk \subseteq Entries /\ tasks \subseteq Entries /\ unsent \subseteq tasks
  /\ closed \in BOOLEAN
  /\ worker \in [Workers -> [step: Steps, task: Entries \cup {NoTask}]]
  /\ files \subseteq Entries /\ errs \subseteq Entries
  /\ runs \in [Entries -> Nat]
  /\ result \in {"none", "ok", "cancelled"}

\* runFileTasks (symbols.go:192): a call that reports success has run the
\* callback exactly once on every listed file, and every one of them has
\* either facts or an error.  A cancellation between a send and the look of
\* the worker that got it may drop the file, but not silently.
SuccessIsComplete ==
  result = "ok" =>
    /\ files \cup errs = tasks /\ files \cap errs = {}
    /\ \A t \in Entries : runs[t] = IF t \in tasks THEN 1 ELSE 0

\* The caller reads both maps without a lock once the call has returned
\* (index.go:82): no worker may be left that writes them.
NoWorkerOutlives ==
  result # "none" => \A w \in Workers : worker[w].step \in {"off", "exited"}

\* Nobody waits for ever on the channel or the wait group, cancelled or not.
CallReturns == <>(result # "none")
=============================================================================
