------------------------- MODULE WorkerPoolProofs -------------------------
(***************************************************************************)
(* The contract of walkFiles for any number of workers and of files.       *)
(*                                                                         *)
(* The invariant follows a task: it is unsent, or at one worker, or it has *)
(* one result.  A task can be in none of these only if the context was     *)
(* cancelled, and then the call does not report success.                   *)
(***************************************************************************)
EXTENDS WorkerPool, WellFoundedInduction, TLAPS

\* The walk and the sender take the least element of a set of numbers.
LEMMA FirstOfIsLeast ==
  ASSUME NEW S, S \subseteq Nat, S # {}
  PROVE  FirstOf(S) \in S
<1>1. \E x \in S : \A y \in S : ~ (<<y, x>> \in OpToRel(<, Nat))
  BY WFMin, NatLessThanWellFounded
<1>2. PICK x \in S : \A y \in S : ~ (<<y, x>> \in OpToRel(<, Nat))
  BY <1>1
<1>3. \A y \in S : x <= y
  <2>. SUFFICES ASSUME NEW y \in S PROVE x <= y
    OBVIOUS
  <2>1. ~ (y < x)
    BY <1>2 DEF OpToRel
  <2>. QED
    BY <2>1
<1>. QED
  BY <1>3 DEF FirstOf

\* Only a worker that looks at a task or runs it has one.
WorkersHold ==
  \A w \in Workers :
    IF worker[w].step \in {"look", "run"} THEN worker[w].task \in tasks
                                         ELSE worker[w].task = NoTask

\* What each place of the caller says about the channel and the workers.
CallerPlace ==
  /\ pc = "walk" => /\ unsent = {} /\ files = {} /\ errs = {}
                    /\ \A w \in Workers : worker[w] = At("off")
  /\ pc \in {"walk", "send"} => ~closed
  /\ pc = "verdict" => \A w \in Workers : worker[w].step = "exited"
  /\ pc = "returned" => \A w \in Workers : worker[w].step \in {"off", "exited"}
  /\ result # "none" <=> pc = "returned"
  /\ (pc \in {"wait", "verdict"} /\ ~cancelled) => unsent = {}

\* A task is in one place only, and the callback ran on it if it has a result.
OnePlace ==
  /\ files \subseteq tasks /\ errs \subseteq tasks /\ files \cap errs = {}
  /\ unsent \cap (files \cup errs) = {}
  /\ \A w \in Workers : worker[w].task \notin unsent \cup files \cup errs
  /\ \A v, w \in Workers : worker[v].task = worker[w].task => v = w \/ worker[v].task = NoTask
  /\ \A t \in Entries : runs[t] = IF t \in files \cup errs THEN 1 ELSE 0

\* Without a cancellation no task is lost.
NoTaskLost ==
  (~cancelled /\ pc # "walk") =>
    \A t \in tasks : t \in unsent \cup files \cup errs \/ \E w \in Workers : worker[w].task = t

PoolInv ==
  /\ TypeOK /\ WorkersHold /\ CallerPlace /\ OnePlace
  /\ result # "ok" => NoTaskLost
  /\ SuccessIsComplete

LEMMA PoolInit == Init => PoolInv
<1>. SUFFICES ASSUME Init PROVE PoolInv
  OBVIOUS
<1>. USE WorkerPoolAssumption DEF Init, At
<1>1. TypeOK
  BY DEF TypeOK, Steps
<1>2. WorkersHold /\ CallerPlace
  BY DEF WorkersHold, CallerPlace
<1>3. OnePlace
  BY DEF OnePlace
<1>4. NoTaskLost /\ SuccessIsComplete
  BY DEF NoTaskLost, SuccessIsComplete
<1>. QED
  BY <1>1, <1>2, <1>3, <1>4 DEF PoolInv

LEMMA WalkEntryStep ==
  ASSUME PoolInv, WalkEntry
  PROVE  PoolInv'
<1>. USE DEF PoolInv, WalkEntry, results
<1>1. FirstOf(walk) \in Entries
  BY FirstOfIsLeast, WorkerPoolAssumption DEF TypeOK
<1>2. TypeOK'
  BY <1>1 DEF TypeOK, walking
<1>3. WorkersHold'
  BY DEF WorkersHold, CallerPlace, At, walking
<1>4. CallerPlace'
  BY DEF CallerPlace, At, walking
<1>5. OnePlace'
  BY DEF OnePlace, CallerPlace, walking
<1>6. (result' # "ok" => NoTaskLost') /\ SuccessIsComplete'
  BY DEF NoTaskLost, SuccessIsComplete, CallerPlace, walking
<1>. QED
  BY <1>2, <1>3, <1>4, <1>5, <1>6

LEMMA StartWorkersStep ==
  ASSUME PoolInv, StartWorkers
  PROVE  PoolInv'
<1>. USE WorkerPoolAssumption DEF PoolInv, StartWorkers, Listed, results, walking, At
<1>1. TypeOK'
  BY DEF TypeOK, Steps
<1>2. WorkersHold' /\ CallerPlace'
  BY DEF WorkersHold, CallerPlace, TypeOK
<1>3. OnePlace'
  BY DEF OnePlace, CallerPlace, TypeOK
<1>4. (result' # "ok" => NoTaskLost') /\ SuccessIsComplete'
  BY DEF NoTaskLost, SuccessIsComplete, CallerPlace
<1>. QED
  BY <1>1, <1>2, <1>3, <1>4

LEMMA SendStep ==
  ASSUME PoolInv, NEW w \in Workers, Send(w)
  PROVE  PoolInv'
<1> DEFINE t == FirstOf(unsent)
<1>. USE DEF PoolInv
<1>1. t \in unsent /\ t \in Entries /\ t \in tasks /\ t # NoTask
  BY FirstOfIsLeast, WorkerPoolAssumption DEF TypeOK, Send
<1>2. /\ worker' = [worker EXCEPT ![w] = [step |-> "look", task |-> t]]
      /\ unsent' = unsent \ {t}
      /\ pc = "send" /\ worker[w].step = "receive"
      /\ UNCHANGED <<cancelled, pc, walk, tasks, closed, files, errs, runs, result>>
  BY DEF Send, walking, results
<1>. HIDE DEF t
<1>3. TypeOK'
  <2>1. [step |-> "look", task |-> t] \in [step: Steps, task: Entries \cup {NoTask}]
    BY <1>1 DEF Steps
  <2>. QED
    BY <1>2, <2>1 DEF TypeOK
<1>4. /\ worker'[w] = [step |-> "look", task |-> t]
      /\ \A v \in Workers : v # w => worker'[v] = worker[v]
  BY <1>2 DEF TypeOK
<1>5. WorkersHold'
  BY <1>1, <1>2, <1>4 DEF WorkersHold
<1>6. CallerPlace'
  BY <1>2 DEF CallerPlace
<1>7. OnePlace'
  <2>1. \A v \in Workers : worker'[v].task \notin unsent' \cup files' \cup errs'
    BY <1>1, <1>2, <1>4 DEF OnePlace
  <2>2. \A u, v \in Workers : worker'[u].task = worker'[v].task => u = v \/ worker'[u].task = NoTask
    BY <1>1, <1>4 DEF OnePlace
  <2>. QED
    BY <1>2, <2>1, <2>2 DEF OnePlace
<1>8. NoTaskLost'
  <2>1. worker[w].task = NoTask
    BY <1>2 DEF WorkersHold
  <2>. SUFFICES ASSUME ~cancelled, NEW s \in tasks
                PROVE  s \in unsent' \cup files \cup errs \/ \E v \in Workers : worker'[v].task = s
    BY <1>2 DEF NoTaskLost
  <2>2. s \in unsent \cup files \cup errs \/ \E v \in Workers : worker[v].task = s
    BY <1>2 DEF NoTaskLost, CallerPlace
  <2>3. s # NoTask
    BY WorkerPoolAssumption DEF TypeOK
  <2>. QED
    BY <1>2, <1>4, <2>1, <2>2, <2>3
<1>9. SuccessIsComplete'
  BY <1>2 DEF SuccessIsComplete, CallerPlace
<1>. QED
  BY <1>3, <1>5, <1>6, <1>7, <1>8, <1>9

\* The steps of the caller and of the context that move no task.
LEMMA NoTaskMovesStep ==
  ASSUME PoolInv, Cancel \/ CloseJobs \/ WaitGroup
  PROVE  PoolInv'
<1>. USE DEF PoolInv, Cancel, CloseJobs, WaitGroup, AllExited, results, walking
<1>1. TypeOK'
  BY DEF TypeOK
<1>2. WorkersHold' /\ OnePlace'
  BY DEF WorkersHold, OnePlace
<1>3. CallerPlace'
  BY DEF CallerPlace, TypeOK
<1>4. result' # "ok" => NoTaskLost'
  BY DEF NoTaskLost
<1>5. SuccessIsComplete'
  BY DEF SuccessIsComplete
<1>. QED
  BY <1>1, <1>2, <1>3, <1>4, <1>5

LEMMA ReturnStep ==
  ASSUME PoolInv, Return
  PROVE  PoolInv'
<1>. USE DEF PoolInv, Return, Verdict, results, walking
<1>1. TypeOK'
  BY DEF TypeOK
<1>2. WorkersHold' /\ OnePlace'
  BY DEF WorkersHold, OnePlace
<1>3. CallerPlace'
  BY DEF CallerPlace
<1>4. result' # "ok" => NoTaskLost'
  BY DEF NoTaskLost
<1>5. SuccessIsComplete'
  <2>. SUFFICES ASSUME ~cancelled PROVE SuccessIsComplete'
    BY DEF SuccessIsComplete
  <2>1. unsent = {} /\ result = "none" /\ \A w \in Workers : worker[w].task = NoTask
    BY DEF CallerPlace, WorkersHold
  <2>2. \A t \in tasks : t \in files \cup errs
    BY <2>1, WorkerPoolAssumption DEF NoTaskLost, TypeOK
  <2>3. files \cup errs = tasks /\ files \cap errs = {}
    BY <2>2 DEF OnePlace
  <2>. QED
    BY <2>3 DEF OnePlace, SuccessIsComplete
<1>. QED
  BY <1>1, <1>2, <1>3, <1>4, <1>5

\* A worker leaves: with no task, or dropping the one it holds after the
\* cancellation.
LEMMA LeaveStep ==
  ASSUME PoolInv, NEW w \in Workers, Exit(w) \/ Look(w)
  PROVE  PoolInv'
<1>. USE DEF PoolInv, Exit, Look, NoMoreJobs, results, walking, At
<1>1. TypeOK'
  BY DEF TypeOK, Steps
<1>2. /\ \A v \in Workers : v # w => worker'[v] = worker[v]
      /\ \/ worker'[w] = [step |-> "exited", task |-> NoTask]
         \/ /\ worker[w].step = "look" /\ ~cancelled
            /\ worker'[w].step = "run" /\ worker'[w].task = worker[w].task
  BY DEF TypeOK
<1>3. UNCHANGED <<cancelled, pc, walk, tasks, unsent, closed, files, errs, runs, result>>
  OBVIOUS
<1>4. worker[w].step \in {"receive", "look"}
  OBVIOUS
<1>5. worker[w].step = "receive" => worker[w].task = NoTask
  BY DEF WorkersHold
<1>6. worker'[w].step # "run" => worker[w].task = NoTask \/ cancelled
  BY <1>5 DEF TypeOK
<1>7. WorkersHold'
  BY <1>2, <1>3 DEF WorkersHold
<1>8. CallerPlace'
  BY <1>2, <1>3, <1>4 DEF CallerPlace
<1>9. OnePlace'
  <2>1. NoTask \notin unsent \cup files \cup errs
    BY WorkerPoolAssumption DEF TypeOK
  <2>. QED
    BY <1>2, <1>3, <2>1 DEF OnePlace
<1>10. result' # "ok" => NoTaskLost'
  <2>1. \A t \in tasks : t # NoTask
    BY WorkerPoolAssumption DEF TypeOK
  <2>. QED
    BY <1>2, <1>3, <1>6, <2>1 DEF NoTaskLost
<1>11. SuccessIsComplete'
  BY <1>3 DEF SuccessIsComplete
<1>. QED
  BY <1>1, <1>7, <1>8, <1>9, <1>10, <1>11

\* The callback's result replaces the worker's hold on the task.
LEMMA RunStep ==
  ASSUME PoolInv, NEW w \in Workers, Run(w)
  PROVE  PoolInv'
<1> DEFINE t == worker[w].task
<1>. USE DEF PoolInv
<1>1. /\ t \in tasks /\ t \in Entries /\ t # NoTask
      /\ t \notin unsent \cup files \cup errs
      /\ worker[w].step = "run"
  BY WorkerPoolAssumption DEF WorkersHold, OnePlace, TypeOK, Run
<1>2. /\ worker'[w] = At("receive")
      /\ \A v \in Workers : v # w => worker'[v] = worker[v]
  BY DEF Run, TypeOK
<1>3. /\ UNCHANGED <<cancelled, pc, walk, tasks, unsent, closed, result>>
      /\ runs' = [runs EXCEPT ![t] = runs[t] + 1]
      /\ \/ files' = files \cup {t} /\ errs' = errs
         \/ errs' = errs \cup {t} /\ files' = files
  BY DEF Run, walking
<1>4. runs[t] = 0
  BY <1>1 DEF OnePlace
<1>5. worker' = [worker EXCEPT ![w] = At("receive")]
  BY DEF Run
<1>. HIDE DEF t
<1>6. TypeOK'
  BY <1>1, <1>3, <1>4, <1>5 DEF TypeOK, At, Steps
<1>7. WorkersHold'
  BY <1>2, <1>3 DEF WorkersHold, At
<1>8. pc \in {"send", "wait"}
  BY <1>1 DEF CallerPlace, TypeOK, At
<1>9. CallerPlace'
  BY <1>3, <1>8 DEF CallerPlace
<1>10. OnePlace'
  <2>1. /\ files' \subseteq tasks' /\ errs' \subseteq tasks' /\ files' \cap errs' = {}
        /\ unsent' \cap (files' \cup errs') = {}
        /\ files' \cup errs' = files \cup errs \cup {t}
    BY <1>1, <1>3 DEF OnePlace
  <2>2. \A v \in Workers : worker'[v].task \notin unsent' \cup files' \cup errs'
    <3>. TAKE v \in Workers
    <3>1. CASE v = w
      <4>1. worker'[v].task = NoTask
        BY <1>2, <3>1 DEF At
      <4>2. unsent' \cup files' \cup errs' \subseteq Entries
        BY <1>1, <1>3, <2>1 DEF TypeOK
      <4>. QED
        BY <4>1, <4>2, WorkerPoolAssumption
    <3>2. CASE v # w
      <4>1. worker'[v].task = worker[v].task /\ worker[v].task \notin unsent \cup files \cup errs
        BY <1>2, <3>2 DEF OnePlace
      <4>2. worker[v].task # t
        BY <1>1, <3>2 DEF OnePlace, t
      <4>. QED
        BY <1>3, <2>1, <4>1, <4>2
    <3>. QED
      BY <3>1, <3>2
  <2>3. \A u, v \in Workers : worker'[u].task = worker'[v].task => u = v \/ worker'[u].task = NoTask
    BY <1>2 DEF OnePlace, At
  <2>4. \A e \in Entries : runs'[e] = IF e \in files' \cup errs' THEN 1 ELSE 0
    BY <1>1, <1>3, <1>4, <2>1 DEF OnePlace, TypeOK
  <2>. QED
    BY <2>1, <2>2, <2>3, <2>4 DEF OnePlace
<1>11. result' # "ok" => NoTaskLost'
  <2>. SUFFICES ASSUME ~cancelled, result # "ok", NEW s \in tasks
                PROVE  s \in unsent' \cup files' \cup errs' \/ \E v \in Workers : worker'[v].task = s
    BY <1>3 DEF NoTaskLost
  <2>1. s \in unsent \cup files \cup errs \/ \E v \in Workers : worker[v].task = s
    BY <1>8 DEF NoTaskLost
  <2>2. CASE s = t
    BY <1>3, <2>2
  <2>3. CASE s # t
    BY <1>2, <1>3, <2>1, <2>3 DEF t
  <2>. QED
    BY <2>2, <2>3
<1>12. SuccessIsComplete'
  BY <1>3, <1>8 DEF SuccessIsComplete, CallerPlace
<1>. QED
  BY <1>6, <1>7, <1>9, <1>10, <1>11, <1>12

LEMMA PoolStep == PoolInv /\ [Next]_vars => PoolInv'
<1>. SUFFICES ASSUME PoolInv, [Next]_vars PROVE PoolInv'
  OBVIOUS
<1>1. CASE WalkEntry
  BY <1>1, WalkEntryStep
<1>2. CASE StartWorkers
  BY <1>2, StartWorkersStep
<1>3. ASSUME NEW w \in Workers, Send(w) PROVE PoolInv'
  BY <1>3, SendStep
<1>4. CASE Cancel \/ CloseJobs \/ WaitGroup
  BY <1>4, NoTaskMovesStep
<1>5. CASE Return
  BY <1>5, ReturnStep
<1>6. ASSUME NEW w \in Workers, Exit(w) \/ Look(w) PROVE PoolInv'
  BY <1>6, LeaveStep
<1>7. ASSUME NEW w \in Workers, Run(w) PROVE PoolInv'
  BY <1>7, RunStep
<1>8. CASE UNCHANGED vars
  <2>. USE <1>8 DEF vars, walking, results, PoolInv
  <2>1. TypeOK' /\ WorkersHold' /\ OnePlace'
    BY DEF TypeOK, WorkersHold, OnePlace
  <2>2. CallerPlace' /\ (result' # "ok" => NoTaskLost') /\ SuccessIsComplete'
    BY DEF CallerPlace, NoTaskLost, SuccessIsComplete
  <2>. QED
    BY <2>1, <2>2
<1>. QED
  BY <1>1, <1>2, <1>3, <1>4, <1>5, <1>6, <1>7, <1>8 DEF Next, Caller, Worker

\* The invariant holds for any pool.
THEOREM PoolInvariant == Spec => []PoolInv
<1>. QED
  BY PoolInit, PoolStep, PTL DEF Spec

\* The locals of walkFiles keep their types.
THEOREM PoolTypeCorrect == Spec => []TypeOK
<1>1. PoolInv => TypeOK
  BY DEF PoolInv
<1>. QED
  BY <1>1, PoolInvariant, PTL

\* A successful call ran the callback once on every listed file and kept one
\* result for each (symbols.go:192-235, index.go:82-99).
THEOREM SuccessComplete == Spec => []SuccessIsComplete
<1>1. PoolInv => SuccessIsComplete
  BY DEF PoolInv
<1>. QED
  BY <1>1, PoolInvariant, PTL

\* No goroutine of the pool is left when the call has returned.
THEOREM NoWorkerLeft == Spec => []NoWorkerOutlives
<1>1. PoolInv => NoWorkerOutlives
  BY DEF PoolInv, CallerPlace, NoWorkerOutlives
<1>. QED
  BY <1>1, PoolInvariant, PTL
=============================================================================
