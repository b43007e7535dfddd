------------------------------ MODULE TaskProofs -----------------------------
(***************************************************************************)
(* A task and its credits, for every value of the constants: its types and *)
(* balances, and that workers deliver images exactly for the tasks that    *)
(* were paid, an attempt by one worker at a time, and leave no task to     *)
(* nobody (GenerationTask).                                                *)
(*                                                                         *)
(* And when moderators decide (ManualReview), for any number of them: that *)
(* somebody can decide what waits and that what is published was paid for; *)
(* and for decisions one at a time, all that holds without them.           *)
(***************************************************************************)
EXTENDS ManualReview, SequenceTheorems, FiniteSetTheorems, TLAPS

-----------------------------------------------------------------------------
(* Types.                                                                  *)

(* A task's price is a positive number of credits.                         *)
LEMMA CostType == Cost \in [Tasks -> 1..MaxCost]
<1> SUFFICES ASSUME NEW t \in Tasks PROVE Cost[t] \in 1..MaxCost
  BY DEF Cost
<1>1. Images[t] \in 1..MaxImages
  BY TaskAssumption
<1> QED
  BY <1>1 DEF Cost, MaxCost, MaxImages

(* The queue makes between one and six attempts at a job.                  *)
LEMMA AttemptsType ==
  ASSUME NEW n \in Int
  PROVE  QueueAttempts(n) \in 1..6
BY DEF QueueAttempts

(* A job added leaves every job well-formed.                               *)
LEMMA AddJobType ==
  ASSUME JobOK, NEW t \in Tasks, NEW n \in Int, AddJob(t, n)
  PROVE  JobOK'
<1>1. NewJob(n) \in [state : {"absent", "waiting", "active", "completed", "failed"},
                     made : Nat, max : 1..6, stalled : {0, 1},
                     owner : Workers \cup {None}]
  BY AttemptsType DEF NewJob, NoJob
<1> QED
  BY <1>1 DEF JobOK, AddJob

(* The account a transaction works on is an account.                       *)
LEMMA OpenedType ==
  ASSUME AccountOK, NEW u \in Users
  PROVE  Opened(u) \in [total : Int, available : Int, reserved : Int]
BY TaskAssumption DEF AccountOK, Opened, FreshAccount

(* Settling a task's price leaves accounts and ledgers well-formed.        *)
LEMMA SettleType ==
  ASSUME AccountOK, NEW t \in Tasks, NEW key \in LedgerKeys, NEW refund \in Int,
         Settle(t, key, refund)
  PROVE  AccountOK'
<1>1. Owner[t] \in Users /\ Cost[t] \in Int
  BY TaskAssumption, CostType
<1> QED
  BY <1>1 DEF AccountOK, Settle

LEMMA ConsumedType ==
  ASSUME AccountOK, NEW t \in Tasks, Consumed(t)
  PROVE  AccountOK'
BY SettleType DEF Consumed, LedgerKeys, SettlementKeys

LEMMA ReleasedType ==
  ASSUME AccountOK, NEW t \in Tasks, NEW key \in SettlementKeys, Released(t, key)
  PROVE  AccountOK'
BY SettleType, CostType DEF Released, LedgerKeys

(* New review rows keep a task's reviews a sequence of review rows.        *)
LEMMA OpenReviewType ==
  ASSUME NEW stage \in {"input", "output"}
  PROVE  OpenReview(stage) \in ReviewRow
BY DEF OpenReview, ReviewRow

LEMMA OutputReviewsType ==
  ASSUME NEW t \in Tasks
  PROVE  OutputReviews(t) \in Seq(ReviewRow)
<1>1. Images[t] \in Nat
  BY TaskAssumption
<1>2. \A i \in 1..Images[t] : OpenReview("output") \in ReviewRow
  BY OpenReviewType
<1> QED
  BY <1>1, <1>2, IsASeq DEF OutputReviews

(* The statuses of a task row, spelled out.                                *)
LEMMA StatusType ==
  TaskStatus = {"queued", "generating", "reviewing", "succeeded",
                "partially_succeeded", "failed", "cancelled"}
BY DEF TaskStatus, allowedTransitions

(* Components a step leaves alone stay well-formed.                        *)
LEMMA Unaffected ==
  /\ TaskOK /\ UNCHANGED <<sessionVars, taskVars>> => TaskOK'
  /\ AccountOK /\ UNCHANGED quotaVars => AccountOK'
  /\ JobOK /\ UNCHANGED job => JobOK'
  /\ WorkerOK /\ UNCHANGED worker => WorkerOK'
  /\ ApiOK /\ UNCHANGED api => ApiOK'
<1>1. TaskOK /\ UNCHANGED <<sessionVars, taskVars>> => TaskOK'
  BY DEF TaskOK, sessionVars, taskVars
<1>2. AccountOK /\ UNCHANGED quotaVars => AccountOK'
  BY DEF AccountOK, quotaVars
<1>3. JobOK /\ UNCHANGED job => JobOK'
  BY DEF JobOK
<1>4. WorkerOK /\ UNCHANGED worker => WorkerOK'
  BY DEF WorkerOK
<1>5. ApiOK /\ UNCHANGED api => ApiOK'
  BY DEF ApiOK
<1> QED
  BY <1>1, <1>2, <1>3, <1>4, <1>5

(* A busy request has a task, and moves from step to step.                 *)
LEMMA ApiSteps ==
  ASSUME ApiOK, NEW r \in Requests
  PROVE  /\ api[r].pc # "idle" => api[r].task \in Tasks
         /\ api' = [api EXCEPT ![r] = IdleApi] => ApiOK'
         /\ \A pc \in {"enqueue", "record", "unqueue"} :
              api[r].pc # "idle" /\ api' = [api EXCEPT ![r].pc = pc] => ApiOK'
         /\ \A t \in Tasks :
              api' = [api EXCEPT ![r] = [pc |-> "enqueue", task |-> t]] => ApiOK'
BY DEF ApiOK, IdleApi

(* A busy worker has a task, and moves from step to step.                  *)
Steps == {"start", "return", "throw"} \cup Running

LEMMA WorkerSteps ==
  ASSUME WorkerOK, NEW w \in Workers
  PROVE  /\ worker[w].pc # "idle" => worker[w] \in [pc : Steps, task : Tasks,
                                                     attempt : Nat, max : 1..6]
         /\ worker' = [worker EXCEPT ![w] = IdleWorker] => WorkerOK'
         /\ \A pc \in Steps : worker[w].pc # "idle" /\ Goto(w, pc) => WorkerOK'
<1>1. worker[w].pc # "idle" => worker[w] \in [pc : Steps, task : Tasks,
                                               attempt : Nat, max : 1..6]
  BY DEF WorkerOK, IdleWorker, Steps
<1>2. worker' = [worker EXCEPT ![w] = IdleWorker] => WorkerOK'
  BY DEF WorkerOK
<1>3. ASSUME NEW pc \in Steps, worker[w].pc # "idle", Goto(w, pc) PROVE WorkerOK'
  <2>1. [worker[w] EXCEPT !.pc = pc] \in [pc : Steps, task : Tasks,
                                           attempt : Nat, max : 1..6]
    BY <1>1, <1>3
  <2> QED
    BY <2>1, <1>3 DEF Goto, WorkerOK, Steps
<1> QED
  BY <1>1, <1>2, <1>3

LEMMA AnsweredType ==
  ASSUME WorkerOK, NEW w \in Workers, worker[w].pc # "idle",
         NEW ok \in Steps, NEW lost \in Steps, Answered(w, ok, lost)
  PROVE  WorkerOK'
BY WorkerSteps DEF Answered

(* Jobs change in ways that keep them well-formed.                         *)
JobRecord ==
  [state : {"absent", "waiting", "active", "completed", "failed"},
   made : Nat, max : 1..6, stalled : {0, 1}, owner : Workers \cup {None}]

LEMMA JobSteps ==
  ASSUME JobOK, NEW t \in Tasks, NEW j \in JobRecord, job' = [job EXCEPT ![t] = j]
  PROVE  JobOK'
BY DEF JobOK, JobRecord

-----------------------------------------------------------------------------
(* Type correctness.                                                       *)

LEMMA TypeInit == Init => TypeOK
BY TaskAssumption
DEF Init, TypeOK, TaskOK, AccountOK, JobOK, WorkerOK, ApiOK, NoJob, IdleWorker, IdleApi

LEMMA TypeApi ==
  ASSUME TypeOK, NEW r \in Requests,
         \/ \E t \in Tasks : CreateTask(r, t) \/ ReplayTask(r, t)
         \/ Finish(r) \/ RequestLost(r)
  PROVE  TypeOK'
<1> USE DEF TypeOK
<1>1. ASSUME NEW t \in Tasks, CreateTask(r, t) PROVE TypeOK'
  <2>1. Owner[t] \in Users /\ SessionOf[t] \in Sessions /\ Cost[t] \in Int
    BY CostType, TaskAssumption
  <2>2. AccountOK'
    <3>1. Opened(Owner[t]) \in [total : Int, available : Int, reserved : Int]
      BY <2>1, OpenedType
    <3>3. account' \in [Users -> [total : Int, available : Int, reserved : Int]]
      BY <1>1, <2>1, <3>1 DEF CreateTask, AccountOK
    <3> QED
      BY <1>1, <2>1, <3>3 DEF CreateTask, AccountOK, LedgerKeys
  <2>3. TaskOK'
    BY <1>1, <2>1, StatusType DEF CreateTask, TaskOK
  <2> QED
    BY <2>2, <2>3, <1>1, Unaffected, ApiSteps DEF CreateTask
<1>2. ASSUME NEW t \in Tasks, ReplayTask(r, t) PROVE TypeOK'
  BY <1>2, Unaffected, ApiSteps DEF ReplayTask
<1>3. CASE Enqueue(r)
  <2>1. api[r].task \in Tasks
    BY <1>3, ApiSteps DEF Enqueue
  <2>2. JobOK'
    BY <1>3, <2>1, AddJobType, TaskAssumption, Unaffected DEF Enqueue
  <2> QED
    BY <2>2, <1>3, Unaffected, ApiSteps DEF Enqueue
<1>4. CASE RecordJobId(r)
  <2>1. api[r].task \in Tasks
    BY <1>4, ApiSteps DEF RecordJobId
  <2>2. TaskOK'
    BY <1>4, <2>1 DEF RecordJobId, TaskOK, sessionVars
  <2> QED
    BY <2>2, <1>4, Unaffected, ApiSteps DEF RecordJobId
<1>5. CASE FailQueuedTask(r)
  <2>1. api[r].task \in Tasks
    BY <1>5, ApiSteps DEF FailQueuedTask
  <2>2. AccountOK'
    BY <1>5, <2>1, ReleasedType, Unaffected DEF FailQueuedTask, SettlementKeys
  <2>3. TaskOK'
    BY <1>5, <2>1, StatusType DEF FailQueuedTask, TaskOK, sessionVars
  <2> QED
    BY <2>2, <2>3, <1>5, Unaffected, ApiSteps DEF FailQueuedTask
<1>6. CASE RequestLost(r)
  BY <1>6, Unaffected, ApiSteps DEF RequestLost
<1> QED
  BY <1>1, <1>2, <1>3, <1>4, <1>5, <1>6 DEF Finish

LEMMA TypeUser ==
  ASSUME TypeOK,
         \/ \E u \in Users : OpenAccount(u)
         \/ \E t \in Tasks : CancelTask(t)
         \/ \E s \in Sessions : CheckSessionIdle(s) \/ DeleteSessionRow(s)
  PROVE  TypeOK'
<1> USE DEF TypeOK
<1>1. ASSUME NEW u \in Users, OpenAccount(u) PROVE TypeOK'
  <2>1. AccountOK'
    BY <1>1, TaskAssumption DEF OpenAccount, FreshAccount, AccountOK
  <2> QED
    BY <2>1, <1>1, Unaffected DEF OpenAccount
<1>2. ASSUME NEW t \in Tasks, CancelTask(t) PROVE TypeOK'
  <2>1. AccountOK'
    BY <1>2, ReleasedType DEF CancelTask, SettlementKeys
  <2>2. TaskOK'
    BY <1>2, StatusType DEF CancelTask, TaskOK, sessionVars
  <2> QED
    BY <2>1, <2>2, <1>2, Unaffected DEF CancelTask
<1>3. ASSUME NEW s \in Sessions, CheckSessionIdle(s) PROVE TypeOK'
  <2>1. TaskOK'
    BY <1>3 DEF CheckSessionIdle, TaskOK, taskVars
  <2> QED
    BY <2>1, <1>3, Unaffected DEF CheckSessionIdle
<1>4. ASSUME NEW s \in Sessions, DeleteSessionRow(s) PROVE TypeOK'
  <2>1. <<>> \in Seq(ReviewRow)
    OBVIOUS
  <2>2. TaskOK'
    BY <1>4, <2>1 DEF DeleteSessionRow, TaskOK
  <2> QED
    BY <2>2, <1>4, Unaffected DEF DeleteSessionRow
<1> QED
  BY <1>1, <1>2, <1>3, <1>4

LEMMA TypeQueue ==
  ASSUME TypeOK,
         \/ \E t \in Tasks : StallJob(t) \/ EvictJob(t)
         \/ \E w \in Workers : \/ \E t \in Tasks : TakeJob(w, t)
                               \/ FinishJob(w) \/ RejectJob(w) \/ CrashWorker(w)
  PROVE  TypeOK'
<1> USE DEF TypeOK
<1>0. \A t \in Tasks : job[t] \in JobRecord
  BY DEF JobOK, JobRecord
<1>1. ASSUME NEW t \in Tasks, StallJob(t) PROVE TypeOK'
  <2>1. PICK st \in {"waiting", "failed"} :
          job' = [job EXCEPT ![t].state = st, ![t].stalled = 1, ![t].owner = None]
    BY <1>1 DEF StallJob
  <2>3. JobOK'
    BY <1>0, <2>1 DEF JobOK, JobRecord
  <2> QED
    BY <2>3, <1>1, Unaffected DEF StallJob
<1>2. ASSUME NEW t \in Tasks, EvictJob(t) PROVE TypeOK'
  <2>1. NoJob \in JobRecord
    BY DEF NoJob, JobRecord
  <2> QED
    BY <2>1, <1>2, Unaffected, JobSteps DEF EvictJob
<1>3. ASSUME NEW w \in Workers, NEW t \in Tasks, TakeJob(w, t) PROVE TypeOK'
  <2>1. JobOK'
    BY <1>0, <1>3 DEF TakeJob, JobOK, JobRecord
  <2>2. WorkerOK'
    BY <1>0, <1>3 DEF TakeJob, WorkerOK, JobRecord
  <2> QED
    BY <2>1, <2>2, <1>3, Unaffected DEF TakeJob
<1>4. ASSUME NEW w \in Workers, FinishJob(w) PROVE TypeOK'
  <2>1. worker[w].task \in Tasks
    BY <1>4, WorkerSteps DEF FinishJob
  <2>2. JobOK'
    BY <1>0, <1>4, <2>1 DEF FinishJob, JobOK, JobRecord
  <2> QED
    BY <2>2, <1>4, Unaffected, WorkerSteps DEF FinishJob
<1>5. ASSUME NEW w \in Workers, RejectJob(w) PROVE TypeOK'
  <2>1. worker[w].task \in Tasks
    BY <1>5, WorkerSteps DEF RejectJob
  <2>2. CASE Owns(w)
    <3>1. PICK st \in {"waiting", "failed"} :
            job' = [job EXCEPT ![worker[w].task].state = st,
                               ![worker[w].task].made = @ + 1,
                               ![worker[w].task].owner = None]
      BY <1>5, <2>2 DEF RejectJob
    <3>2. JobOK'
      BY <1>0, <2>1, <3>1 DEF JobOK, JobRecord
    <3> QED
      BY <3>2, <1>5, Unaffected, WorkerSteps DEF RejectJob
  <2>3. CASE ~Owns(w)
    BY <2>3, <1>5, Unaffected, WorkerSteps DEF RejectJob
  <2> QED
    BY <2>2, <2>3
<1>6. ASSUME NEW w \in Workers, CrashWorker(w) PROVE TypeOK'
  <2>1. JobOK'
    BY <1>0, <1>6 DEF CrashWorker, JobOK, JobRecord
  <2> QED
    BY <2>1, <1>6, Unaffected, WorkerSteps DEF CrashWorker
<1> QED
  BY <1>1, <1>2, <1>3, <1>4, <1>5, <1>6

LEMMA TypeProcess ==
  ASSUME TypeOK, NEW w \in Workers, Process(w)
  PROVE  TypeOK'
<1> USE DEF TypeOK
<1> DEFINE t == worker[w].task
<1>0. ASSUME worker[w].pc # "idle" PROVE t \in Tasks /\ worker[w].attempt \in Nat
  BY <1>0, WorkerSteps
<1>1. CASE Start(w)
  <2>1. t \in Tasks /\ worker[w].attempt \in Nat
    BY <1>0, <1>1 DEF Start
  <2>2. TaskOK'
    <3>1. status' \in [Tasks -> TaskStatus \cup {"none", "deleted"}]
      BY <1>1, <2>1, StatusType DEF Start, TaskOK
    <3>2. attempts' \in [Tasks -> Nat] /\ attemptKey' \in [Tasks -> Nat]
      <4>1. attempts \in [Tasks -> Nat] /\ attempts[t] + 1 \in Nat
        BY <2>1 DEF TaskOK
      <4>2. \/ attempts' = [attempts EXCEPT ![t] = attempts[t] + 1]
            \/ attempts' = attempts
        BY <1>1 DEF Start
      <4>3. attempts' \in [Tasks -> Nat]
        BY <4>1, <4>2
      <4> QED
        BY <1>1, <2>1, <4>3 DEF Start, TaskOK
    <3> QED
      BY <1>1, <3>1, <3>2 DEF Start, TaskOK, sessionVars
  <2>3. WorkerOK'
    BY <1>1, AnsweredType DEF Start, Steps, Running
  <2> QED
    BY <2>2, <2>3, <1>1, Unaffected DEF Start
<1>2. CASE ModerateInput(w)
  <2>1. t \in Tasks
    BY <1>0, <1>2 DEF ModerateInput
  <2>2. PICK v \in InputVerdicts :
          /\ reviews' = IF v = "review" /\ status[t] = "generating"
                        THEN [reviews EXCEPT ![t] = Append(@, OpenReview("input"))]
                        ELSE reviews
          /\ Answered(w, [approved |-> "generate", review |-> "holdInput",
                          rejected |-> "reject"][v], "fail")
    BY <1>2 DEF ModerateInput
  <2>3. v \in Verdicts
    BY TaskAssumption
  <2>4. TaskOK'
    <3>1. Append(reviews[t], OpenReview("input")) \in Seq(ReviewRow)
      BY <2>1, OpenReviewType DEF TaskOK
    <3>2. reviews' \in [Tasks -> Seq(ReviewRow)]
      BY <2>1, <2>2, <3>1 DEF TaskOK
    <3> QED
      BY <1>2, <3>2 DEF ModerateInput, TaskOK, sessionVars
  <2>5. WorkerOK'
    BY <1>2, <2>2, <2>3, AnsweredType DEF ModerateInput, Steps, Running, Verdicts
  <2> QED
    BY <2>4, <2>5, <1>2, Unaffected DEF ModerateInput
<1>3. CASE Generate(w)
  BY <1>3, Unaffected, WorkerSteps DEF Generate, Steps, Running
<1>4. CASE ModerateOutput(w)
  <2>1. PICK v \in OutputVerdicts :
          Answered(w, [approved |-> "succeed", review |-> "holdOutput",
                       rejected |-> "reject"][v], "fail")
    BY <1>4 DEF ModerateOutput
  <2>2. v \in Verdicts
    BY TaskAssumption
  <2>3. WorkerOK'
    BY <1>4, <2>1, <2>2, AnsweredType DEF ModerateOutput, Steps, Running, Verdicts
  <2> QED
    BY <2>3, <1>4, Unaffected DEF ModerateOutput
<1>5. CASE HoldForReview(w)
  <2>1. t \in Tasks
    BY <1>0, <1>5 DEF HoldForReview
  <2>2. WorkerOK'
    BY <1>5, AnsweredType DEF HoldForReview, Steps, Running
  <2>3. reviews' \in [Tasks -> Seq(ReviewRow)]
    <3>1. reviews[t] \o OutputReviews(t) \in Seq(ReviewRow)
      BY <2>1, OutputReviewsType, ConcatProperties DEF TaskOK
    <3>2. reviews[t] \o <<>> \in Seq(ReviewRow)
      BY <2>1, ConcatProperties DEF TaskOK
    <3> QED
      BY <1>5, <2>1, <3>1, <3>2 DEF HoldForReview, TaskOK
  <2>4. TaskOK'
    BY <1>5, <2>1, <2>3, StatusType DEF HoldForReview, TaskOK, sessionVars
  <2> QED
    BY <2>2, <2>4, <1>5, Unaffected DEF HoldForReview
<1>6. CASE Succeed(w)
  <2>1. t \in Tasks
    BY <1>0, <1>6 DEF Succeed
  <2>2. WorkerOK'
    BY <1>6, AnsweredType, WorkerSteps DEF Succeed, Steps, Running
  <2>3. AccountOK'
    BY <1>6, <2>1, ConsumedType, Unaffected DEF Succeed
  <2>4. TaskOK'
    BY <1>6, <2>1, StatusType DEF Succeed, TaskOK, sessionVars
  <2> QED
    BY <2>2, <2>3, <2>4, <1>6, Unaffected DEF Succeed
<1>7. CASE Fail(w)
  <2>1. t \in Tasks
    BY <1>0, <1>7 DEF Fail
  <2>2. WorkerOK'
    BY <1>7, AnsweredType, WorkerSteps DEF Fail, Steps, Running
  <2>3. AccountOK'
    BY <1>7, <2>1, ReleasedType, Unaffected DEF Fail, SettlementKeys
  <2>4. TaskOK'
    BY <1>7, <2>1, StatusType DEF Fail, TaskOK, sessionVars
  <2> QED
    BY <2>2, <2>3, <2>4, <1>7, Unaffected DEF Fail
<1>8. CASE ProviderError(w) \/ PersistError(w) \/ StoreError(w)
  BY <1>8, Unaffected, WorkerSteps DEF ProviderError, PersistError, StoreError, Steps, Running
<1> QED
  BY <1>1, <1>2, <1>3, <1>4, <1>5, <1>6, <1>7, <1>8 DEF Process

LEMMA TypeNext == TypeOK /\ [Next]_vars => TypeOK'
<1>1. TypeOK /\ Next => TypeOK'
  BY TypeApi, TypeUser, TypeQueue, TypeProcess DEF Next
<1>2. TypeOK /\ UNCHANGED vars => TypeOK'
  BY Unaffected DEF vars, TypeOK
<1> QED
  BY <1>1, <1>2

(* Whatever happens to requests, jobs and workers, rows, jobs and steps    *)
(* have the values the code can give them.                                 *)
THEOREM TypeCorrect == Spec => []TypeOK
BY TypeInit, TypeNext, PTL DEF Spec

-----------------------------------------------------------------------------
(* What a step can do to a task: nothing, or one of the moves below.  Both *)
(* the status and the ledger change with each of them.                     *)

Stays(t)   == status'[t] = status[t] /\ ledger'[t] = ledger[t]

RowMoves(t, from, to, keys) ==
  status[t] \in from /\ status'[t] = to /\ ledger'[t] = ledger[t] \cup keys

RowStep(t) ==
  \/ Stays(t)
  \/ RowMoves(t, {"none"}, "queued", {"reserve"})
  \/ RowMoves(t, {"queued", "generating"}, "generating", {})
  \/ RowMoves(t, {"generating"}, "reviewing", {})
  \/ RowMoves(t, {"generating"}, "succeeded", {"consume"})
  \/ RowMoves(t, {"queued", "generating"}, "failed", {"queue-release"})
  \/ RowMoves(t, {"queued", "generating"}, "failed", {"failure-release"})
  \/ RowMoves(t, {"queued", "generating"}, "cancelled", {"cancel-release"})
  \/ RowMoves(t, TaskStatus, "deleted", {})

LEMMA StepsOfTasks ==
  ASSUME TypeOK, [Next]_vars, NEW t \in Tasks
  PROVE  RowStep(t)
<1> USE DEF TypeOK
<1>0. /\ status \in [Tasks -> TaskStatus \cup {"none", "deleted"}]
      /\ ledger \in [Tasks -> SUBSET LedgerKeys]
  BY DEF TaskOK, AccountOK
<1>a. \A r \in Requests : api[r].pc # "idle" => api[r].task \in Tasks
  BY ApiSteps
<1>b. \A w \in Workers : worker[w].pc # "idle" => worker[w].task \in Tasks
  BY WorkerSteps
<1>c. UNCHANGED <<status, ledger>> => RowStep(t)
  BY DEF RowStep, Stays
<1>1. ASSUME NEW r \in Requests, NEW s \in Tasks, CreateTask(r, s) PROVE RowStep(t)
  BY <1>0, <1>1 DEF CreateTask, RowStep, RowMoves, Stays
<1>2. ASSUME NEW r \in Requests, FailQueuedTask(r) PROVE RowStep(t)
  <2>1. api[r].task \in Tasks
    BY <1>a, <1>2 DEF FailQueuedTask
  <2> QED
    BY <1>0, <1>2, <2>1 DEF FailQueuedTask, Released, Settle, quotaVars, RowStep, RowMoves, Stays
<1>3. ASSUME NEW s \in Tasks, CancelTask(s) PROVE RowStep(t)
  BY <1>0, <1>3 DEF CancelTask, Active, Released, Settle, RowStep, RowMoves, Stays
<1>4. ASSUME NEW s \in Sessions, DeleteSessionRow(s) PROVE RowStep(t)
  BY <1>0, <1>4 DEF DeleteSessionRow, Row, quotaVars, RowStep, RowMoves, Stays
<1>5. ASSUME NEW w \in Workers, Start(w) PROVE RowStep(t)
  <2>1. worker[w].task \in Tasks
    BY <1>b, <1>5 DEF Start
  <2> QED
    BY <1>0, <1>5, <2>1 DEF Start, Claims, Active, quotaVars, RowStep, RowMoves, Stays
<1>6. ASSUME NEW w \in Workers, HoldForReview(w) PROVE RowStep(t)
  <2>1. worker[w].task \in Tasks
    BY <1>b, <1>6 DEF HoldForReview
  <2> QED
    BY <1>0, <1>6, <2>1 DEF HoldForReview, quotaVars, RowStep, RowMoves, Stays
<1>7. ASSUME NEW w \in Workers, Succeed(w) PROVE RowStep(t)
  <2>1. worker[w].task \in Tasks
    BY <1>b, <1>7 DEF Succeed
  <2> QED
    BY <1>0, <1>7, <2>1 DEF Succeed, Consumed, Settle, quotaVars, RowStep, RowMoves, Stays
<1>8. ASSUME NEW w \in Workers, Fail(w) PROVE RowStep(t)
  <2>1. worker[w].task \in Tasks
    BY <1>b, <1>8 DEF Fail
  <2> QED
    BY <1>0, <1>8, <2>1 DEF Fail, Active, Released, Settle, quotaVars, RowStep, RowMoves, Stays
<1>9. ASSUME NEW w \in Workers,
             \/ \E s \in Tasks : TakeJob(w, s)
             \/ FinishJob(w) \/ RejectJob(w) \/ CrashWorker(w)
             \/ ModerateInput(w) \/ Generate(w) \/ ModerateOutput(w)
             \/ ProviderError(w) \/ PersistError(w) \/ StoreError(w)
      PROVE UNCHANGED <<status, ledger>>
  BY <1>9 DEF TakeJob, FinishJob, RejectJob, CrashWorker, ModerateInput, Generate,
     ModerateOutput, ProviderError, PersistError, StoreError, taskVars, quotaVars
<1>10. ASSUME \/ \E u \in Users : OpenAccount(u)
              \/ \E r \in Requests :
                   \/ \E s \in Tasks : ReplayTask(r, s)
                   \/ Enqueue(r) \/ RecordJobId(r) \/ RequestLost(r)
              \/ \E s \in Tasks : StallJob(s) \/ EvictJob(s)
              \/ \E s \in Sessions : CheckSessionIdle(s)
       PROVE UNCHANGED <<status, ledger>>
  BY <1>10 DEF OpenAccount, ReplayTask, Enqueue, RecordJobId, RequestLost, StallJob,
     EvictJob, CheckSessionIdle, taskVars, quotaVars
<1>11. CASE UNCHANGED vars
  BY <1>11, <1>c DEF vars, taskVars, quotaVars
<1> QED
  BY <1>c, <1>1, <1>2, <1>3, <1>4, <1>5, <1>6, <1>7, <1>8, <1>9, <1>10, <1>11
  DEF Next, Process, Finish

-----------------------------------------------------------------------------
(* Every move keeps a task's status and its ledger in step, and goes along *)
(* an edge of the state machine.  No move leads to partially_succeeded.    *)

SettledInv == SettledOnce /\ \A t \in Tasks : status[t] # "partially_succeeded"

LEMMA SettledInit == Init => SettledInv
BY DEF Init, SettledInv, SettledOnce

LEMMA SettledNext == TypeOK /\ SettledInv /\ [Next]_vars => SettledInv'
<1> SUFFICES ASSUME TypeOK, SettledInv, [Next]_vars, NEW t \in Tasks
             PROVE  /\ status'[t] # "partially_succeeded"
                    /\ status'[t] = "none" => ledger'[t] = {}
                    /\ status'[t] \in {"queued", "generating", "reviewing"} =>
                         ledger'[t] = {"reserve"}
                    /\ status'[t] = "succeeded" => ledger'[t] = {"reserve", "consume"}
                    /\ status'[t] = "cancelled" => ledger'[t] = {"reserve", "cancel-release"}
                    /\ status'[t] = "failed" =>
                         \E key \in {"queue-release", "failure-release"} :
                           ledger'[t] = {"reserve", key}
                    /\ status'[t] = "deleted" =>
                         \E key \in SettlementKeys :
                           ledger'[t] \in {{"reserve"}, {"reserve", key}}
  BY DEF SettledInv, SettledOnce
<1>1. RowStep(t)
  BY StepsOfTasks
<1> QED
  BY <1>1, StatusType DEF RowStep, RowMoves, Stays, SettledInv, SettledOnce, SettlementKeys

(* A task is settled at most once, by the party that ended it, in every    *)
(* interleaving of requests, cancellations, deletions and workers, and     *)
(* under every fault.                                                      *)
THEOREM SettledOnceAlways == Spec => []SettledOnce
<1>1. TypeOK /\ SettledInv /\ [Next]_vars => (TypeOK /\ SettledInv)'
  BY TypeNext, SettledNext
<1>2. SettledInv => SettledOnce
  BY DEF SettledInv
<1> QED
  BY <1>1, <1>2, TypeInit, SettledInit, PTL DEF Spec

(* Nothing but moderators ever takes a task off the edges of its state     *)
(* machine.                                                                *)
THEOREM TransitionsAreLegal == Spec => LegalTransitions
<1> DEFINE Legal == \A t \in Tasks : Row(t) /\ status'[t] \notin {status[t], "deleted"} =>
                      status'[t] \in allowedTransitions[status[t]]
<1>1. TypeOK /\ [Next]_vars => [Legal]_vars
  <2> SUFFICES ASSUME TypeOK, [Next]_vars, NEW t \in Tasks, Row(t),
                      status'[t] \notin {status[t], "deleted"}
               PROVE  status'[t] \in allowedTransitions[status[t]]
    OBVIOUS
  <2>1. RowStep(t)
    BY StepsOfTasks
  <2>2. status[t] \in {"queued", "generating"}
    BY <2>1, StatusType DEF RowStep, RowMoves, Stays, Row
  <2>3. status[t] = "queued" => status'[t] \in {"generating", "cancelled", "failed"}
    BY <2>1 DEF RowStep, RowMoves, Stays
  <2>4. status[t] = "generating" =>
          status'[t] \in {"reviewing", "succeeded", "failed", "cancelled"}
    BY <2>1 DEF RowStep, RowMoves, Stays
  <2> QED
    BY <2>2, <2>3, <2>4 DEF allowedTransitions
<1>2. Spec => [][Legal]_vars
  BY <1>1, TypeCorrect, PTL DEF Spec
<1> QED
  BY <1>2 DEF LegalTransitions, LegalMove

-----------------------------------------------------------------------------
(* The book of credits, with the facts proved about it.  GenerationTask     *)
(* implements it, and therefore its balances are those the ledger adds up  *)
(* to and are never overdrawn.                                             *)

Facts == INSTANCE QuotaBookProofs WITH phase <- Phase

-----------------------------------------------------------------------------
(* The book's assumption holds of the constants of GenerationTask.  (An    *)
(* instance has its own copy of the operators of FiniteSets.)              *)

LEMMA BookAssumed == Facts!BookAssumption
<1>1. IsFiniteSet(Tasks) <=> Facts!IsFiniteSet(Tasks)
  BY DEF IsFiniteSet, Facts!IsFiniteSet
<1> QED
  BY <1>1, CostType, TaskAssumption DEF MaxCost, MaxImages, Facts!BookAssumption

(* The book of the facts and the book of the model are the same.           *)
LEMMA SameStatement ==
  \A u, ph, gr : Book!Statement(u, ph, gr) = Facts!Statement(u, ph, gr)
BY DEF Book!Statement, Facts!Statement, Book!Units, Facts!Units, Book!OfUser, Facts!OfUser,
       Book!Grant, Facts!Grant, Book!Cardinality, Facts!Cardinality

LEMMA PhaseType == AccountOK => Phase \in [Tasks -> Facts!Phases]
BY DEF AccountOK, Phase, Facts!Phases

-----------------------------------------------------------------------------
(* What a step can do to the credits: nothing, open an account, reserve a  *)
(* price, or settle one that is reserved.                                  *)

BeginsAccount(u) ==
  /\ u \notin granted
  /\ granted' = granted \cup {u}
  /\ account' = [account EXCEPT ![u] = FreshAccount]
  /\ ledger' = ledger

Reserves(t) ==
  /\ Affordable(t)
  /\ ledger[t] = {}
  /\ ledger' = [ledger EXCEPT ![t] = @ \cup {"reserve"}]
  /\ granted' = granted \cup {Owner[t]}
  /\ account' = [account EXCEPT ![Owner[t]] =
       [total |-> Opened(Owner[t]).total,
        available |-> Opened(Owner[t]).available - Cost[t],
        reserved |-> Opened(Owner[t]).reserved + Cost[t]]]

Settles(t) ==
  /\ ledger[t] = {"reserve"}
  /\ \/ Consumed(t)
     \/ \E key \in {"queue-release", "cancel-release", "failure-release"} : Released(t, key)

CreditStep ==
  \/ UNCHANGED quotaVars
  \/ \E u \in Users : BeginsAccount(u)
  \/ \E t \in Tasks : Reserves(t) \/ Settles(t)

LEMMA StepsOfCredits ==
  ASSUME TypeOK, SettledInv, [Next]_vars
  PROVE  CreditStep
<1> USE DEF TypeOK
<1>1. \A r \in Requests : api[r].pc # "idle" => api[r].task \in Tasks
  BY ApiSteps
<1>2. \A w \in Workers : worker[w].pc # "idle" => worker[w].task \in Tasks
  BY WorkerSteps
<1>3. \A t \in Tasks : /\ status[t] = "none" => ledger[t] = {}
                       /\ Active(t) => ledger[t] = {"reserve"}
  BY DEF SettledInv, SettledOnce, Active
<1>4. ASSUME NEW u \in Users, OpenAccount(u) PROVE BeginsAccount(u)
  BY <1>4 DEF OpenAccount, BeginsAccount
<1>5. ASSUME NEW r \in Requests, NEW t \in Tasks, CreateTask(r, t) PROVE Reserves(t)
  BY <1>3, <1>5 DEF CreateTask, Reserves
<1>6. ASSUME NEW r \in Requests, FailQueuedTask(r)
      PROVE  UNCHANGED quotaVars \/ (Settles(api[r].task) /\ api[r].task \in Tasks)
  BY <1>1, <1>3, <1>6 DEF FailQueuedTask, Settles, Active
<1>7. ASSUME NEW t \in Tasks, CancelTask(t) PROVE Settles(t)
  BY <1>3, <1>7 DEF CancelTask, Settles
<1>8. ASSUME NEW w \in Workers, Succeed(w)
      PROVE  UNCHANGED quotaVars \/ (Settles(worker[w].task) /\ worker[w].task \in Tasks)
  BY <1>2, <1>3, <1>8 DEF Succeed, Settles, Active
<1>9. ASSUME NEW w \in Workers, Fail(w)
      PROVE  UNCHANGED quotaVars \/ (Settles(worker[w].task) /\ worker[w].task \in Tasks)
  BY <1>2, <1>3, <1>9 DEF Fail, Settles
<1>10. ASSUME NEW w \in Workers,
              \/ \E t \in Tasks : TakeJob(w, t)
              \/ FinishJob(w) \/ RejectJob(w) \/ CrashWorker(w)
              \/ Start(w) \/ HoldForReview(w)
              \/ ModerateInput(w) \/ Generate(w) \/ ModerateOutput(w)
              \/ ProviderError(w) \/ PersistError(w) \/ StoreError(w)
       PROVE UNCHANGED quotaVars
  BY <1>10 DEF TakeJob, FinishJob, RejectJob, CrashWorker, Start, HoldForReview,
     ModerateInput, Generate, ModerateOutput, ProviderError, PersistError, StoreError
<1>11. ASSUME \/ \E r \in Requests :
                   \/ \E t \in Tasks : ReplayTask(r, t)
                   \/ Enqueue(r) \/ RecordJobId(r) \/ RequestLost(r)
              \/ \E t \in Tasks : StallJob(t) \/ EvictJob(t)
              \/ \E s \in Sessions : CheckSessionIdle(s) \/ DeleteSessionRow(s)
       PROVE UNCHANGED quotaVars
  BY <1>11 DEF ReplayTask, Enqueue, RecordJobId, RequestLost, StallJob, EvictJob,
     CheckSessionIdle, DeleteSessionRow
<1>12. CASE UNCHANGED vars
  BY <1>12 DEF vars, CreditStep
<1>13. CASE Next
  <2>1. (\E u \in Users : OpenAccount(u)) => CreditStep
    BY <1>4 DEF CreditStep
  <2>2. (\E r \in Requests, t \in Tasks : CreateTask(r, t)) => CreditStep
    BY <1>5 DEF CreditStep
  <2>3. (\E r \in Requests : FailQueuedTask(r)) => CreditStep
    BY <1>6 DEF CreditStep
  <2>4. (\E t \in Tasks : CancelTask(t)) => CreditStep
    BY <1>7 DEF CreditStep
  <2>5. (\E w \in Workers : Succeed(w) \/ Fail(w)) => CreditStep
    BY <1>8, <1>9 DEF CreditStep
  <2>6. UNCHANGED quotaVars => CreditStep
    BY DEF CreditStep
  <2> QED
    BY <1>13, <2>1, <2>2, <2>3, <2>4, <2>5, <2>6, <1>10, <1>11 DEF Next, Process, Finish
<1> QED
  BY <1>12, <1>13

-----------------------------------------------------------------------------
(* A user whose task was priced has an account.                            *)
OwnersInv == \A t \in Tasks : ledger[t] # {} => Owner[t] \in granted

CreditInv == OwnersInv /\ Facts!BookInv

LEMMA OwnersNext ==
  ASSUME TypeOK, OwnersInv, CreditStep
  PROVE  OwnersInv'
<1> USE DEF TypeOK, AccountOK
<1>1. CASE UNCHANGED quotaVars
  BY <1>1 DEF quotaVars, OwnersInv
<1>2. CASE \E u \in Users : BeginsAccount(u)
  BY <1>2 DEF BeginsAccount, OwnersInv
<1>3. CASE \E t \in Tasks : Reserves(t)
  BY <1>3 DEF Reserves, OwnersInv
<1>4. CASE \E t \in Tasks : Settles(t)
  BY <1>4 DEF Settles, Consumed, Released, Settle, OwnersInv
<1> QED
  BY <1>1, <1>2, <1>3, <1>4 DEF CreditStep

(* The account a transaction works on is the statement of its user, as it  *)
(* reads once the account is open.                                         *)
LEMMA OpenedIsStatement ==
  ASSUME TypeOK, CreditInv, NEW u \in Users, NEW gr, u \in gr
  PROVE  Opened(u) = Facts!Statement(u, Phase, gr)
<1>1. CASE u \in granted
  <2>1. account[u] = Facts!Statement(u, Phase, granted)
    BY DEF CreditInv, Facts!BookInv, Facts!NoOverdraft
  <2> QED
    BY <1>1, <2>1, BookAssumed, Facts!StatementGrant DEF Opened
<1>2. CASE u \notin granted
  <2>1. \A t \in Tasks : Owner[t] = u => ledger[t] = {}
    BY <1>2 DEF CreditInv, OwnersInv
  <2>2. \A t \in Tasks : Owner[t] = u => Phase[t] = "unpriced"
    BY <2>1 DEF Phase
  <2>3. Facts!Statement(u, Phase, gr) =
          [total |-> Facts!Grant(u, gr), available |-> Facts!Grant(u, gr), reserved |-> 0]
    BY <2>2, BookAssumed, Facts!StatementFresh
  <2> QED
    BY <1>2, <2>3 DEF Opened, FreshAccount, Facts!Grant
<1> QED
  BY <1>1, <1>2

(* Each of them is the step of the book of the same name.                  *)
LEMMA OpensAccount ==
  ASSUME TypeOK, CreditInv, NEW u \in Users, BeginsAccount(u)
  PROVE  Facts!OpenAccount(u)
<1>1. Phase' = Phase
  BY DEF BeginsAccount, Phase
<1>2. account \in [Users -> [total : Int, available : Int, reserved : Int]]
  BY DEF TypeOK, AccountOK
<1>3. ASSUME NEW v \in Users, v # u
      PROVE  account'[v] = Facts!Statement(v, Phase, granted')
  <2>1. account'[v] = account[v] /\ (v \in granted <=> v \in granted')
    BY <1>2, <1>3 DEF BeginsAccount
  <2>2. account[v] = Facts!Statement(v, Phase, granted)
    BY DEF CreditInv, Facts!BookInv, Facts!NoOverdraft
  <2> QED
    BY <2>1, <2>2, BookAssumed, Facts!StatementGrant
<1>4. account'[u] = Facts!Statement(u, Phase, granted')
  <2>1. account'[u] = FreshAccount /\ Opened(u) = FreshAccount /\ u \in granted'
    BY <1>2 DEF BeginsAccount, Opened
  <2> QED
    BY <2>1, OpenedIsStatement
<1>5. account' = [v \in Users |-> account'[v]]
  BY <1>2 DEF BeginsAccount
<1> QED
  BY <1>1, <1>3, <1>4, <1>5 DEF BeginsAccount, Facts!OpenAccount

(* A priced task moved from one phase to another, in Phase as in ledger.   *)
LEMMA PhaseMoves ==
  ASSUME AccountOK, NEW t \in Tasks, NEW from, NEW to \in Facts!Phases,
         NEW keys, Phase[t] = from, from # to,
         ledger' = [ledger EXCEPT ![t] = keys], Phase'[t] = to
  PROVE  Facts!Shift(Phase, Phase', t, from, to)
<1>1. Phase' = [Phase EXCEPT ![t] = to]
  <2>1. Phase' = [s \in Tasks |-> Phase'[s]]
    BY DEF Phase
  <2>2. ASSUME NEW s \in Tasks, s # t PROVE Phase'[s] = Phase[s]
    <3>1. ledger'[s] = ledger[s]
      BY <2>2 DEF AccountOK
    <3> QED
      BY <3>1 DEF Phase
  <2>3. Phase \in [Tasks -> Facts!Phases]
    BY PhaseType
  <2> QED
    BY <2>1, <2>2, <2>3
<1> QED
  BY <1>1, PhaseType DEF Facts!Shift

LEMMA ReservesPrice ==
  ASSUME TypeOK, CreditInv, NEW t \in Tasks, Reserves(t)
  PROVE  Facts!Reserve(t)
<1> USE DEF TypeOK
<1> DEFINE o == Owner[t]
<1>0. o \in Users /\ o \in granted' /\ Cost[t] \in Nat
  BY TaskAssumption, CostType DEF Reserves
<1>1. Opened(o) = Facts!Statement(o, Phase, granted')
  BY <1>0, OpenedIsStatement
<1>2. Phase[t] = "unpriced" /\ Phase'[t] = "reserved"
  BY DEF Reserves, Phase, AccountOK
<1>3. Facts!Shift(Phase, Phase', t, "unpriced", "reserved")
  <2>1. ledger' = [ledger EXCEPT ![t] = ledger[t] \cup {"reserve"}]
    BY DEF Reserves
  <2> QED
    BY <1>2, <2>1, PhaseMoves DEF Facts!Phases
<1>4. account' = [account EXCEPT ![o] = account'[o]]
      /\ account'[o] = [total |-> Opened(o).total, available |-> Opened(o).available - Cost[t],
                        reserved |-> Opened(o).reserved + Cost[t]]
  BY <1>0 DEF Reserves, AccountOK
<1>5. account'[o] = Facts!Statement(o, Phase', granted')
  BY <1>1, <1>3, <1>4, BookAssumed, Facts!StatementMove
<1>6. ASSUME NEW v \in Users, v # o
      PROVE  account'[v] = Facts!Statement(v, Phase', granted')
  <2>1. account'[v] = account[v] /\ (v \in granted <=> v \in granted')
    BY <1>0, <1>6 DEF Reserves, AccountOK
  <2>2. account[v] = Facts!Statement(v, Phase, granted)
    BY DEF CreditInv, Facts!BookInv, Facts!NoOverdraft
  <2>3. account[v] = Facts!Statement(v, Phase, granted')
    BY <2>1, <2>2, BookAssumed, Facts!StatementGrant
  <2>4. Facts!Statement(v, Phase', granted') = Facts!Statement(v, Phase, granted')
    BY <1>3, <1>6, BookAssumed, Facts!StatementMove
  <2> QED
    BY <2>1, <2>3, <2>4
<1>7. account' = [v \in Users |-> Facts!Statement(v, Phase', granted')]
  <2>1. account' = [v \in Users |-> account'[v]]
    BY <1>4 DEF AccountOK
  <2> QED
    BY <1>5, <1>6, <2>1
<1>8. Facts!Statement(o, Phase, granted').available >= Cost[t]
  BY <1>1 DEF Reserves, Affordable
<1>9. granted' = granted \cup {o}
  BY DEF Reserves
<1> QED
  BY <1>2, <1>3, <1>7, <1>8, <1>9 DEF Facts!Reserve, Facts!Move, Facts!Shift

LEMMA SettlesPrice ==
  ASSUME TypeOK, CreditInv, NEW t \in Tasks, Settles(t)
  PROVE  Facts!Consume(t) \/ Facts!Release(t)
<1> USE DEF TypeOK
<1> DEFINE o == Owner[t]
<1>0. o \in Users /\ Cost[t] \in Nat
  BY TaskAssumption, CostType
<1>1. account[o] = Facts!Statement(o, Phase, granted)
  BY <1>0 DEF CreditInv, Facts!BookInv, Facts!NoOverdraft
<1>2. ASSUME NEW key \in SettlementKeys, NEW refund \in {0, Cost[t]}, Settle(t, key, refund),
             NEW to \in {"consumed", "released"},
             key = "consume" <=> to = "consumed",
             refund = IF to = "consumed" THEN 0 ELSE Cost[t]
      PROVE  granted' = granted /\ Facts!Move(t, "reserved", to)
  <2>1. Phase[t] = "reserved" /\ Phase'[t] = to
    BY <1>2 DEF Settles, Settle, Phase, AccountOK, SettlementKeys
  <2>2. Facts!Shift(Phase, Phase', t, "reserved", to)
    <3>1. ledger' = [ledger EXCEPT ![t] = ledger[t] \cup {key}]
      BY <1>2 DEF Settle
    <3> QED
      BY <2>1, <3>1, PhaseMoves DEF Facts!Phases
  <2>3. granted' = granted
    BY <1>2 DEF Settle
  <2>4. account' = [account EXCEPT ![o] = account'[o]]
        /\ account'[o] = [total |-> account[o].total,
                          available |-> account[o].available + refund,
                          reserved |-> account[o].reserved - Cost[t]]
    BY <1>0, <1>2 DEF Settle, AccountOK
  <2>5. account'[o] = Facts!Statement(o, Phase', granted)
    <3>1. account[o].available \in Int
      BY <1>0 DEF AccountOK
    <3> QED
      BY <1>1, <1>2, <2>2, <2>4, <3>1, BookAssumed, Facts!StatementMove
  <2>6. ASSUME NEW v \in Users, v # o
        PROVE  account'[v] = Facts!Statement(v, Phase', granted)
    <3>1. account'[v] = account[v]
      BY <2>4, <2>6 DEF AccountOK
    <3>2. account[v] = Facts!Statement(v, Phase, granted)
      BY DEF CreditInv, Facts!BookInv, Facts!NoOverdraft
    <3>3. Facts!Statement(v, Phase', granted) = Facts!Statement(v, Phase, granted)
      BY <2>2, <2>6, BookAssumed, Facts!StatementMove
    <3> QED
      BY <3>1, <3>2, <3>3
  <2>7. account' = [v \in Users |-> Facts!Statement(v, Phase', granted)]
    <3>1. account' = [v \in Users |-> account'[v]]
      BY <2>4 DEF AccountOK
    <3> QED
      BY <2>5, <2>6, <3>1
  <2> QED
    BY <2>1, <2>2, <2>3, <2>7 DEF Facts!Move, Facts!Shift
<1>3. CASE Consumed(t)
  <2>1. granted' = granted /\ Facts!Move(t, "reserved", "consumed")
    BY <1>2, <1>3 DEF Consumed, SettlementKeys
  <2> QED
    BY <2>1 DEF Facts!Consume
<1>4. CASE \E key \in {"queue-release", "cancel-release", "failure-release"} : Released(t, key)
  <2>1. granted' = granted /\ Facts!Move(t, "reserved", "released")
    BY <1>2, <1>4 DEF Released, SettlementKeys
  <2> QED
    BY <2>1 DEF Facts!Release
<1> QED
  BY <1>3, <1>4 DEF Settles

(* So every step of the system is a step of the book, or leaves it alone.  *)
LEMMA StepsOfTheBook ==
  ASSUME TypeOK, CreditInv, CreditStep
  PROVE  [Facts!BookNext]_Facts!bookVars
<1>1. CASE UNCHANGED quotaVars
  <2>1. Phase' = Phase
    BY <1>1 DEF quotaVars, Phase
  <2> QED
    BY <1>1, <2>1 DEF quotaVars, Facts!bookVars
<1>2. CASE \E u \in Users : BeginsAccount(u)
  BY <1>2, OpensAccount DEF Facts!BookNext
<1>3. CASE \E t \in Tasks : Reserves(t) \/ Settles(t)
  BY <1>3, ReservesPrice, SettlesPrice DEF Facts!BookNext
<1> QED
  BY <1>1, <1>2, <1>3 DEF CreditStep

LEMMA StartsAsBook == Init => Facts!BookInit
<1> SUFFICES ASSUME Init PROVE Facts!BookInit
  OBVIOUS
<1>1. Phase = [t \in Tasks |-> "unpriced"] /\ granted = {}
  BY DEF Init, Phase
<1>2. ASSUME NEW u \in Users
      PROVE  Facts!Statement(u, Phase, granted) = [total |-> 0, available |-> 0, reserved |-> 0]
  <2>1. \A t \in Tasks : Owner[t] = u => Phase[t] = "unpriced"
    BY <1>1
  <2>2. Facts!Grant(u, granted) = 0
    BY <1>1 DEF Facts!Grant
  <2> QED
    BY <2>1, <2>2, BookAssumed, Facts!StatementFresh
<1>3. account = [u \in Users |-> Facts!Statement(u, Phase, granted)]
  BY <1>2 DEF Init
<1> QED
  BY <1>1, <1>3 DEF Facts!BookInit

LEMMA CreditInit == Init => CreditInv
<1>1. Init => OwnersInv
  BY DEF Init, OwnersInv
<1> QED
  BY <1>1, StartsAsBook, BookAssumed, Facts!BookInitial DEF CreditInv

LEMMA CreditKept ==
  ASSUME TypeOK, CreditInv, CreditStep
  PROVE  CreditInv'
<1>1. OwnersInv'
  BY OwnersNext DEF CreditInv
<1>2. Facts!BookInv'
  BY StepsOfTheBook, BookAssumed, Facts!BookStep DEF CreditInv
<1> QED
  BY <1>1, <1>2 DEF CreditInv

LEMMA CreditNext == TypeOK /\ SettledInv /\ CreditInv /\ [Next]_vars => CreditInv'
BY StepsOfCredits, CreditKept

LEMMA CreditAlways == Spec => [](TypeOK /\ SettledInv /\ CreditInv)
<1>1. TypeOK /\ SettledInv /\ CreditInv /\ [Next]_vars => (TypeOK /\ SettledInv /\ CreditInv)'
  BY TypeNext, SettledNext, CreditNext
<1>2. Init => TypeOK /\ SettledInv /\ CreditInv
  BY TypeInit, SettledInit, CreditInit
<1> QED
  BY <1>1, <1>2, PTL DEF Spec

LEMMA SameBook ==
  /\ Facts!BookInit => Book!BookInit
  /\ [Facts!BookNext]_Facts!bookVars => [Book!BookNext]_Book!bookVars
<1>1. Facts!BookInit => Book!BookInit
  BY SameStatement DEF Facts!BookInit, Book!BookInit
<1>2. [Facts!BookNext]_Facts!bookVars => [Book!BookNext]_Book!bookVars
  BY SameStatement DEF Facts!BookNext, Book!BookNext, Facts!bookVars, Book!bookVars,
     Facts!OpenAccount, Book!OpenAccount, Facts!Reserve, Book!Reserve, Facts!Move, Book!Move,
     Facts!Consume, Book!Consume, Facts!Release, Book!Release
<1> QED
  BY <1>1, <1>2

LEMMA BalancesFollow == CreditInv => QuotaMatchesLedger
BY SameStatement DEF CreditInv, Facts!BookInv, Facts!NoOverdraft, QuotaMatchesLedger

-----------------------------------------------------------------------------
(* The API, the queue and the workers together behave, as far as credits   *)
(* are concerned, like the book of credits, under every fault.             *)
THEOREM BookImplemented == Spec => ImplementsBook
<1>1. TypeOK /\ SettledInv /\ CreditInv /\ [Next]_vars => [Book!BookNext]_Book!bookVars
  BY StepsOfCredits, StepsOfTheBook, SameBook
<1>2. Init => Book!BookInit
  BY SameBook, StartsAsBook
<1> QED
  BY <1>1, <1>2, CreditAlways, PTL DEF Spec, ImplementsBook, Book!BookSpec

(* The balances never part from what the ledger adds up to, however        *)
(* reservations and settlements of a user interleave.                      *)
THEOREM BalancesMatch == Spec => []QuotaMatchesLedger
BY BalancesFollow, CreditAlways, PTL

(* No reservation overdraws an account, and the database's constraint on   *)
(* accounts never refuses the settlement of an active task.                *)
THEOREM AccountsCovered == Spec => []NeverOverdrawn
<1>1. TypeOK /\ SettledInv /\ CreditInv => NeverOverdrawn
  <2> SUFFICES ASSUME TypeOK, SettledInv, CreditInv PROVE NeverOverdrawn
    OBVIOUS
  <2>1. Phase \in [Tasks -> Facts!Phases]
    BY PhaseType DEF TypeOK
  <2>2. ASSUME NEW u \in Users
        PROVE  /\ account[u].available >= 0
               /\ account[u].reserved >= 0
               /\ account[u].available + account[u].reserved <= account[u].total
               /\ \A t \in Tasks : u = Owner[t] /\ Phase[t] = "reserved" =>
                    account[u].reserved >= Cost[t]
    <3>1. account[u] = Facts!Statement(u, Phase, granted) /\ account[u].available >= 0
      BY DEF CreditInv, Facts!BookInv, Facts!NoOverdraft
    <3> QED
      BY <2>1, <3>1, BookAssumed, Facts!StatementBounds
  <2>3. ASSUME NEW t \in Tasks, Active(t) PROVE CanSettle(t)
    <3>1. Phase[t] = "reserved"
      BY <2>3 DEF SettledInv, SettledOnce, Active, Phase
    <3>2. Owner[t] \in Users
      BY TaskAssumption
    <3> QED
      BY <2>2, <3>1, <3>2 DEF CanSettle
  <2> QED
    BY <2>2, <2>3 DEF NeverOverdrawn
<1> QED
  BY <1>1, CreditAlways, PTL

-----------------------------------------------------------------------------
(* What workers do and deliver.                                            *)

(* A task's images appear, are published and are deleted together with a   *)
(* change of its status.                                                   *)

Unfinished == {"none", "queued", "generating"}

ResultStep(t) ==
  \/ results'[t] = results[t] /\ status'[t] = status[t]
  \/ /\ results'[t] = results[t]
     /\ status[t] \in Unfinished
     /\ status'[t] \in {"queued", "generating", "reviewing", "failed", "cancelled"}
  \/ results'[t] = "pending" /\ status'[t] = "reviewing"
  \/ results'[t] = "approved" /\ status[t] = "generating" /\ status'[t] = "succeeded"
  \/ results'[t] = "none" /\ status'[t] = "deleted"

LEMMA StepsOfResults ==
  ASSUME TypeOK, [Next]_vars, NEW t \in Tasks
  PROVE  ResultStep(t)
<1> USE DEF TypeOK
<1>0. /\ status \in [Tasks -> TaskStatus \cup {"none", "deleted"}]
      /\ results \in [Tasks -> {"none", "pending", "approved", "rejected"}]
  BY DEF TaskOK
<1>a. \A r \in Requests : api[r].pc # "idle" => api[r].task \in Tasks
  BY ApiSteps
<1>b. \A w \in Workers : worker[w].pc # "idle" => worker[w].task \in Tasks
  BY WorkerSteps
<1>c. UNCHANGED <<status, results>> => ResultStep(t)
  BY DEF ResultStep
<1>1. ASSUME NEW r \in Requests, NEW s \in Tasks, CreateTask(r, s) PROVE ResultStep(t)
  BY <1>0, <1>1 DEF CreateTask, ResultStep, Unfinished
<1>2. ASSUME NEW r \in Requests, FailQueuedTask(r) PROVE ResultStep(t)
  BY <1>0, <1>a, <1>2 DEF FailQueuedTask, ResultStep, Unfinished
<1>3. ASSUME NEW s \in Tasks, CancelTask(s) PROVE ResultStep(t)
  BY <1>0, <1>3 DEF CancelTask, Active, ResultStep, Unfinished
<1>4. ASSUME NEW s \in Sessions, DeleteSessionRow(s) PROVE ResultStep(t)
  BY <1>0, <1>4 DEF DeleteSessionRow, ResultStep
<1>5. ASSUME NEW w \in Workers, Start(w) PROVE ResultStep(t)
  BY <1>0, <1>b, <1>5 DEF Start, Claims, Active, ResultStep, Unfinished
<1>6. ASSUME NEW w \in Workers, HoldForReview(w) PROVE ResultStep(t)
  BY <1>0, <1>b, <1>6 DEF HoldForReview, ResultStep, Unfinished
<1>7. ASSUME NEW w \in Workers, Succeed(w) PROVE ResultStep(t)
  BY <1>0, <1>b, <1>7 DEF Succeed, ResultStep
<1>8. ASSUME NEW w \in Workers, Fail(w) PROVE ResultStep(t)
  BY <1>0, <1>b, <1>8 DEF Fail, Active, ResultStep, Unfinished
<1>9. ASSUME NEW w \in Workers,
             \/ \E s \in Tasks : TakeJob(w, s)
             \/ FinishJob(w) \/ RejectJob(w) \/ CrashWorker(w)
             \/ ModerateInput(w) \/ Generate(w) \/ ModerateOutput(w)
             \/ ProviderError(w) \/ PersistError(w) \/ StoreError(w)
      PROVE UNCHANGED <<status, results>>
  BY <1>9 DEF TakeJob, FinishJob, RejectJob, CrashWorker, ModerateInput, Generate,
     ModerateOutput, ProviderError, PersistError, StoreError, taskVars
<1>10. ASSUME \/ \E u \in Users : OpenAccount(u)
              \/ \E r \in Requests :
                   \/ \E s \in Tasks : ReplayTask(r, s)
                   \/ Enqueue(r) \/ RecordJobId(r) \/ RequestLost(r)
              \/ \E s \in Tasks : StallJob(s) \/ EvictJob(s)
              \/ \E s \in Sessions : CheckSessionIdle(s)
       PROVE UNCHANGED <<status, results>>
  BY <1>10 DEF OpenAccount, ReplayTask, Enqueue, RecordJobId, RequestLost, StallJob,
     EvictJob, CheckSessionIdle, taskVars
<1>11. CASE UNCHANGED vars
  BY <1>11, <1>c DEF vars, taskVars
<1> QED
  BY <1>c, <1>1, <1>2, <1>3, <1>4, <1>5, <1>6, <1>7, <1>8, <1>9, <1>10, <1>11
  DEF Next, Process, Finish

(* DeliveredIsPaid follows from the statuses and what they say of ledgers. *)
DeliveredInv ==
  \A t \in Tasks : /\ results[t] = "approved" <=> status[t] = "succeeded"
                   /\ results[t] = "pending" => status[t] = "reviewing"

LEMMA DeliveredNext == TypeOK /\ DeliveredInv /\ [Next]_vars => DeliveredInv'
<1> SUFFICES ASSUME TypeOK, DeliveredInv, [Next]_vars, NEW t \in Tasks
             PROVE  /\ results'[t] = "approved" <=> status'[t] = "succeeded"
                    /\ results'[t] = "pending" => status'[t] = "reviewing"
  BY DEF DeliveredInv
<1>1. ResultStep(t)
  BY StepsOfResults
<1> QED
  BY <1>1 DEF ResultStep, Unfinished, DeliveredInv

(* Images are published if and only if their credits were consumed, in     *)
(* every race between workers, cancellations and lost answers.             *)
THEOREM DeliveryIsPaid == Spec => []DeliveredIsPaid
<1>1. Init => DeliveredInv
  BY DEF Init, DeliveredInv
<1>2. TypeOK /\ SettledInv /\ DeliveredInv /\ [Next]_vars
        => (TypeOK /\ SettledInv /\ DeliveredInv)'
  BY TypeNext, SettledNext, DeliveredNext
<1>3. SettledInv /\ DeliveredInv => DeliveredIsPaid
  BY DEF SettledInv, SettledOnce, DeliveredInv, DeliveredIsPaid
<1> QED
  BY <1>1, <1>2, <1>3, TypeInit, SettledInit, PTL DEF Spec

-----------------------------------------------------------------------------
(* Jobs of a single attempt.  Whatever is handed out is attempt 1, so that *)
(* the attempt key of a task tells whether it has ever been claimed.       *)

SingleAttempt == RetryLimit <= 0

JobsInv ==
  /\ \A t \in Tasks : /\ job[t].max = 1
                      /\ job[t].state \in {"waiting", "active"} => job[t].made = 0
  /\ \A w \in Workers : worker[w].pc = "start" => worker[w].attempt = 1

LEMMA AddJobKeeps ==
  ASSUME SingleAttempt, JobOK, NEW t \in Tasks, AddJob(t, RetryLimit),
         \A s \in Tasks : /\ job[s].max = 1
                          /\ job[s].state \in {"waiting", "active"} => job[s].made = 0
  PROVE  \A s \in Tasks : /\ job'[s].max = 1
                          /\ job'[s].state \in {"waiting", "active"} => job'[s].made = 0
<1>1. QueueAttempts(RetryLimit) = 1
  BY TaskAssumption DEF SingleAttempt, QueueAttempts
<1>2. NewJob(RetryLimit).made = 0 /\ NewJob(RetryLimit).max = 1
  BY <1>1 DEF NewJob, NoJob
<1> QED
  BY <1>2 DEF AddJob, JobOK

(* A worker is given a job only by TakeJob, and executes one only after    *)
(* Start.                                                                  *)
LEMMA WorkersKeep ==
  ASSUME TypeOK, NEW w \in Workers, Process(w), ~Start(w), NEW v \in Workers
  PROVE  /\ worker'[v].pc # "start"
            \/ (worker[v].pc = "start" /\ worker'[v].attempt = worker[v].attempt)
         /\ worker'[v].pc \in Running =>
              worker[v].pc \in Running /\ worker'[v].task = worker[v].task
<1> USE DEF TypeOK
<1>0. worker \in [Workers -> {IdleWorker} \cup [pc : Steps, task : Tasks,
                                                attempt : Nat, max : 1..6]]
  BY DEF WorkerOK, Steps
<1>a. \E pc \in Running \cup {"return", "throw"} :
        Goto(w, pc) /\ (pc \in Running => worker[w].pc \in Running)
  <2>1. CASE ModerateInput(w)
    <3>1. PICK x \in InputVerdicts :
            Answered(w, [approved |-> "generate", review |-> "holdInput",
                         rejected |-> "reject"][x], "fail")
      BY <2>1 DEF ModerateInput
    <3>2. x \in Verdicts
      BY TaskAssumption
    <3> QED
      BY <2>1, <3>1, <3>2 DEF ModerateInput, Verdicts, Answered, Running
  <2>2. CASE ModerateOutput(w)
    <3>1. PICK x \in OutputVerdicts :
            Answered(w, [approved |-> "succeed", review |-> "holdOutput",
                         rejected |-> "reject"][x], "fail")
      BY <2>2 DEF ModerateOutput
    <3>2. x \in Verdicts
      BY TaskAssumption
    <3> QED
      BY <2>2, <3>1, <3>2 DEF ModerateOutput, Verdicts, Answered, Running
  <2>3. CASE Generate(w) \/ HoldForReview(w)
    BY <2>3 DEF Generate, HoldForReview, Answered, Running
  <2>4. CASE Succeed(w)
    BY <2>4 DEF Succeed, Answered, Running
  <2>5. CASE Fail(w)
    BY <2>5 DEF Fail, Answered, Running
  <2>6. CASE ProviderError(w) \/ PersistError(w) \/ StoreError(w)
    BY <2>6 DEF ProviderError, PersistError, StoreError, Running
  <2> QED
    BY <2>1, <2>2, <2>3, <2>4, <2>5, <2>6 DEF Process
<1>1. PICK pc \in Running \cup {"return", "throw"} :
        Goto(w, pc) /\ (pc \in Running => worker[w].pc \in Running)
  BY <1>a
<1>2. worker' = [worker EXCEPT ![w] = [worker[w] EXCEPT !.pc = pc]]
  BY <1>1 DEF Goto
<1>3. [worker[w] EXCEPT !.pc = pc].pc = pc /\ [worker[w] EXCEPT !.pc = pc].task = worker[w].task
  BY <1>0 DEF IdleWorker
<1>4. pc # "start"
  BY DEF Running
<1> QED
  BY <1>0, <1>1, <1>2, <1>3, <1>4

(* What the other steps do to jobs and workers.                            *)
LEMMA JobsNext ==
  ASSUME SingleAttempt, TypeOK, JobsInv, [Next]_vars
  PROVE  JobsInv'
<1> USE DEF TypeOK
<1> DEFINE W == [Workers -> {IdleWorker} \cup [pc : Steps, task : Tasks,
                                               attempt : Nat, max : 1..6]]
<1>0. worker \in W /\ job \in [Tasks -> JobRecord]
  BY DEF WorkerOK, Steps, JobOK, JobRecord
<1>a. \A r \in Requests : api[r].pc # "idle" => api[r].task \in Tasks
  BY ApiSteps
<1>b. UNCHANGED <<job, worker>> => JobsInv'
  BY DEF JobsInv
<1>1. ASSUME NEW r \in Requests, Enqueue(r) PROVE JobsInv'
  <2>1. api[r].task \in Tasks /\ worker' = worker
    BY <1>a, <1>1 DEF Enqueue
  <2>2. AddJob(api[r].task, RetryLimit) \/ UNCHANGED job
    BY <1>1 DEF Enqueue
  <2> QED
    BY <1>b, <2>1, <2>2, AddJobKeeps DEF JobsInv
<1>2. ASSUME NEW w \in Workers, NEW t \in Tasks, TakeJob(w, t) PROVE JobsInv'
  BY <1>0, <1>2 DEF TakeJob, JobsInv, JobRecord
<1>3. ASSUME NEW w \in Workers, FinishJob(w) PROVE JobsInv'
  BY <1>0, <1>3 DEF FinishJob, JobsInv, JobRecord, IdleWorker
<1>4. ASSUME NEW w \in Workers, RejectJob(w) PROVE JobsInv'
  <2>1. worker[w].task \in Tasks
    BY <1>4, WorkerSteps DEF RejectJob
  <2>2. ~(job[worker[w].task].made + 1 < job[worker[w].task].max)
    BY <1>0, <2>1 DEF JobsInv, JobRecord
  <2> QED
    BY <1>0, <1>4, <2>1, <2>2 DEF RejectJob, JobsInv, JobRecord, IdleWorker
<1>5. ASSUME NEW t \in Tasks, StallJob(t) PROVE JobsInv'
  BY <1>0, <1>5 DEF StallJob, JobsInv, JobRecord
<1>6. ASSUME NEW t \in Tasks, EvictJob(t) PROVE JobsInv'
  BY <1>0, <1>6 DEF EvictJob, NoJob, JobsInv, JobRecord
<1>7. ASSUME NEW w \in Workers, CrashWorker(w) PROVE JobsInv'
  BY <1>0, <1>7 DEF CrashWorker, JobsInv, JobRecord, IdleWorker
<1>8. ASSUME NEW w \in Workers, Start(w) PROVE JobsInv'
  BY <1>0, <1>8 DEF Start, Answered, Goto, JobsInv, IdleWorker
<1>9. ASSUME NEW w \in Workers, Process(w), ~Start(w) PROVE JobsInv'
  <2>1. job' = job
    BY <1>9 DEF Process, ModerateInput, Generate, ModerateOutput, HoldForReview, Succeed,
       Fail, ProviderError, PersistError, StoreError
  <2> QED
    BY <1>9, <2>1, WorkersKeep DEF JobsInv
<1>10. ASSUME \/ \E u \in Users : OpenAccount(u)
              \/ \E r \in Requests :
                   \/ \E t \in Tasks : CreateTask(r, t) \/ ReplayTask(r, t)
                   \/ RecordJobId(r) \/ FailQueuedTask(r) \/ RequestLost(r)
              \/ \E t \in Tasks : CancelTask(t)
              \/ \E s \in Sessions : CheckSessionIdle(s) \/ DeleteSessionRow(s)
       PROVE UNCHANGED <<job, worker>>
  BY <1>10 DEF OpenAccount, CreateTask, ReplayTask, RecordJobId, FailQueuedTask, RequestLost,
     CancelTask, CheckSessionIdle, DeleteSessionRow
<1>11. CASE UNCHANGED vars
  BY <1>b, <1>11 DEF vars
<1> QED
  BY <1>b, <1>1, <1>2, <1>3, <1>4, <1>5, <1>6, <1>7, <1>8, <1>9, <1>10, <1>11
  DEF Next, Finish

ClaimsInv ==
  /\ \A t \in Tasks : attemptKey[t] \in {0, 1}
  /\ \A w \in Workers : worker[w].pc \in Running =>
       attemptKey[worker[w].task] = 1 \/ status[worker[w].task] = "deleted"
  /\ SingleExecution

(* A step that starts no execution leaves the claims as they are.          *)
LEMMA ClaimsKept ==
  ASSUME TypeOK, ClaimsInv, [Next]_vars,
         \A t \in Tasks : \/ attemptKey'[t] = attemptKey[t]
                          \/ attemptKey'[t] = 0 /\ status'[t] = "deleted",
         \A v \in Workers : worker'[v].pc \in Running =>
           worker[v].pc \in Running /\ worker'[v].task = worker[v].task
  PROVE  ClaimsInv'
<1>1. \A t \in Tasks : status[t] = "deleted" => status'[t] = "deleted"
  BY StepsOfTasks, StatusType DEF RowStep, Stays, RowMoves
<1>2. \A v \in Workers : worker[v].pc \in Running => worker[v].task \in Tasks
  BY WorkerSteps DEF TypeOK, Running
<1>3. SingleExecution'
  BY <1>2 DEF ClaimsInv, SingleExecution
<1> QED
  BY <1>1, <1>2, <1>3 DEF ClaimsInv

LEMMA ClaimsNext ==
  ASSUME TypeOK, JobsInv, ClaimsInv, [Next]_vars
  PROVE  ClaimsInv'
<1> USE DEF TypeOK
<1>0. worker \in [Workers -> {IdleWorker} \cup [pc : Steps, task : Tasks,
                                                attempt : Nat, max : 1..6]]
  BY DEF WorkerOK, Steps
<1>a. attemptKey \in [Tasks -> Nat]
  BY DEF TaskOK
<1>b. "idle" \notin Running /\ "start" \notin Running
  BY DEF Running
<1>1. ASSUME NEW w \in Workers, Start(w) PROVE ClaimsInv'
  <2> DEFINE t == worker[w].task
  <2>1. t \in Tasks /\ worker[w].pc = "start" /\ worker[w].attempt = 1
    BY <1>1, WorkerSteps DEF Start, JobsInv
  <2>2. PICK pc \in {"moderateInput", "return", "throw"} : Goto(w, pc)
    BY <1>1 DEF Start, Answered
  <2>3. \A v \in Workers : v # w => worker'[v] = worker[v]
    BY <1>0, <2>2 DEF Goto
  <2>4. worker'[w].pc = pc /\ worker'[w].task = t
    BY <1>0, <2>1, <2>2 DEF Goto, IdleWorker
  <2>5. CASE Claims(t, 1)
    <3>1. attemptKey' = [attemptKey EXCEPT ![t] = 1] /\ status' = [status EXCEPT ![t] = "generating"]
      BY <1>1, <2>1, <2>5 DEF Start
    <3>2. attemptKey[t] # 1 /\ status[t] # "deleted"
      BY <2>5 DEF Claims, Active
    <3>3. \A v \in Workers : v # w /\ worker[v].pc \in Running => worker[v].task # t
      BY <3>2 DEF ClaimsInv
    <3>4. \A v \in Workers : worker[v].pc \in Running => worker[v].task \in Tasks
      BY WorkerSteps, <1>b
    <3>5. \A s \in Tasks : attemptKey'[s] \in {0, 1}
      BY <1>a, <3>1 DEF ClaimsInv
    <3>6. \A v \in Workers : worker'[v].pc \in Running =>
            attemptKey'[worker'[v].task] = 1 \/ status'[worker'[v].task] = "deleted"
      <4> SUFFICES ASSUME NEW v \in Workers, worker'[v].pc \in Running
                   PROVE  attemptKey'[worker'[v].task] = 1 \/ status'[worker'[v].task] = "deleted"
        OBVIOUS
      <4>1. CASE v = w
        BY <1>a, <2>1, <2>4, <3>1, <4>1
      <4>2. CASE v # w
        <5>1. worker'[v] = worker[v] /\ worker[v].task \in Tasks /\ worker[v].task # t
          BY <2>3, <3>3, <3>4, <4>2
        <5>2. attemptKey'[worker[v].task] = attemptKey[worker[v].task]
              /\ status'[worker[v].task] = status[worker[v].task]
          BY <1>a, <3>1, <5>1 DEF TaskOK
        <5> QED
          BY <5>1, <5>2 DEF ClaimsInv
      <4> QED
        BY <4>1, <4>2
    <3>7. SingleExecution'
      BY <2>3, <2>4, <3>3 DEF ClaimsInv, SingleExecution
    <3> QED
      BY <3>5, <3>6, <3>7 DEF ClaimsInv
  <2>6. CASE ~Claims(t, 1)
    <3>1. attemptKey' = attemptKey /\ (Goto(w, "return") \/ Goto(w, "throw"))
      BY <1>1, <2>1, <2>6 DEF Start, Answered
    <3>2. PICK p \in {"return", "throw"} : Goto(w, p)
      BY <3>1
    <3>3. worker'[w].pc = p
      BY <1>0, <2>1, <3>2 DEF Goto, IdleWorker
    <3>4. worker'[w].pc \notin Running
      BY <3>3 DEF Running
    <3> QED
      BY <2>3, <3>1, <3>4, ClaimsKept
  <2> QED
    BY <2>5, <2>6
<1>2. ASSUME NEW w \in Workers, Process(w), ~Start(w) PROVE ClaimsInv'
  <2>1. attemptKey' = attemptKey
    BY <1>2 DEF Process, ModerateInput, Generate, ModerateOutput, HoldForReview, Succeed,
       Fail, ProviderError, PersistError, StoreError, taskVars
  <2> QED
    BY <1>2, <2>1, WorkersKeep, ClaimsKept
<1>3. ASSUME NEW w \in Workers,
             \/ \E t \in Tasks : TakeJob(w, t)
             \/ FinishJob(w) \/ RejectJob(w) \/ CrashWorker(w)
      PROVE  ClaimsInv'
  <2>1. attemptKey' = attemptKey
    BY <1>3 DEF TakeJob, FinishJob, RejectJob, CrashWorker, taskVars
  <2>2. /\ \A v \in Workers : v # w => worker'[v] = worker[v]
        /\ worker'[w].pc \in {"idle", "start"}
    <3>1. ASSUME NEW s \in Tasks, TakeJob(w, s)
          PROVE  /\ \A v \in Workers : v # w => worker'[v] = worker[v]
                 /\ worker'[w].pc \in {"idle", "start"}
      BY <1>0, <3>1 DEF TakeJob
    <3>2. CASE FinishJob(w) \/ RejectJob(w) \/ CrashWorker(w)
      <4>1. worker' = [worker EXCEPT ![w] = IdleWorker]
        BY <3>2 DEF FinishJob, RejectJob, CrashWorker
      <4> QED
        BY <1>0, <4>1 DEF IdleWorker
    <3> QED
      BY <1>3, <3>1, <3>2
  <2>3. \A v \in Workers : worker'[v].pc \in Running => worker'[v] = worker[v]
    BY <2>2, <1>b
  <2> QED
    BY <2>1, <2>3, ClaimsKept
<1>4. ASSUME NEW s \in Sessions, DeleteSessionRow(s) PROVE ClaimsInv'
  BY <1>4, <1>a, ClaimsKept DEF DeleteSessionRow
<1>5. ASSUME \/ \E u \in Users : OpenAccount(u)
             \/ \E r \in Requests :
                  \/ \E t \in Tasks : CreateTask(r, t) \/ ReplayTask(r, t)
                  \/ Finish(r) \/ RequestLost(r)
             \/ \E t \in Tasks : CancelTask(t) \/ StallJob(t) \/ EvictJob(t)
             \/ \E s \in Sessions : CheckSessionIdle(s)
             \/ UNCHANGED vars
       PROVE UNCHANGED <<attemptKey, worker>>
  BY <1>5 DEF OpenAccount, CreateTask, ReplayTask, Finish, Enqueue, RecordJobId,
     FailQueuedTask, RequestLost, CancelTask, StallJob, EvictJob, CheckSessionIdle,
     taskVars, vars
<1>6. UNCHANGED <<attemptKey, worker>> => ClaimsInv'
  BY ClaimsKept
<1> QED
  BY <1>1, <1>2, <1>3, <1>4, <1>5, <1>6 DEF Next

(* When jobs have a single attempt, no two workers ever execute a task at  *)
(* the same time, whatever jobs are handed out twice and whoever dies.     *)
THEOREM OneWorkerAtATime ==
  ASSUME SingleAttempt
  PROVE  Spec => []SingleExecution
<1>1. Init => JobsInv /\ ClaimsInv
  BY DEF Init, JobsInv, ClaimsInv, SingleExecution, NoJob, IdleWorker, Running
<1>2. TypeOK /\ JobsInv /\ ClaimsInv /\ [Next]_vars => (TypeOK /\ JobsInv /\ ClaimsInv)'
  BY TypeNext, JobsNext, ClaimsNext
<1>3. ClaimsInv => SingleExecution
  BY DEF ClaimsInv
<1> QED
  BY <1>1, <1>2, <1>3, TypeInit, PTL DEF Spec

-----------------------------------------------------------------------------
(* Who is to finish a task, when nothing dies or stalls and the database   *)
(* answers; the queue may still fail.                                      *)

NothingDies == Faults \subseteq {"queue"}

(* Jobs and workers agree on who runs what: an active job is owned by a    *)
(* worker busy with it, and a busy worker owns its task's job.             *)
JobHeld(t) ==
  /\ job[t].state # "absent" => status[t] # "none" /\ job[t].max = QueueAttempts(RetryLimit)
  /\ job[t].state \in {"waiting", "active"} => job[t].made < job[t].max
  /\ job[t].state = "active" <=> job[t].owner # None
  /\ job[t].owner # None =>
       worker[job[t].owner].pc # "idle" /\ worker[job[t].owner].task = t

WorkerHolds(w) ==
  worker[w].pc # "idle" =>
    LET t == worker[w].task IN
    /\ job[t].owner = w
    /\ worker[w].attempt = job[t].made + 1
    /\ worker[w].max = job[t].max

(* A task's attempts are numbered without gaps.                            *)
TriesCounted(t) ==
  /\ attempts[t] = attemptKey[t]
  /\ attempts[t] <= QueueAttempts(RetryLimit)
  /\ status[t] \in {"none", "queued"} => attemptKey[t] = 0

(* What InGoodHands says of an active task, with the attempt it is at.     *)
InHand(t) ==
  \/ /\ job[t].state = "absent"
     /\ status[t] = "queued"
     /\ \E r \in Requests : api[r].task = t /\ api[r].pc \in {"enqueue", "unqueue"}
  \/ job[t].state = "waiting" /\ attemptKey[t] = job[t].made
  \/ /\ job[t].state = "active"
     /\ LET pc == worker[job[t].owner].pc IN
        \/ pc = "start" /\ attemptKey[t] = job[t].made
        \/ pc \in Running /\ attemptKey[t] = job[t].made + 1
        \/ /\ pc = "throw" /\ attemptKey[t] = job[t].made + 1
           /\ job[t].made + 1 < job[t].max

HandsInv ==
  /\ \A t \in Tasks : JobHeld(t) /\ TriesCounted(t) /\ (Active(t) => InHand(t))
  /\ \A w \in Workers : WorkerHolds(w)
  /\ \A r \in Requests : api[r].pc # "idle" => status[api[r].task] # "none"

(* A row does not vanish, and a task never becomes active again.           *)
LEMMA StatusSteps ==
  ASSUME TypeOK, [Next]_vars, NEW t \in Tasks
  PROVE  /\ status[t] # "none" => status'[t] # "none"
         /\ Active(t)' => Active(t) \/ status[t] = "none"
         /\ status'[t] = "queued" => status[t] \in {"none", "queued"}
BY StepsOfTasks, StatusType DEF RowStep, Stays, RowMoves, Active

(* Whoever has a task at hand keeps it in a step that leaves him, its job  *)
(* and its attempts alone.                                                 *)
LEMMA StaysInHand ==
  ASSUME TypeOK, HandsInv, [Next]_vars, NEW t \in Tasks,
         job'[t] = job[t], attempts'[t] = attempts[t], attemptKey'[t] = attemptKey[t],
         status'[t] = status[t] \/ ~Active(t)',
         job[t].owner # None => worker'[job[t].owner] = worker[job[t].owner],
         job[t].state = "absent" /\ status[t] = "queued" /\ status'[t] = "queued" =>
           \A r \in Requests : api[r].task = t /\ api[r].pc \in {"enqueue", "unqueue"}
             => api'[r].task = t /\ api'[r].pc \in {"enqueue", "unqueue"}
  PROVE  JobHeld(t)' /\ TriesCounted(t)' /\ (Active(t)' => InHand(t)')
<1>0. /\ status[t] # "none" => status'[t] # "none"
      /\ Active(t)' => Active(t) \/ status[t] = "none"
      /\ status'[t] = "queued" => status[t] \in {"none", "queued"}
  BY StatusSteps
<1>1. JobHeld(t) /\ TriesCounted(t) /\ (Active(t) => InHand(t))
  BY DEF HandsInv
<1>2. JobHeld(t)'
  BY <1>0, <1>1 DEF JobHeld
<1>3. TriesCounted(t)'
  <2>1. status'[t] = "none" => status[t] = "none"
    BY <1>0
  <2> QED
    BY <1>0, <1>1, <2>1 DEF TriesCounted
<1>4. ASSUME Active(t)' PROVE InHand(t)'
  <2>1. InHand(t) /\ status'[t] = status[t]
    BY <1>0, <1>1, <1>4 DEF Active
  <2>2. CASE job[t].state = "absent"
    BY <2>1, <2>2 DEF InHand
  <2>3. CASE job[t].state # "absent"
    <3>1. job[t].state = "active" => job[t].owner # None
      BY <1>1 DEF JobHeld
    <3> QED
      BY <2>1, <2>3, <3>1 DEF InHand
  <2> QED
    BY <2>2, <2>3
<1> QED
  BY <1>2, <1>3, <1>4

(* A worker about to return has finished its task; one that throws leaves  *)
(* it to the job's next attempt.                                           *)
Lands(w, pc) ==
  LET t == worker[w].task IN
  /\ Goto(w, pc)
  /\ worker[w].pc \in Running
  /\ pc = "return" => status'[t] \notin {"queued", "generating"}
  /\ pc = "throw" => Retries(w) \/ status'[t] \notin {"queued", "generating"}

LEMMA WorkersLand ==
  ASSUME NothingDies, TypeOK, HandsInv, NeverOverdrawn, NEW w \in Workers,
         Process(w), ~Start(w)
  PROVE  \E pc \in Running \cup {"return", "throw"} : Lands(w, pc)
<1> DEFINE t == worker[w].task
<1> USE DEF TypeOK
<1>0. "db" \notin Faults
  BY DEF NothingDies
<1>1. worker[w].pc \in Running
  BY <1>0 DEF Process, ModerateInput, Generate, ModerateOutput, HoldForReview, Succeed,
     Fail, ProviderError, PersistError, StoreError, Running
<1>2. t \in Tasks /\ job[t].owner = w
  BY <1>1, WorkerSteps DEF Running, HandsInv, WorkerHolds
<1>3. status[t] # "queued" /\ (Active(t) => CanSettle(t))
  <2>1. JobHeld(t) /\ TriesCounted(t) /\ (Active(t) => InHand(t))
    BY <1>2 DEF HandsInv
  <2>2. job[t].owner # None /\ job[t].made \in Nat
    BY <1>2, TaskAssumption DEF JobOK
  <2>3. ASSUME status[t] = "queued" PROVE FALSE
    <3>1. attemptKey[t] = 0 /\ InHand(t) /\ job[t].state = "active"
      BY <2>1, <2>2, <2>3 DEF Active, TriesCounted, JobHeld
    <3>2. attemptKey[t] = job[t].made + 1
      BY <1>1, <1>2, <3>1 DEF InHand, Running
    <3> QED
      BY <2>2, <3>1, <3>2
  <2> QED
    BY <1>2, <2>3 DEF NeverOverdrawn
<1>4. status \in [Tasks -> TaskStatus \cup {"none", "deleted"}]
  BY DEF TaskOK
<1>5. CASE ModerateInput(w)
  <2>1. PICK x \in InputVerdicts :
          Answered(w, [approved |-> "generate", review |-> "holdInput",
                       rejected |-> "reject"][x], "fail")
    BY <1>5 DEF ModerateInput
  <2>2. x \in Verdicts
    BY TaskAssumption
  <2>3. PICK pc \in {"generate", "holdInput", "reject", "fail"} : Goto(w, pc)
    BY <2>1, <2>2 DEF Verdicts, Answered
  <2> QED
    BY <1>1, <2>3 DEF Lands, Running
<1>6. CASE ModerateOutput(w)
  <2>1. PICK x \in OutputVerdicts :
          Answered(w, [approved |-> "succeed", review |-> "holdOutput",
                       rejected |-> "reject"][x], "fail")
    BY <1>6 DEF ModerateOutput
  <2>2. x \in Verdicts
    BY TaskAssumption
  <2>3. PICK pc \in {"succeed", "holdOutput", "reject", "fail"} : Goto(w, pc)
    BY <2>1, <2>2 DEF Verdicts, Answered
  <2> QED
    BY <1>1, <2>3 DEF Lands, Running
<1>7. CASE Generate(w)
  BY <1>1, <1>7 DEF Generate, Lands, Running
<1>8. CASE HoldForReview(w)
  <2>1. status'[t] = "reviewing" \/ (status[t] # "generating" /\ UNCHANGED status)
    BY <1>2, <1>4, <1>8 DEF HoldForReview
  <2>2. status'[t] \notin {"queued", "generating"}
    BY <1>3, <2>1 DEF Active
  <2>3. Goto(w, "return")
    BY <1>0, <1>8 DEF HoldForReview, Answered
  <2> QED
    BY <1>1, <2>2, <2>3 DEF Lands
<1>9. CASE Succeed(w)
  <2>1. status[t] = "generating" => CanSettle(t)
    BY <1>3 DEF Active
  <2>2. Goto(w, "return")
    BY <1>0, <1>9, <2>1 DEF Succeed, Answered
  <2>3. status'[t] = "succeeded" \/ (status[t] # "generating" /\ UNCHANGED status)
    BY <1>2, <1>4, <1>9, <2>1 DEF Succeed
  <2>4. status'[t] \notin {"queued", "generating"}
    BY <1>3, <2>3 DEF Active
  <2> QED
    BY <1>1, <2>2, <2>4 DEF Lands
<1>10. CASE Fail(w)
  <2>1. Goto(w, "return")
    BY <1>0, <1>3, <1>10 DEF Fail, Answered
  <2>2. status'[t] = "failed" \/ (~Active(t) /\ UNCHANGED status)
    BY <1>2, <1>3, <1>4, <1>10 DEF Fail
  <2>3. status'[t] \notin {"queued", "generating"}
    BY <2>2 DEF Active
  <2> QED
    BY <1>1, <2>1, <2>3 DEF Lands
<1>11. CASE ProviderError(w)
  BY <1>1, <1>11 DEF ProviderError, Lands, Running
<1>12. CASE PersistError(w)
  BY <1>1, <1>12 DEF PersistError, Lands, Running
<1>13. CASE StoreError(w)
  BY <1>0, <1>13 DEF StoreError
<1> QED
  BY <1>5, <1>6, <1>7, <1>8, <1>9, <1>10, <1>11, <1>12, <1>13 DEF Process

(* A request leaves a task without a job only once it has failed it.       *)
LEMMA HandsOfRequests ==
  ASSUME NothingDies, TypeOK, SettledInv, HandsInv, NeverOverdrawn, [Next]_vars,
         NEW r \in Requests,
         \/ \E t \in Tasks : CreateTask(r, t) \/ ReplayTask(r, t)
         \/ Finish(r) \/ RequestLost(r)
  PROVE  HandsInv'
<1> USE DEF TypeOK
<1>0. "db" \notin Faults /\ "crash" \notin Faults
  BY DEF NothingDies
<1>1. /\ status \in [Tasks -> TaskStatus \cup {"none", "deleted"}]
      /\ api \in [Requests -> {IdleApi} \cup
                    [pc : {"enqueue", "record", "unqueue"}, task : Tasks]]
      /\ job \in [Tasks -> JobRecord]
  BY DEF TaskOK, ApiOK, JobOK, JobRecord
<1>a. \A q \in Requests : api[q].pc # "idle" => api[q].task \in Tasks
  BY ApiSteps
<1>b. \A w \in Workers : worker[w].pc # "idle" => worker[w].task \in Tasks
  BY WorkerSteps
<1>c. UNCHANGED worker
  BY DEF CreateTask, ReplayTask, Finish, Enqueue, RecordJobId, FailQueuedTask, RequestLost
<1>d. \A t \in Tasks : attempts'[t] = attempts[t] /\ attemptKey'[t] = attemptKey[t]
  BY DEF CreateTask, ReplayTask, Finish, Enqueue, RecordJobId, FailQueuedTask, RequestLost,
     taskVars
<1>e. \A q \in Requests : q # r => api'[q] = api[q]
  BY <1>1 DEF CreateTask, ReplayTask, Finish, Enqueue, RecordJobId, FailQueuedTask, RequestLost
<1>2. ASSUME NEW t \in Tasks, CreateTask(r, t) PROVE HandsInv'
  <2>1. api'[r].pc = "enqueue" /\ api'[r].task = t /\ api[r].pc = "idle" /\ UNCHANGED job
    BY <1>1, <1>2 DEF CreateTask
  <2>2. status[t] = "none" /\ status'[t] = "queued"
        /\ \A s \in Tasks : s # t => status'[s] = status[s]
    BY <1>1, <1>2 DEF CreateTask
  <2>3. JobHeld(t) /\ TriesCounted(t)
    BY DEF HandsInv
  <2>4. JobHeld(t)' /\ TriesCounted(t)' /\ InHand(t)'
    BY <1>c, <1>d, <2>1, <2>2, <2>3 DEF JobHeld, TriesCounted, InHand
  <2>5. ASSUME NEW s \in Tasks, s # t
        PROVE  JobHeld(s)' /\ TriesCounted(s)' /\ (Active(s)' => InHand(s)')
    BY <1>c, <1>d, <1>e, <2>1, <2>2, <2>5, StaysInHand
  <2>6. \A w \in Workers : WorkerHolds(w)'
    BY <1>c, <2>1 DEF HandsInv, WorkerHolds
  <2>7. \A q \in Requests : api'[q].pc # "idle" => status'[api'[q].task] # "none"
    BY <1>a, <1>e, <2>1, <2>2 DEF HandsInv
  <2> QED
    BY <2>4, <2>5, <2>6, <2>7 DEF HandsInv
<1>3. ASSUME NEW t \in Tasks, ReplayTask(r, t) PROVE HandsInv'
  <2>1. /\ api[r].pc = "idle" /\ api'[r].pc = "enqueue" /\ api'[r].task = t
        /\ status[t] = "queued" /\ UNCHANGED <<job, status>>
    BY <1>1, <1>3 DEF ReplayTask, taskVars
  <2>2. ASSUME NEW s \in Tasks
        PROVE  JobHeld(s)' /\ TriesCounted(s)' /\ (Active(s)' => InHand(s)')
    BY <1>c, <1>d, <1>e, <2>1, StaysInHand
  <2>3. \A w \in Workers : WorkerHolds(w)'
    BY <1>c, <2>1 DEF HandsInv, WorkerHolds
  <2>4. \A q \in Requests : api'[q].pc # "idle" => status'[api'[q].task] # "none"
    BY <1>e, <2>1 DEF HandsInv
  <2> QED
    BY <2>2, <2>3, <2>4 DEF HandsInv
<1>4. ASSUME Enqueue(r) PROVE HandsInv'
  <2>0. PICK t \in Tasks : t = api[r].task
    BY <1>a, <1>4 DEF Enqueue
  <2>1. api[r].pc = "enqueue" /\ status[t] # "none" /\ UNCHANGED status
    BY <2>0, <1>4 DEF Enqueue, HandsInv, taskVars
  <2>2. \/ api'[r].pc = "record" /\ AddJob(t, RetryLimit)
        \/ api'[r].pc = "unqueue" /\ (AddJob(t, RetryLimit) \/ UNCHANGED job)
    BY <1>1, <1>4, <2>0 DEF Enqueue, IdleApi
  <2>3. api'[r].task = t
    BY <1>1, <1>4, <2>0 DEF Enqueue, IdleApi
  <2>4. \/ UNCHANGED job /\ (api'[r].pc = "unqueue" \/ job[t].state # "absent")
        \/ job[t].state = "absent" /\ job' = [job EXCEPT ![t] = NewJob(RetryLimit)]
    BY <2>2 DEF AddJob
  <2>5. \A q \in Requests : api'[q].pc # "idle" => status'[api'[q].task] # "none"
    BY <1>e, <2>1, <2>3 DEF HandsInv
  <2>6. ASSUME NEW s \in Tasks, s # t
        PROVE  JobHeld(s)' /\ TriesCounted(s)' /\ (Active(s)' => InHand(s)')
    <3>1. job'[s] = job[s]
      BY <1>1, <2>4, <2>6
    <3> QED
      BY <1>c, <1>d, <1>e, <2>0, <2>1, <2>6, <3>1, StaysInHand
  <2>7. CASE UNCHANGED job /\ (api'[r].pc = "unqueue" \/ job[t].state # "absent")
    <3>1. JobHeld(t)' /\ TriesCounted(t)' /\ (Active(t)' => InHand(t)')
      BY <1>c, <1>d, <1>e, <2>1, <2>3, <2>7, StaysInHand
    <3>2. \A w \in Workers : WorkerHolds(w)'
      BY <1>c, <2>7 DEF HandsInv, WorkerHolds
    <3> QED
      BY <2>5, <2>6, <3>1, <3>2 DEF HandsInv
  <2>8. CASE job[t].state = "absent" /\ job' = [job EXCEPT ![t] = NewJob(RetryLimit)]
    <3>1. /\ job'[t].state = "waiting" /\ job'[t].made = 0 /\ job'[t].owner = None
          /\ job'[t].max = QueueAttempts(RetryLimit) /\ 0 < QueueAttempts(RetryLimit)
      BY <1>1, <2>1, <2>8, AttemptsType, TaskAssumption DEF NewJob, NoJob
    <3>2. JobHeld(t) /\ TriesCounted(t) /\ (Active(t) => InHand(t))
      BY <2>1 DEF HandsInv
    <3>3. JobHeld(t)' /\ TriesCounted(t)'
      BY <1>d, <2>1, <3>1, <3>2 DEF JobHeld, TriesCounted
    <3>4. Active(t)' => InHand(t)'
      BY <1>d, <2>1, <2>8, <3>1, <3>2 DEF Active, InHand, TriesCounted
    <3>5. \A w \in Workers : worker[w].pc # "idle" => worker[w].task # t
      BY <2>8, <3>2, TaskAssumption DEF HandsInv, WorkerHolds, JobHeld
    <3>6. \A w \in Workers : WorkerHolds(w)'
      BY <1>1, <1>b, <1>c, <2>8, <3>5 DEF HandsInv, WorkerHolds
    <3> QED
      BY <2>5, <2>6, <3>3, <3>4, <3>6 DEF HandsInv
  <2> QED
    BY <2>4, <2>7, <2>8
<1>5. ASSUME RecordJobId(r) PROVE HandsInv'
  <2>1. api[r].pc = "record" /\ api'[r].pc = "idle" /\ UNCHANGED <<job, status>>
    BY <1>1, <1>5 DEF RecordJobId, IdleApi
  <2>2. ASSUME NEW s \in Tasks
        PROVE  JobHeld(s)' /\ TriesCounted(s)' /\ (Active(s)' => InHand(s)')
    BY <1>c, <1>d, <1>e, <2>1, StaysInHand
  <2>3. \A w \in Workers : WorkerHolds(w)'
    BY <1>c, <2>1 DEF HandsInv, WorkerHolds
  <2>4. \A q \in Requests : api'[q].pc # "idle" => status'[api'[q].task] # "none"
    BY <1>e, <2>1 DEF HandsInv
  <2> QED
    BY <2>2, <2>3, <2>4 DEF HandsInv
<1>6. ASSUME FailQueuedTask(r) PROVE HandsInv'
  <2> DEFINE t == api[r].task
  <2>1. /\ t \in Tasks /\ api[r].pc = "unqueue" /\ api'[r].pc = "idle" /\ UNCHANGED job
        /\ \A s \in Tasks : s # t => status'[s] = status[s]
        /\ status'[t] = status[t] \/ status'[t] = "failed"
    BY <1>1, <1>a, <1>6 DEF FailQueuedTask, IdleApi
  <2>2. status[t] = "queued" => status'[t] = "failed"
    <3> SUFFICES ASSUME status[t] = "queued" PROVE status'[t] = "failed"
      OBVIOUS
    <3>1. CanSettle(t) /\ "queue-release" \notin ledger[t]
      BY <2>1 DEF NeverOverdrawn, Active, SettledInv, SettledOnce
    <3> QED
      BY <1>0, <1>1, <1>6, <2>1, <3>1 DEF FailQueuedTask
  <2>3. ASSUME NEW s \in Tasks
        PROVE  JobHeld(s)' /\ TriesCounted(s)' /\ (Active(s)' => InHand(s)')
    <3>1. status'[s] = status[s] \/ ~Active(s)'
      BY <2>1 DEF Active
    <3>2. ASSUME status[s] = "queued", status'[s] = "queued",
                 NEW q \in Requests, api[q].task = s
          PROVE  api'[q] = api[q]
      BY <1>e, <2>2, <3>2
    <3> QED
      BY <1>c, <1>d, <2>1, <3>1, <3>2, StaysInHand
  <2>4. \A w \in Workers : WorkerHolds(w)'
    BY <1>c, <2>1 DEF HandsInv, WorkerHolds
  <2>5. \A q \in Requests : api'[q].pc # "idle" => status'[api'[q].task] # "none"
    BY <1>a, <1>e, <2>1 DEF HandsInv
  <2> QED
    BY <2>3, <2>4, <2>5 DEF HandsInv
<1>7. ASSUME RequestLost(r) PROVE HandsInv'
  BY <1>0, <1>7 DEF RequestLost
<1> QED
  BY <1>2, <1>3, <1>4, <1>5, <1>6, <1>7 DEF Finish

(* Users only take tasks out of hands by ending them.                      *)
LEMMA HandsOfUsers ==
  ASSUME TypeOK, HandsInv, [Next]_vars,
         \/ \E u \in Users : OpenAccount(u)
         \/ \E t \in Tasks : CancelTask(t)
         \/ \E s \in Sessions : CheckSessionIdle(s) \/ DeleteSessionRow(s)
         \/ UNCHANGED vars
  PROVE  HandsInv'
<1> USE DEF TypeOK
<1>1. UNCHANGED <<job, worker, api>>
  BY DEF OpenAccount, CancelTask, CheckSessionIdle, DeleteSessionRow, vars
<1>2. /\ status \in [Tasks -> TaskStatus \cup {"none", "deleted"}]
      /\ attempts \in [Tasks -> Nat] /\ attemptKey \in [Tasks -> Nat]
  BY DEF TaskOK
<1>3. ASSUME NEW t \in Tasks
      PROVE  \/ /\ attempts'[t] = attempts[t] /\ attemptKey'[t] = attemptKey[t]
                /\ status'[t] = status[t] \/ status'[t] = "cancelled"
             \/ attempts'[t] = 0 /\ attemptKey'[t] = 0 /\ status'[t] = "deleted"
  <2>1. ASSUME NEW s \in Sessions, DeleteSessionRow(s)
        PROVE  \/ /\ attempts'[t] = attempts[t] /\ attemptKey'[t] = attemptKey[t]
                  /\ status'[t] = status[t]
               \/ attempts'[t] = 0 /\ attemptKey'[t] = 0 /\ status'[t] = "deleted"
    BY <2>1 DEF DeleteSessionRow
  <2>2. ASSUME NEW s \in Tasks, CancelTask(s)
        PROVE  /\ attempts' = attempts /\ attemptKey' = attemptKey
               /\ status'[t] = status[t] \/ status'[t] = "cancelled"
    BY <1>2, <2>2 DEF CancelTask
  <2>3. CASE \/ \E u \in Users : OpenAccount(u)
             \/ \E s \in Sessions : CheckSessionIdle(s)
             \/ UNCHANGED vars
    BY <2>3 DEF OpenAccount, CheckSessionIdle, taskVars, vars
  <2> QED
    BY <2>1, <2>2, <2>3
<1>4. ASSUME NEW t \in Tasks
      PROVE  JobHeld(t)' /\ TriesCounted(t)' /\ (Active(t)' => InHand(t)')
  <2>1. CASE /\ attempts'[t] = attempts[t] /\ attemptKey'[t] = attemptKey[t]
             /\ status'[t] = status[t] \/ status'[t] = "cancelled"
    <3>1. status'[t] = status[t] \/ ~Active(t)'
      BY <2>1 DEF Active
    <3> QED
      BY <1>1, <2>1, <3>1, StaysInHand
  <2>2. CASE attempts'[t] = 0 /\ attemptKey'[t] = 0 /\ status'[t] = "deleted"
    <3>1. JobHeld(t)'
      BY <1>1, <2>2 DEF HandsInv, JobHeld
    <3>2. 0 <= QueueAttempts(RetryLimit)
      BY AttemptsType, TaskAssumption
    <3> QED
      BY <2>2, <3>1, <3>2 DEF TriesCounted, Active
  <2> QED
    BY <1>3, <2>1, <2>2
<1>5. \A w \in Workers : WorkerHolds(w)'
  BY <1>1 DEF HandsInv, WorkerHolds
<1>6. \A t \in Tasks : status[t] # "none" => status'[t] # "none"
  BY StatusSteps
<1>7. \A r \in Requests : api[r].pc # "idle" => api[r].task \in Tasks
  BY ApiSteps
<1>8. \A r \in Requests : api'[r].pc # "idle" => status'[api'[r].task] # "none"
  BY <1>1, <1>6, <1>7 DEF HandsInv
<1> QED
  BY <1>4, <1>5, <1>8 DEF HandsInv

(* The queue passes an unfinished task from hand to hand, and evicts only  *)
(* the jobs of finished ones.                                              *)
LEMMA HandsOfQueue ==
  ASSUME NothingDies, TypeOK, HandsInv, [Next]_vars,
         \/ \E t \in Tasks : StallJob(t) \/ EvictJob(t)
         \/ \E w \in Workers : \/ \E t \in Tasks : TakeJob(w, t)
                               \/ FinishJob(w) \/ RejectJob(w) \/ CrashWorker(w)
  PROVE  HandsInv'
<1> USE DEF TypeOK
<1>0. "stall" \notin Faults /\ "crash" \notin Faults
  BY DEF NothingDies
<1>1. /\ UNCHANGED <<status, api>>
      /\ \A s \in Tasks : attempts'[s] = attempts[s] /\ attemptKey'[s] = attemptKey[s]
  BY DEF StallJob, EvictJob, TakeJob, FinishJob, RejectJob, CrashWorker, taskVars
<1>2. /\ job \in [Tasks -> JobRecord]
      /\ worker \in [Workers -> {IdleWorker} \cup [pc : Steps, task : Tasks,
                                                    attempt : Nat, max : 1..6]]
  BY DEF JobOK, JobRecord, WorkerOK, Steps
<1>3. \A r \in Requests : api'[r].pc # "idle" => status'[api'[r].task] # "none"
  BY <1>1 DEF HandsInv
<1>4. \A w \in Workers : worker[w].pc # "idle" => worker[w].task \in Tasks
  BY WorkerSteps
<1>5. ASSUME NEW t \in Tasks, StallJob(t) PROVE FALSE
  BY <1>0, <1>5 DEF StallJob, HandsInv, JobHeld
<1>6. ASSUME NEW t \in Tasks, EvictJob(t) PROVE HandsInv'
  <2>1. /\ job[t].state \in {"completed", "failed"} /\ UNCHANGED worker
        /\ job'[t].state = "absent" /\ job'[t].owner = None
        /\ \A s \in Tasks : s # t => job'[s] = job[s]
    BY <1>2, <1>6 DEF EvictJob, NoJob
  <2>2. JobHeld(t) /\ TriesCounted(t) /\ (Active(t) => InHand(t))
    BY DEF HandsInv
  <2>3. JobHeld(t)' /\ TriesCounted(t)'
    BY <1>1, <2>1, <2>2 DEF JobHeld, TriesCounted
  <2>4. ~Active(t)'
    BY <1>1, <2>1, <2>2 DEF Active, InHand
  <2>5. ASSUME NEW s \in Tasks, s # t
        PROVE  JobHeld(s)' /\ TriesCounted(s)' /\ (Active(s)' => InHand(s)')
    BY <1>1, <2>1, <2>5, StaysInHand
  <2>6. \A w \in Workers : worker[w].pc # "idle" => worker[w].task # t
    BY <2>1, <2>2, TaskAssumption DEF HandsInv, WorkerHolds, JobHeld
  <2>7. \A w \in Workers : WorkerHolds(w)'
    BY <1>4, <2>1, <2>6 DEF HandsInv, WorkerHolds
  <2> QED
    BY <1>3, <2>3, <2>4, <2>5, <2>7 DEF HandsInv
<1>7. ASSUME NEW w \in Workers, NEW t \in Tasks, TakeJob(w, t) PROVE HandsInv'
  <2>1. /\ worker[w].pc = "idle" /\ job[t].state = "waiting"
        /\ job'[t] = [job[t] EXCEPT !.state = "active", !.owner = w]
        /\ worker'[w] = [pc |-> "start", task |-> t, attempt |-> job[t].made + 1,
                         max |-> job[t].max]
        /\ \A s \in Tasks : s # t => job'[s] = job[s]
        /\ \A v \in Workers : v # w => worker'[v] = worker[v]
    BY <1>2, <1>7 DEF TakeJob
  <2>2. /\ job'[t].state = "active" /\ job'[t].owner = w
        /\ job'[t].made = job[t].made /\ job'[t].max = job[t].max
    BY <1>2, <2>1 DEF JobRecord
  <2>3. JobHeld(t) /\ TriesCounted(t) /\ (Active(t) => InHand(t))
    BY DEF HandsInv
  <2>4. JobHeld(t)' /\ TriesCounted(t)' /\ (Active(t)' => InHand(t)')
    BY <1>1, <2>1, <2>2, <2>3, TaskAssumption DEF JobHeld, TriesCounted, Active, InHand
  <2>5. ASSUME NEW s \in Tasks, s # t
        PROVE  JobHeld(s)' /\ TriesCounted(s)' /\ (Active(s)' => InHand(s)')
    <3>1. job[s].owner # w
      BY <2>1, TaskAssumption DEF HandsInv, JobHeld
    <3>2. job[s].owner # None => worker'[job[s].owner] = worker[job[s].owner]
      BY <1>2, <2>1, <3>1 DEF JobRecord
    <3> QED
      BY <1>1, <2>1, <2>5, <3>2, StaysInHand
  <2>6. \A v \in Workers : worker[v].pc # "idle" => worker[v].task # t
    BY <2>1, <2>3, TaskAssumption DEF HandsInv, WorkerHolds, JobHeld
  <2>7. ASSUME NEW v \in Workers PROVE WorkerHolds(v)'
    <3>1. CASE v = w
      <4>1. /\ worker'[v].task = t /\ worker'[v].attempt = job'[t].made + 1
            /\ worker'[v].max = job'[t].max /\ job'[t].owner = v
        BY <2>1, <2>2, <3>1
      <4> QED
        BY <4>1 DEF WorkerHolds
    <3>2. CASE v # w
      BY <1>4, <2>1, <2>6, <3>2 DEF HandsInv, WorkerHolds
    <3> QED
      BY <3>1, <3>2
  <2> QED
    BY <1>3, <2>4, <2>5, <2>7 DEF HandsInv
<1>8. ASSUME NEW w \in Workers, FinishJob(w) \/ RejectJob(w) PROVE HandsInv'
  <2>0. PICK t \in Tasks : t = worker[w].task
    BY <1>4, <1>8 DEF FinishJob, RejectJob
  <2>1. JobHeld(t) /\ TriesCounted(t) /\ (Active(t) => InHand(t)) /\ WorkerHolds(w)
    BY DEF HandsInv
  <2>2. /\ worker[w].pc \in {"return", "throw"} /\ job[t].owner = w /\ w # None
        /\ job[t].state = "active"
    BY <1>8, <2>0, <2>1, TaskAssumption DEF FinishJob, RejectJob, WorkerHolds, JobHeld
  <2>3. /\ worker'[w] = IdleWorker
        /\ \A v \in Workers : v # w => worker'[v] = worker[v]
        /\ \A s \in Tasks : s # t => job'[s] = job[s]
    BY <1>2, <1>8, <2>0 DEF FinishJob, RejectJob
  <2>4. /\ job'[t].owner = None /\ job'[t].max = job[t].max
        /\ \/ /\ worker[w].pc = "return" /\ job'[t].state = "completed"
              /\ job'[t].made = job[t].made
           \/ /\ worker[w].pc = "throw" /\ job'[t].made = job[t].made + 1
              /\ job'[t].state = IF job[t].made + 1 < job[t].max THEN "waiting" ELSE "failed"
    <3>1. Owns(w) /\ job[t] \in JobRecord
      BY <1>2, <2>0, <2>2 DEF Owns
    <3>2. CASE FinishJob(w)
      BY <1>2, <2>0, <3>1, <3>2 DEF FinishJob, JobRecord
    <3>3. CASE RejectJob(w)
      <4>1. job' = [job EXCEPT ![t] = [job[t] EXCEPT
              !.state = IF job[t].made + 1 < job[t].max THEN "waiting" ELSE "failed",
              !.made = job[t].made + 1, !.owner = None]]
        BY <1>2, <2>0, <3>1, <3>3 DEF RejectJob
      <4>2. job'[t] = [job[t] EXCEPT
              !.state = IF job[t].made + 1 < job[t].max THEN "waiting" ELSE "failed",
              !.made = job[t].made + 1, !.owner = None]
        BY <1>2, <4>1
      <4>3. worker[w].pc = "throw"
        BY <3>3 DEF RejectJob
      <4> QED
        BY <3>1, <4>2, <4>3 DEF JobRecord
    <3> QED
      BY <1>8, <3>2, <3>3
  <2>5. job'[t].state \in {"waiting", "completed", "failed"}
        /\ (job'[t].state = "waiting" => job'[t].made < job'[t].max)
    BY <2>4
  <2>6. JobHeld(t)' /\ TriesCounted(t)'
    BY <1>1, <2>1, <2>2, <2>4, <2>5 DEF JobHeld, TriesCounted
  <2>7. Active(t)' => InHand(t)'
    BY <1>1, <2>1, <2>2, <2>4 DEF Active, InHand, Running
  <2>8. ASSUME NEW s \in Tasks, s # t
        PROVE  JobHeld(s)' /\ TriesCounted(s)' /\ (Active(s)' => InHand(s)')
    <3>1. job[s].owner # w
      BY <2>0, <2>2, <2>8 DEF HandsInv, JobHeld
    <3>2. job[s].owner # None => worker'[job[s].owner] = worker[job[s].owner]
      BY <1>2, <2>3, <3>1 DEF JobRecord
    <3> QED
      BY <1>1, <2>3, <2>8, <3>2, StaysInHand
  <2>9. ASSUME NEW v \in Workers PROVE WorkerHolds(v)'
    <3>1. CASE v = w
      BY <2>3, <3>1 DEF WorkerHolds, IdleWorker
    <3>2. CASE v # w
      <4>1. worker[v].pc # "idle" => worker[v].task # t
        BY <2>2, <3>2 DEF HandsInv, WorkerHolds
      <4> QED
        BY <1>4, <2>3, <3>2, <4>1 DEF HandsInv, WorkerHolds
    <3> QED
      BY <3>1, <3>2
  <2> QED
    BY <1>3, <2>6, <2>7, <2>8, <2>9 DEF HandsInv
<1> QED
  BY <1>0, <1>5, <1>6, <1>7, <1>8 DEF CrashWorker

(* Each job a worker takes claims the next attempt, and is carried on.     *)
LEMMA HandsOfWork ==
  ASSUME NothingDies, TypeOK, HandsInv, NeverOverdrawn, [Next]_vars,
         NEW w \in Workers, Process(w)
  PROVE  HandsInv'
<1> USE DEF TypeOK
<1>0. UNCHANGED <<job, api>>
  BY DEF Process, Start, ModerateInput, Generate, ModerateOutput, HoldForReview, Succeed,
     Fail, ProviderError, PersistError, StoreError
<1>1. /\ status \in [Tasks -> TaskStatus \cup {"none", "deleted"}]
      /\ attempts \in [Tasks -> Nat] /\ attemptKey \in [Tasks -> Nat]
      /\ job \in [Tasks -> JobRecord]
      /\ worker \in [Workers -> {IdleWorker} \cup [pc : Steps, task : Tasks,
                                                    attempt : Nat, max : 1..6]]
  BY DEF TaskOK, JobOK, JobRecord, WorkerOK, Steps
<1>2. worker[w].pc \in {"start"} \cup Running
  BY DEF Process, Start, ModerateInput, Generate, ModerateOutput, HoldForReview, Succeed,
     Fail, ProviderError, PersistError, StoreError, Running
<1>3. PICK t \in Tasks : t = worker[w].task
  BY <1>2, WorkerSteps DEF Running
<1>4. JobHeld(t) /\ TriesCounted(t) /\ (Active(t) => InHand(t)) /\ WorkerHolds(w)
  BY DEF HandsInv
<1>5. /\ job[t].owner = w /\ job[t].state = "active" /\ job[t].made < job[t].max
      /\ job[t].max = QueueAttempts(RetryLimit) /\ job[t].made \in Nat
      /\ worker[w].attempt = job[t].made + 1 /\ worker[w].max = job[t].max
  BY <1>1, <1>2, <1>3, <1>4, TaskAssumption DEF WorkerHolds, JobHeld, Running, JobRecord
<1>6. PICK pc \in Running \cup {"return", "throw"} :
        /\ Goto(w, pc)
        /\ worker[w].pc \in Running => Lands(w, pc)
        /\ Start(w) => \/ Claims(t, worker[w].attempt) /\ pc = "moderateInput"
                       \/ ~Claims(t, worker[w].attempt) /\ pc = "return"
  <2>1. CASE Start(w)
    <3>1. "db" \notin Faults /\ worker[w].pc \notin Running
      BY <2>1 DEF NothingDies, Start, Running
    <3> QED
      BY <1>3, <2>1, <3>1 DEF Start, Answered, Running
  <2>2. CASE ~Start(w)
    <3>1. PICK pc \in Running \cup {"return", "throw"} : Lands(w, pc)
      BY <2>2, WorkersLand
    <3> QED
      BY <2>2, <3>1 DEF Lands
  <2> QED
    BY <2>1, <2>2
<1>7. /\ worker'[w].pc = pc /\ worker'[w].task = t
      /\ worker'[w].attempt = worker[w].attempt /\ worker'[w].max = worker[w].max
      /\ \A v \in Workers : v # w => worker'[v] = worker[v]
  BY <1>1, <1>2, <1>3, <1>6 DEF Goto, IdleWorker, Running
<1>8. ASSUME NEW s \in Tasks, s # t
      PROVE  /\ attempts'[s] = attempts[s] /\ attemptKey'[s] = attemptKey[s]
             /\ status'[s] = status[s]
  BY <1>1, <1>3, <1>8 DEF Process, Start, ModerateInput, Generate, ModerateOutput,
     HoldForReview, Succeed, Fail, ProviderError, PersistError, StoreError, taskVars
<1>9. ASSUME NEW s \in Tasks, s # t
      PROVE  JobHeld(s)' /\ TriesCounted(s)' /\ (Active(s)' => InHand(s)')
  <2>1. job[s].owner # w
    BY <1>3, <1>9, TaskAssumption DEF HandsInv, JobHeld
  <2>2. job[s].owner # None => worker'[job[s].owner] = worker[job[s].owner]
    BY <1>1, <1>7, <2>1 DEF JobRecord
  <2> QED
    BY <1>0, <1>8, <1>9, <2>2, StaysInHand
<1>10. /\ status[t] # "none" => status'[t] # "none"
       /\ Active(t)' => Active(t) \/ status[t] = "none"
       /\ status'[t] = "queued" => status[t] \in {"none", "queued"}
  BY StatusSteps
<1>11. JobHeld(t)'
  <2>1. pc # "idle"
    BY DEF Running
  <2> QED
    BY <1>0, <1>4, <1>5, <1>7, <1>10, <2>1 DEF JobHeld
<1>12. TriesCounted(t)' /\ (Active(t)' => InHand(t)')
  <2>1. CASE Start(w) /\ Claims(t, worker[w].attempt)
    <3>1. /\ attempts'[t] = attempts[t] + 1 /\ attemptKey'[t] = worker[w].attempt
          /\ status'[t] = "generating" /\ worker[w].pc = "start" /\ Active(t)
      BY <1>1, <1>3, <2>1 DEF Start, Claims
    <3>2. attemptKey[t] = job[t].made
      BY <1>4, <1>5, <3>1 DEF InHand, Running
    <3>3. attempts'[t] = job[t].made + 1 /\ attemptKey'[t] = job[t].made + 1
      BY <1>4, <1>5, <3>1, <3>2 DEF TriesCounted
    <3>4. TriesCounted(t)'
      BY <1>5, <3>1, <3>3, AttemptsType, TaskAssumption DEF TriesCounted
    <3>5. pc = "moderateInput"
      BY <1>6, <2>1
    <3>6. InHand(t)'
      BY <1>0, <1>5, <1>7, <3>3, <3>5 DEF InHand, Running
    <3> QED
      BY <3>4, <3>6
  <2>2. CASE Start(w) /\ ~Claims(t, worker[w].attempt)
    <3>1. /\ attempts'[t] = attempts[t] /\ attemptKey'[t] = attemptKey[t]
          /\ status'[t] = status[t] /\ worker[w].pc = "start"
      BY <1>3, <2>2 DEF Start
    <3>2. ~Active(t)
      <4>1. ASSUME Active(t) PROVE FALSE
        <5>1. attemptKey[t] = job[t].made
          BY <1>4, <1>5, <3>1, <4>1 DEF InHand, Running
        <5> QED
          BY <1>5, <2>2, <4>1, <5>1 DEF Claims
      <4> QED
        BY <4>1
    <3> QED
      BY <1>4, <3>1, <3>2 DEF TriesCounted, Active
  <2>3. CASE ~Start(w)
    <3>1. attempts'[t] = attempts[t] /\ attemptKey'[t] = attemptKey[t]
      BY <2>3 DEF Process, ModerateInput, Generate, ModerateOutput, HoldForReview, Succeed,
         Fail, ProviderError, PersistError, StoreError, taskVars
    <3>2. worker[w].pc \in Running /\ Lands(w, pc)
      <4>1. worker[w].pc \in Running
        BY <2>3, WorkersLand DEF Lands
      <4> QED
        BY <1>6, <4>1
    <3>3. status[t] # "none"
      BY <1>4, <1>5 DEF JobHeld
    <3>4. TriesCounted(t)'
      BY <1>4, <1>10, <3>1, <3>3 DEF TriesCounted
    <3>5. ASSUME Active(t)' PROVE InHand(t)'
      <4>1. Active(t) /\ status'[t] \in {"queued", "generating"}
        BY <1>10, <3>3, <3>5 DEF Active
      <4>2. attemptKey[t] = job[t].made + 1
        BY <1>4, <1>5, <3>2, <4>1 DEF InHand, Running
      <4>3. pc \in Running \/ (pc = "throw" /\ job[t].made + 1 < job[t].max)
        BY <1>3, <1>5, <3>2, <4>1 DEF Lands, Retries
      <4> QED
        BY <1>0, <1>5, <1>7, <3>1, <4>2, <4>3 DEF InHand
    <3> QED
      BY <3>4, <3>5
  <2> QED
    BY <2>1, <2>2, <2>3
<1>13. ASSUME NEW v \in Workers PROVE WorkerHolds(v)'
  <2>1. CASE v = w
    <3>1. /\ worker'[v].task = t /\ worker'[v].attempt = job'[t].made + 1
          /\ worker'[v].max = job'[t].max /\ job'[t].owner = v
      BY <1>0, <1>5, <1>7, <2>1
    <3> QED
      BY <3>1 DEF WorkerHolds
  <2>2. CASE v # w
    BY <1>0, <1>7, <2>2 DEF HandsInv, WorkerHolds
  <2> QED
    BY <2>1, <2>2
<1>14. \A r \in Requests : api'[r].pc # "idle" => status'[api'[r].task] # "none"
  <2>1. \A r \in Requests : api[r].pc # "idle" => api[r].task \in Tasks
    BY ApiSteps
  <2>2. \A s \in Tasks : status[s] # "none" => status'[s] # "none"
    BY StatusSteps
  <2> QED
    BY <1>0, <2>1, <2>2 DEF HandsInv
<1> QED
  BY <1>9, <1>11, <1>12, <1>13, <1>14 DEF HandsInv

LEMMA HandsInit == Init => HandsInv
<1> SUFFICES ASSUME Init PROVE HandsInv
  OBVIOUS
<1>1. 0 <= QueueAttempts(RetryLimit)
  BY AttemptsType, TaskAssumption
<1> QED
  BY <1>1 DEF Init, HandsInv, JobHeld, TriesCounted, WorkerHolds, Active, NoJob, IdleWorker, IdleApi

LEMMA HandsNext ==
  ASSUME NothingDies, TypeOK, SettledInv, HandsInv, NeverOverdrawn, [Next]_vars
  PROVE  HandsInv'
BY HandsOfRequests, HandsOfUsers, HandsOfQueue, HandsOfWork DEF Next

LEMMA HandsAlways ==
  ASSUME NothingDies
  PROVE  Spec => [](TypeOK /\ HandsInv)
<1>1. TypeOK /\ SettledInv /\ HandsInv /\ NeverOverdrawn /\ [Next]_vars
        => (TypeOK /\ SettledInv /\ HandsInv)'
  BY TypeNext, SettledNext, HandsNext
<1> QED
  BY <1>1, TypeInit, SettledInit, HandsInit, AccountsCovered, PTL DEF Spec

(* As long as no process dies or stalls and the database answers, no task  *)
(* is ever left with nobody to finish it, even while the queue fails.      *)
THEOREM NoTaskIsForgotten ==
  ASSUME NothingDies
  PROVE  Spec => []InGoodHands
<1>1. TypeOK /\ HandsInv => InGoodHands
  <2> SUFFICES ASSUME TypeOK, HandsInv, NEW t \in Tasks, Active(t)
               PROVE  \/ \E r \in Requests :
                           api[r].task = t /\ api[r].pc \in {"enqueue", "unqueue"}
                      \/ job[t].state = "waiting" /\ Accepted(t)
                      \/ \E w \in Workers :
                           /\ job[t].owner = w /\ worker[w].task = t
                           /\ \/ worker[w].pc = "start" /\ Accepted(t)
                              \/ worker[w].pc \in Running
                              \/ /\ worker[w].pc = "throw"
                                 /\ job[t].made + 1 < job[t].max
    BY DEF InGoodHands
  <2>1. InHand(t) /\ JobHeld(t)
    BY DEF HandsInv
  <2>2. job[t].made \in Nat /\ job[t].owner \in Workers \cup {None}
    BY DEF TypeOK, JobOK
  <2>3. attemptKey[t] = job[t].made => Accepted(t)
    BY <2>2 DEF Accepted
  <2> QED
    BY <2>1, <2>2, <2>3 DEF InHand, JobHeld
<1> QED
  BY <1>1, HandsAlways, PTL

(* Under the same conditions a task is never counted, and so never         *)
(* executed, more often than its job has attempts.                         *)
THEOREM AttemptsAreBounded ==
  ASSUME NothingDies
  PROVE  Spec => []AttemptsCountedOnce
<1>1. HandsInv => AttemptsCountedOnce
  BY DEF HandsInv, TriesCounted, AttemptsCountedOnce
<1> QED
  BY <1>1, HandsAlways, PTL

-----------------------------------------------------------------------------
(***************************************************************************)
(* The decisions of moderators (ManualReview).                             *)
(***************************************************************************)
(* Types.                                                                  *)

DecisionRow == [pc : {"commit", "enqueue"}, task : Tasks, review : Nat \ {0},
                verdict : Judgements]

(* A request at work is about a task and a review of some number.          *)
LEMMA DecisionAtWork ==
  ASSUME ReviewTypeOK, NEW d \in Decisions, decision[d].pc # "idle"
  PROVE  decision[d] \in DecisionRow
BY DEF ReviewTypeOK, DecisionRow, IdleDecision

LEMMA DecisionSteps ==
  ASSUME ReviewTypeOK, NEW d \in Decisions
  PROVE  /\ decision' = [decision EXCEPT ![d] = IdleDecision] =>
              decision' \in [Decisions -> {IdleDecision} \cup DecisionRow]
         /\ decision[d].pc # "idle" /\ decision' = [decision EXCEPT ![d].pc = "enqueue"] =>
              decision' \in [Decisions -> {IdleDecision} \cup DecisionRow]
<1>1. decision \in [Decisions -> {IdleDecision} \cup DecisionRow]
  BY DEF ReviewTypeOK, DecisionRow
<1>2. decision[d].pc # "idle" =>
        [decision[d] EXCEPT !.pc = "enqueue"] \in DecisionRow
  BY DecisionAtWork DEF DecisionRow
<1> QED
  BY <1>1, <1>2

(* Marking one review of a task leaves the others, and their number.       *)
LEMMA MarkedReviews ==
  ASSUME TypeOK, NEW t \in Tasks, NEW i \in DOMAIN reviews[t],
         NEW v \in {"claimed", "approved", "rejected"},
         reviews' = [reviews EXCEPT ![t][i].status = v]
  PROVE  /\ reviews' \in [Tasks -> Seq(ReviewRow)]
         /\ Len(reviews'[t]) = Len(reviews[t])
         /\ reviews'[t][i] = [stage |-> reviews[t][i].stage, status |-> v]
         /\ \A j \in DOMAIN reviews[t] : j # i => reviews'[t][j] = reviews[t][j]
         /\ \A s \in Tasks : s # t => reviews'[s] = reviews[s]
<1>1. reviews \in [Tasks -> Seq(ReviewRow)]
  BY DEF TypeOK, TaskOK
<1>2. reviews[t] \in Seq(ReviewRow) /\ reviews[t][i] \in ReviewRow
  BY <1>1
<1>3. [reviews[t][i] EXCEPT !.status = v] = [stage |-> reviews[t][i].stage, status |-> v]
  BY <1>2 DEF ReviewRow
<1>4. [stage |-> reviews[t][i].stage, status |-> v] \in ReviewRow
  BY <1>2 DEF ReviewRow
<1> DEFINE marked == [reviews[t] EXCEPT ![i] = [stage |-> reviews[t][i].stage, status |-> v]]
<1>5. marked \in Seq(ReviewRow) /\ Len(marked) = Len(reviews[t])
  BY <1>2, <1>4
<1>6. reviews' = [reviews EXCEPT ![t] = marked]
  BY <1>3
<1> QED
  BY <1>1, <1>2, <1>5, <1>6

LEMMA OutcomeType ==
  ASSUME NEW stage \in {"input", "output"}, NEW v \in Judgements
  PROVE  /\ Outcome(stage, v) \in {"failed", "queued", "succeeded"}
         /\ Outcome(stage, v) = "succeeded" => stage = "output" /\ v = "approved"
         /\ Outcome(stage, v) = "queued" => stage = "input" /\ v = "approved"
         /\ v \in {"approved", "rejected"}
BY ReviewAssumption DEF Outcome

(* What the commitment of a decision does, its task, review, verdict and   *)
(* outcome at hand.                                                        *)
DecisionCommits(d, t, i, v, st) ==
  /\ decision[d].pc = "commit"
  /\ decision[d].task = t /\ decision[d].review = i /\ decision[d].verdict = v
  /\ i \in DOMAIN reviews[t]
  /\ ~ (reviews[t][i].stage = "output" /\ v = "rejected" /\ results[t] = "pending")
  /\ st = Outcome(reviews[t][i].stage, v)
  /\ st = "succeeded" => reviews[t][i].stage = "output" /\ v = "approved"
  /\ st = "queued" => reviews[t][i].stage = "input" /\ v = "approved"
  /\ status' = [status EXCEPT ![t] = st]
  /\ results' = IF reviews[t][i].stage = "output" /\ results[t] = "pending"
                THEN [results EXCEPT ![t] = v]
                ELSE results
  /\ reviews' = [reviews EXCEPT ![t][i].status = v]
  /\ st = "failed" => Released(t, "manual-release")
  /\ st = "succeeded" => Consumed(t)
  /\ st = "queued" => UNCHANGED quotaVars
  /\ decision' = [decision EXCEPT ![d] =
                    IF st = "queued" THEN [@ EXCEPT !.pc = "enqueue"] ELSE IdleDecision]
  /\ UNCHANGED <<sessionVars, attempts, attemptKey, hasJobId, job, worker, api>>

Final == {"failed", "queued", "succeeded"}

LEMMA Committed ==
  ASSUME ReviewTypeOK, NEW d \in Decisions, CommitDecision(d)
  PROVE  \E t \in Tasks, i \in Nat \ {0}, v \in {"approved", "rejected"}, st \in Final :
           DecisionCommits(d, t, i, v, st)
<1>1. decision[d].pc = "commit" /\ decision[d] \in DecisionRow
  BY DecisionAtWork DEF CommitDecision
<1>2. PICK t \in Tasks : t = decision[d].task
  BY <1>1 DEF DecisionRow
<1>3. PICK v \in Judgements : v = decision[d].verdict
  BY <1>1 DEF DecisionRow
<1>4. PICK i \in Nat \ {0} : i = decision[d].review /\ i \in DOMAIN reviews[t]
  BY <1>1, <1>2 DEF CommitDecision, DecisionRow
<1>5. reviews[t] \in Seq(ReviewRow)
  BY DEF ReviewTypeOK, TypeOK, TaskOK
<1>6. reviews[t][i].stage \in {"input", "output"}
  <2>1. reviews[t][i] \in ReviewRow
    BY <1>4, <1>5
  <2> QED
    BY <2>1 DEF ReviewRow
<1>7. PICK st \in Final : st = Outcome(reviews[t][i].stage, v)
  BY <1>4, <1>6, OutcomeType DEF Final
<1>8. /\ st = "succeeded" => reviews[t][i].stage = "output" /\ v = "approved"
      /\ st = "queued" => reviews[t][i].stage = "input" /\ v = "approved"
      /\ v \in {"approved", "rejected"}
  BY <1>6, <1>7, OutcomeType
<1>9. /\ st = "failed" => Released(t, "manual-release")
      /\ st = "succeeded" => Consumed(t)
      /\ st = "queued" => UNCHANGED quotaVars
  BY <1>2, <1>3, <1>4, <1>7 DEF CommitDecision
<1>10. /\ ~ (reviews[t][i].stage = "output" /\ v = "rejected" /\ results[t] = "pending")
       /\ status' = [status EXCEPT ![t] = st]
       /\ results' = IF reviews[t][i].stage = "output" /\ results[t] = "pending"
                     THEN [results EXCEPT ![t] = v]
                     ELSE results
       /\ reviews' = [reviews EXCEPT ![t][i].status = v]
       /\ decision' = [decision EXCEPT ![d] =
                         IF st = "queued" THEN [@ EXCEPT !.pc = "enqueue"] ELSE IdleDecision]
       /\ UNCHANGED <<sessionVars, attempts, attemptKey, hasJobId, job, worker, api>>
  BY <1>2, <1>3, <1>4, <1>7 DEF CommitDecision, MarkDecided
<1> QED
  BY <1>1, <1>2, <1>3, <1>4, <1>7, <1>8, <1>9, <1>10 DEF DecisionCommits

LEMMA ReviewTypeInit == ReviewInit => ReviewTypeOK
BY TypeInit DEF ReviewInit, ReviewTypeOK

LEMMA ReviewTypeNext == ReviewTypeOK /\ [ReviewNext]_reviewVars => ReviewTypeOK'
<1> SUFFICES ASSUME ReviewTypeOK, [ReviewNext]_reviewVars PROVE ReviewTypeOK'
  OBVIOUS
<1> USE DEF ReviewTypeOK
<1>0. decision \in [Decisions -> {IdleDecision} \cup DecisionRow]
  BY DEF DecisionRow
<1>a. TypeOK /\ UNCHANGED vars => TypeOK'
  BY TypeNext
<1>1. CASE Next /\ UNCHANGED decision
  BY <1>1, TypeNext
<1>2. ASSUME NEW t \in Tasks, NEW i \in DOMAIN reviews[t], ClaimReview(t, i)
      PROVE  ReviewTypeOK'
  <2>1. reviews' \in [Tasks -> Seq(ReviewRow)]
    BY <1>2, MarkedReviews DEF ClaimReview
  <2> QED
    BY <1>2, <2>1, Unaffected DEF ClaimReview, TypeOK, TaskOK, sessionVars
<1>3. ASSUME NEW t \in Tasks, NEW i \in DOMAIN reviews[t], NEW d \in Decisions,
             ReadReview(d, t, i)
      PROVE  ReviewTypeOK'
  <2>1. PICK v \in Judgements : decision' = [decision EXCEPT ![d] =
                                  [pc |-> "commit", task |-> t, review |-> i, verdict |-> v]]
    BY <1>3 DEF ReadReview
  <2>2. i \in Nat \ {0}
    <3>1. reviews[t] \in Seq(ReviewRow)
      BY DEF TypeOK, TaskOK
    <3> QED
      BY <3>1
  <2>3. [pc |-> "commit", task |-> t, review |-> i, verdict |-> v] \in DecisionRow
    BY <2>2 DEF DecisionRow
  <2>4. decision' \in [Decisions -> {IdleDecision} \cup DecisionRow]
    BY <1>0, <2>1, <2>3
  <2> QED
    BY <1>a, <1>3, <2>4 DEF ReadReview, DecisionRow
<1>4. ASSUME NEW d \in Decisions, CommitDecision(d) PROVE ReviewTypeOK'
  <2>1. PICK t \in Tasks, i \in Nat \ {0}, v \in {"approved", "rejected"}, st \in Final :
          DecisionCommits(d, t, i, v, st)
    BY <1>4, Committed
  <2>2. reviews' \in [Tasks -> Seq(ReviewRow)]
    BY <2>1, MarkedReviews DEF DecisionCommits
  <2>3. TaskOK'
    BY <2>1, <2>2, StatusType DEF DecisionCommits, Final, TypeOK, TaskOK, sessionVars
  <2>4. AccountOK'
    <3>1. CASE st = "failed"
      BY <2>1, <3>1, ReleasedType DEF DecisionCommits, TypeOK, SettlementKeys
    <3>2. CASE st = "succeeded"
      BY <2>1, <3>2, ConsumedType DEF DecisionCommits, TypeOK
    <3>3. CASE st = "queued"
      BY <2>1, <3>3, Unaffected DEF DecisionCommits, TypeOK
    <3> QED
      BY <3>1, <3>2, <3>3 DEF Final
  <2>5. JobOK' /\ WorkerOK' /\ ApiOK'
    BY <2>1, Unaffected DEF DecisionCommits, TypeOK
  <2>6. decision' \in [Decisions -> {IdleDecision} \cup DecisionRow]
    BY <2>1, DecisionSteps DEF DecisionCommits
  <2> QED
    BY <2>3, <2>4, <2>5, <2>6 DEF TypeOK, DecisionRow
<1>5. ASSUME NEW d \in Decisions, AbortDecision(d) \/ DecisionLost(d) PROVE ReviewTypeOK'
  <2>1. UNCHANGED vars /\ decision' = [decision EXCEPT ![d] = IdleDecision]
    BY <1>5 DEF AbortDecision, DecisionLost
  <2>2. decision' \in [Decisions -> {IdleDecision} \cup DecisionRow]
    BY <2>1, DecisionSteps
  <2> QED
    BY <1>a, <2>1, <2>2 DEF DecisionRow
<1>6. ASSUME NEW d \in Decisions, EnqueueApproved(d) PROVE ReviewTypeOK'
  <2>1. decision[d].task \in Tasks
    BY <1>6, DecisionAtWork DEF EnqueueApproved, DecisionRow
  <2>2. JobOK'
    BY <1>6, <2>1, AddJobType, Unaffected DEF EnqueueApproved, TypeOK
  <2>3. TaskOK' /\ AccountOK' /\ WorkerOK' /\ ApiOK'
    BY <1>6, Unaffected DEF EnqueueApproved, TypeOK
  <2>4. decision' \in [Decisions -> {IdleDecision} \cup DecisionRow]
    BY <1>6, DecisionSteps DEF EnqueueApproved
  <2> QED
    BY <2>2, <2>3, <2>4 DEF TypeOK, DecisionRow
<1>7. CASE UNCHANGED reviewVars
  BY <1>a, <1>7 DEF reviewVars
<1> QED
  BY <1>1, <1>2, <1>3, <1>4, <1>5, <1>6, <1>7 DEF ReviewNext, Decide

(* Rows, reviews and the requests to decide have the values the code can   *)
(* give them, for any number of decisions under way.                       *)
THEOREM ReviewsTypeCorrect == ReviewSpec => []ReviewTypeOK
BY ReviewTypeInit, ReviewTypeNext, PTL DEF ReviewSpec

-----------------------------------------------------------------------------
(* Somebody can decide what waits for a review.                            *)

OpenFor(t) == \E i \in DOMAIN reviews[t] : reviews[t][i].status \in {"open", "claimed"}

(* Without stalls a job has the worker that is busy with its task, and no  *)
(* other worker is.                                                        *)
JobFree == \A t \in Tasks : job[t].state # "active" => job[t].owner = None

Owned == \A w \in Workers : worker[w].pc # "idle" => job[worker[w].task].owner = w

(* A worker about to put a running task up for a review has opened it, and *)
(* nobody has decided it meanwhile: that would have ended the run.         *)
HeldOpen ==
  \A w \in Workers :
    worker[w].pc = "holdInput" /\ status[worker[w].task] = "generating"
      => OpenFor(worker[w].task)

OwnInv == JobFree /\ Owned

DecidableInv == ReviewTypeOK /\ OwnInv /\ HeldOpen /\ SomeoneDecides

NothingStalls == "stall" \notin Faults

LEMMA AddJobOwned ==
  ASSUME TypeOK, OwnInv, NEW t \in Tasks, NEW n \in Int, AddJob(t, n), UNCHANGED worker
  PROVE  OwnInv'
<1>1. job \in [Tasks -> JobRecord]
  BY DEF TypeOK, JobOK, JobRecord
<1>2. job[t].state = "absent" => job[t].owner = None
  BY DEF OwnInv, JobFree
<1>3. NewJob(n).owner = None
  BY DEF NewJob, NoJob
<1>4. \A s \in Tasks : \/ job'[s] = job[s]
                       \/ job[s].owner = None /\ job'[s].owner = None
  <2>1. CASE job[t].state = "absent"
    <3>1. job' = [job EXCEPT ![t] = NewJob(n)]
      BY <2>1 DEF AddJob
    <3> QED
      BY <1>1, <1>2, <1>3, <2>1, <3>1
  <2>2. CASE job[t].state # "absent"
    BY <2>2 DEF AddJob
  <2> QED
    BY <2>1, <2>2
<1>5. \A w \in Workers : worker[w].pc # "idle" => worker[w].task \in Tasks
  BY WorkerSteps DEF TypeOK
<1>6. JobFree'
  BY <1>4 DEF OwnInv, JobFree
<1>7. Owned'
  BY <1>4, <1>5, TaskAssumption DEF OwnInv, Owned
<1> QED
  BY <1>6, <1>7 DEF OwnInv

(* A worker keeps the task it is busy with.                                *)
LEMMA WorkersStay ==
  ASSUME TypeOK, NEW w \in Workers, Process(w), NEW v \in Workers
  PROVE  /\ worker'[v].pc # "idle" => worker[v].pc # "idle"
         /\ worker'[v].task = worker[v].task
<1>0. worker \in [Workers -> {IdleWorker} \cup [pc : Steps, task : Tasks,
                                                attempt : Nat, max : 1..6]]
  BY DEF TypeOK, WorkerOK, Steps
<1>1. worker[w].pc # "idle"
  BY DEF Process, Start, ModerateInput, Generate, ModerateOutput, HoldForReview, Succeed, Fail,
     ProviderError, PersistError, StoreError
<1>2. \E pc : Goto(w, pc)
  BY DEF Process, Start, ModerateInput, Generate, ModerateOutput, HoldForReview, Succeed, Fail,
     ProviderError, PersistError, StoreError, Answered
<1> QED
  BY <1>0, <1>1, <1>2 DEF Goto

LEMMA OwnNext == ASSUME NothingStalls, TypeOK, OwnInv, [Next]_vars PROVE OwnInv'
<1>0. /\ worker \in [Workers -> {IdleWorker} \cup [pc : Steps, task : Tasks,
                                                  attempt : Nat, max : 1..6]]
      /\ job \in [Tasks -> JobRecord]
  BY DEF TypeOK, WorkerOK, Steps, JobOK, JobRecord
<1>a. \A w \in Workers : worker[w].pc # "idle" => worker[w].task \in Tasks
  BY WorkerSteps DEF TypeOK
<1>b. UNCHANGED <<job, worker>> => OwnInv'
  BY DEF OwnInv, JobFree, Owned
<1>c. None \notin Workers
  BY TaskAssumption
<1>1. ASSUME NEW r \in Requests, Enqueue(r) PROVE OwnInv'
  <2>1. api[r].task \in Tasks /\ UNCHANGED worker
    BY <1>1, ApiSteps DEF Enqueue, TypeOK
  <2>2. AddJob(api[r].task, RetryLimit) \/ UNCHANGED job
    BY <1>1 DEF Enqueue
  <2> QED
    BY <1>b, <2>1, <2>2, AddJobOwned, TaskAssumption
<1>2. ASSUME NEW w \in Workers, NEW t \in Tasks, TakeJob(w, t) PROVE OwnInv'
  <2>1. job[t].owner = None
    BY <1>2 DEF TakeJob, OwnInv, JobFree
  <2>2. \A s \in Tasks : s # t => job'[s] = job[s]
    BY <1>0, <1>2 DEF TakeJob
  <2>3. job'[t].state = "active" /\ job'[t].owner = w
    BY <1>0, <1>2 DEF TakeJob, JobRecord
  <2>4. worker'[w].task = t /\ \A v \in Workers : v # w => worker'[v] = worker[v]
    BY <1>0, <1>2 DEF TakeJob
  <2>5. \A v \in Workers : worker[v].pc # "idle" => worker[v].task # t
    BY <1>c, <2>1 DEF OwnInv, Owned
  <2>6. Owned'
    BY <1>a, <2>2, <2>3, <2>4, <2>5 DEF OwnInv, Owned
  <2>7. JobFree'
    BY <2>2, <2>3 DEF OwnInv, JobFree
  <2> QED
    BY <2>6, <2>7 DEF OwnInv
<1>3. ASSUME NEW w \in Workers, FinishJob(w) \/ RejectJob(w) PROVE OwnInv'
  <2>0. PICK t \in Tasks : t = worker[w].task
    BY <1>a, <1>3 DEF FinishJob, RejectJob
  <2>1. job[t].owner = w
    BY <1>3, <2>0 DEF FinishJob, RejectJob, OwnInv, Owned
  <2>2. /\ \A s \in Tasks : s # t => job'[s] = job[s]
        /\ job'[t].owner = None
    BY <1>0, <1>3, <2>0, <2>1 DEF FinishJob, RejectJob, Owns, JobRecord
  <2>3. worker'[w].pc = "idle" /\ \A v \in Workers : v # w => worker'[v] = worker[v]
    BY <1>0, <1>3 DEF FinishJob, RejectJob, IdleWorker
  <2>4. JobFree'
    BY <2>2 DEF OwnInv, JobFree
  <2>5. \A v \in Workers : v # w /\ worker[v].pc # "idle" => worker[v].task # t
    BY <2>1 DEF OwnInv, Owned
  <2>6. Owned'
    BY <1>a, <2>2, <2>3, <2>5 DEF OwnInv, Owned
  <2> QED
    BY <2>4, <2>6 DEF OwnInv
<1>4. ASSUME NEW t \in Tasks, StallJob(t) \/ EvictJob(t) PROVE OwnInv'
  <2>1. job[t].owner = None
    BY <1>4 DEF StallJob, EvictJob, NothingStalls, OwnInv, JobFree
  <2>2. /\ \A s \in Tasks : s # t => job'[s] = job[s]
        /\ job'[t].owner = None /\ UNCHANGED worker
    BY <1>0, <1>4 DEF StallJob, EvictJob, NoJob, JobRecord
  <2>3. JobFree'
    BY <2>2 DEF OwnInv, JobFree
  <2>4. Owned'
    BY <1>a, <1>c, <2>1, <2>2 DEF OwnInv, Owned
  <2> QED
    BY <2>3, <2>4 DEF OwnInv
<1>5. ASSUME NEW w \in Workers, CrashWorker(w) PROVE OwnInv'
  <2>1. ASSUME NEW s \in Tasks
        PROVE  \/ job[s].owner # w /\ job'[s] = job[s]
               \/ job[s].owner = w /\ job'[s].owner = None
    <3>1. job[s] \in JobRecord
      BY <1>0
    <3>2. job'[s] = IF job[s].owner = w THEN [job[s] EXCEPT !.owner = None] ELSE job[s]
      BY <1>5 DEF CrashWorker
    <3>3. [job[s] EXCEPT !.owner = None].owner = None
      BY <3>1 DEF JobRecord
    <3> QED
      BY <3>2, <3>3
  <2>2. worker'[w].pc = "idle" /\ \A v \in Workers : v # w => worker'[v] = worker[v]
    BY <1>0, <1>5 DEF CrashWorker, IdleWorker
  <2>3. JobFree'
    BY <2>1 DEF OwnInv, JobFree
  <2>4. Owned'
    BY <1>a, <2>1, <2>2 DEF OwnInv, Owned
  <2> QED
    BY <2>3, <2>4 DEF OwnInv
<1>6. ASSUME NEW w \in Workers, Process(w) PROVE OwnInv'
  <2>1. UNCHANGED job
    BY <1>6 DEF Process, Start, ModerateInput, Generate, ModerateOutput, HoldForReview,
       Succeed, Fail, ProviderError, PersistError, StoreError
  <2> QED
    BY <1>6, <2>1, WorkersStay DEF OwnInv, JobFree, Owned
<1>7. ASSUME \/ \E u \in Users : OpenAccount(u)
             \/ \E r \in Requests :
                  \/ \E t \in Tasks : CreateTask(r, t) \/ ReplayTask(r, t)
                  \/ RecordJobId(r) \/ FailQueuedTask(r) \/ RequestLost(r)
             \/ \E t \in Tasks : CancelTask(t)
             \/ \E s \in Sessions : CheckSessionIdle(s) \/ DeleteSessionRow(s)
             \/ UNCHANGED vars
      PROVE  UNCHANGED <<job, worker>>
  BY <1>7 DEF OpenAccount, CreateTask, ReplayTask, RecordJobId, FailQueuedTask, RequestLost,
     CancelTask, CheckSessionIdle, DeleteSessionRow, vars
<1> QED
  BY <1>b, <1>1, <1>2, <1>3, <1>4, <1>5, <1>6, <1>7 DEF Next, Finish

(* What a step of the others than the moderators does to the reviews of a  *)
(* task: they grow in the hands of a worker, or go with the row.           *)
StandsAt(w, pc, t) == worker[w].pc = pc /\ worker[w].task = t

ReviewStep(t) ==
  \/ /\ reviews'[t] = reviews[t]
     /\ status'[t] = "reviewing" => status[t] = "reviewing"
     /\ status'[t] = "deleted" => status[t] = "deleted"
  \/ reviews'[t] = <<>> /\ status'[t] = "deleted"
  \/ \E w \in Workers :
       \/ /\ StandsAt(w, "moderateInput", t) /\ "review" \in InputVerdicts
          /\ status[t] = "generating" /\ status'[t] = "generating"
          /\ reviews'[t] = Append(reviews[t], OpenReview("input"))
       \/ /\ StandsAt(w, "holdInput", t)
          /\ status[t] = "generating" /\ status'[t] = "reviewing"
          /\ reviews'[t] = reviews[t]
       \/ /\ StandsAt(w, "holdOutput", t)
          /\ status[t] = "generating" /\ status'[t] = "reviewing"
          /\ reviews'[t] = reviews[t] \o OutputReviews(t)
          /\ results'[t] = "pending"

LEMMA StepsOfReviews ==
  ASSUME TypeOK, [Next]_vars, NEW t \in Tasks
  PROVE  ReviewStep(t)
<1> USE DEF TypeOK
<1>0. /\ status \in [Tasks -> TaskStatus \cup {"none", "deleted"}]
      /\ results \in [Tasks -> {"none", "pending", "approved", "rejected"}]
      /\ reviews \in [Tasks -> Seq(ReviewRow)]
  BY DEF TaskOK
<1>a. \A w \in Workers : worker[w].pc # "idle" => worker[w].task \in Tasks
  BY WorkerSteps
<1>1. ASSUME NEW w \in Workers, ModerateInput(w) PROVE ReviewStep(t)
  <2>1. PICK v \in InputVerdicts :
          reviews' = IF v = "review" /\ status[worker[w].task] = "generating"
                     THEN [reviews EXCEPT ![worker[w].task] = Append(@, OpenReview("input"))]
                     ELSE reviews
    BY <1>1 DEF ModerateInput
  <2>2. PICK s \in Tasks : s = worker[w].task
    BY <1>1, <1>a DEF ModerateInput
  <2>3. CASE v = "review" /\ status[s] = "generating"
    <3>1. reviews' = [reviews EXCEPT ![s] = Append(reviews[s], OpenReview("input"))]
      BY <2>1, <2>2, <2>3
    <3>2. UNCHANGED status /\ worker[w].pc = "moderateInput"
      BY <1>1 DEF ModerateInput
    <3> QED
      BY <1>0, <2>2, <2>3, <3>1, <3>2 DEF ReviewStep, StandsAt
  <2>4. CASE ~ (v = "review" /\ status[s] = "generating")
    BY <1>1, <2>1, <2>2, <2>4 DEF ModerateInput, ReviewStep
  <2> QED
    BY <2>3, <2>4
<1>2. ASSUME NEW w \in Workers, HoldForReview(w) PROVE ReviewStep(t)
  <2>1. PICK s \in Tasks : s = worker[w].task
    BY <1>2, <1>a DEF HoldForReview
  <2>2. CASE status[s] # "generating"
    BY <1>2, <2>1, <2>2 DEF HoldForReview, ReviewStep
  <2>3. CASE status[s] = "generating" /\ worker[w].pc = "holdOutput"
    <3>1. /\ status' = [status EXCEPT ![s] = "reviewing"]
          /\ results' = [results EXCEPT ![s] = "pending"]
          /\ reviews' = [reviews EXCEPT ![s] = reviews[s] \o OutputReviews(s)]
      BY <1>2, <2>1, <2>3 DEF HoldForReview
    <3> QED
      BY <1>0, <2>1, <2>3, <3>1 DEF ReviewStep, StandsAt
  <2>4. CASE status[s] = "generating" /\ worker[w].pc = "holdInput"
    <3>1. /\ status' = [status EXCEPT ![s] = "reviewing"]
          /\ reviews' = [reviews EXCEPT ![s] = reviews[s] \o <<>>]
      BY <1>2, <2>1, <2>4 DEF HoldForReview
    <3>2. reviews[s] \o <<>> = reviews[s]
      <4>1. reviews[s] \in Seq(ReviewRow)
        BY <1>0
      <4> QED
        BY <4>1
    <3> QED
      BY <1>0, <2>1, <2>4, <3>1, <3>2 DEF ReviewStep, StandsAt
  <2> QED
    BY <1>2, <2>2, <2>3, <2>4 DEF HoldForReview
<1>3. ASSUME NEW s \in Sessions, DeleteSessionRow(s) PROVE ReviewStep(t)
  BY <1>0, <1>3 DEF DeleteSessionRow, ReviewStep
<1>4. ASSUME UNCHANGED reviews,
             \/ UNCHANGED status
             \/ \E s \in Tasks, st \in {"queued", "generating", "succeeded", "failed", "cancelled"} :
                  status' = [status EXCEPT ![s] = st]
      PROVE  ReviewStep(t)
  BY <1>0, <1>4 DEF ReviewStep
<1>5. ASSUME NEW w \in Workers, Start(w) \/ Succeed(w) \/ Fail(w) PROVE ReviewStep(t)
  BY <1>a, <1>4, <1>5 DEF Start, Succeed, Fail
<1>6. ASSUME NEW r \in Requests, FailQueuedTask(r) PROVE ReviewStep(t)
  BY <1>4, <1>6, ApiSteps DEF FailQueuedTask
<1>7. ASSUME \/ \E r \in Requests, s \in Tasks : CreateTask(r, s)
             \/ \E s \in Tasks : CancelTask(s)
      PROVE  ReviewStep(t)
  BY <1>4, <1>7 DEF CreateTask, CancelTask
<1>8. ASSUME \/ \E u \in Users : OpenAccount(u)
             \/ \E r \in Requests :
                  \/ \E s \in Tasks : ReplayTask(r, s)
                  \/ Enqueue(r) \/ RecordJobId(r) \/ RequestLost(r)
             \/ \E s \in Tasks : StallJob(s) \/ EvictJob(s)
             \/ \E s \in Sessions : CheckSessionIdle(s)
             \/ \E w \in Workers :
                  \/ \E s \in Tasks : TakeJob(w, s)
                  \/ FinishJob(w) \/ RejectJob(w) \/ CrashWorker(w)
                  \/ Generate(w) \/ ModerateOutput(w)
                  \/ ProviderError(w) \/ PersistError(w) \/ StoreError(w)
             \/ UNCHANGED vars
      PROVE  UNCHANGED <<status, reviews>>
  BY <1>8 DEF OpenAccount, ReplayTask, Enqueue, RecordJobId, RequestLost, StallJob, EvictJob,
     CheckSessionIdle, TakeJob, FinishJob, RejectJob, CrashWorker, Generate, ModerateOutput,
     ProviderError, PersistError, StoreError, taskVars, vars
<1> QED
  BY <1>1, <1>2, <1>3, <1>4, <1>5, <1>6, <1>7, <1>8 DEF Next, Process, Finish

LEMMA OpenStays ==
  ASSUME TypeOK, [Next]_vars, NEW t \in Tasks, OpenFor(t), status'[t] # "deleted"
  PROVE  OpenFor(t)'
<1>0. reviews[t] \in Seq(ReviewRow)
  BY DEF TypeOK, TaskOK
<1>1. PICK i \in DOMAIN reviews[t] : reviews[t][i].status \in {"open", "claimed"}
  BY DEF OpenFor
<1>2. CASE reviews'[t] = reviews[t]
  BY <1>2 DEF OpenFor
<1>3. CASE reviews'[t] = Append(reviews[t], OpenReview("input"))
  <2>1. i \in DOMAIN reviews'[t] /\ reviews'[t][i] = reviews[t][i]
    BY <1>0, <1>1, <1>3, OpenReviewType
  <2> QED
    BY <1>1, <2>1 DEF OpenFor
<1>4. CASE reviews'[t] = reviews[t] \o OutputReviews(t)
  <2>1. i \in DOMAIN reviews'[t] /\ reviews'[t][i] = reviews[t][i]
    BY <1>0, <1>1, <1>4, OutputReviewsType
  <2> QED
    BY <1>1, <2>1 DEF OpenFor
<1>5. ReviewStep(t)
  BY StepsOfReviews
<1> QED
  BY <1>2, <1>3, <1>4, <1>5 DEF ReviewStep

(* What is put up for a review is open for one.                            *)
LEMMA HeldIsOpen ==
  ASSUME TypeOK, NEW t \in Tasks, reviews'[t] = reviews[t] \o OutputReviews(t)
  PROVE  OpenFor(t)'
<1>0. reviews[t] \in Seq(ReviewRow) /\ Images[t] \in Nat \ {0}
  <2>1. Images[t] \in 1..MaxImages
    BY TaskAssumption
  <2> QED
    BY <2>1 DEF TypeOK, TaskOK, MaxImages
<1>1. Len(OutputReviews(t)) = Images[t] /\ OutputReviews(t)[1] = OpenReview("output")
  BY <1>0 DEF OutputReviews
<1> DEFINE i == Len(reviews[t]) + 1
<1>2. i \in DOMAIN reviews'[t] /\ reviews'[t][i] = OutputReviews(t)[1]
  BY <1>0, <1>1, OutputReviewsType
<1>3. reviews'[t][i].status = "open"
  BY <1>1, <1>2 DEF OpenReview
<1> QED
  BY <1>2, <1>3 DEF OpenFor

(* Only a worker that starts a task makes it run.                          *)
LEMMA BeginsToRun ==
  ASSUME TypeOK, [Next]_vars, NEW t \in Tasks,
         status[t] # "generating", status'[t] = "generating"
  PROVE  \E w \in Workers : StandsAt(w, "start", t)
<1> USE DEF TypeOK
<1>0. status \in [Tasks -> TaskStatus \cup {"none", "deleted"}]
  BY DEF TaskOK
<1>a. \A w \in Workers : worker[w].pc # "idle" => worker[w].task \in Tasks
  BY WorkerSteps
<1>1. ASSUME NEW w \in Workers, Start(w) PROVE StandsAt(w, "start", t)
  BY <1>0, <1>a, <1>1 DEF Start, StandsAt
<1>2. ASSUME NEW w \in Workers, HoldForReview(w) \/ Succeed(w) \/ Fail(w) PROVE FALSE
  BY <1>0, <1>a, <1>2 DEF HoldForReview, Succeed, Fail
<1>3. ASSUME NEW r \in Requests, FailQueuedTask(r) PROVE FALSE
  BY <1>0, <1>3 DEF FailQueuedTask
<1>4. ASSUME \/ \E r \in Requests, s \in Tasks : CreateTask(r, s)
             \/ \E s \in Tasks : CancelTask(s)
             \/ \E s \in Sessions : DeleteSessionRow(s)
      PROVE  FALSE
  BY <1>0, <1>4 DEF CreateTask, CancelTask, DeleteSessionRow
<1>5. ASSUME \/ \E u \in Users : OpenAccount(u)
             \/ \E r \in Requests :
                  \/ \E s \in Tasks : ReplayTask(r, s)
                  \/ Enqueue(r) \/ RecordJobId(r) \/ RequestLost(r)
             \/ \E s \in Tasks : StallJob(s) \/ EvictJob(s)
             \/ \E s \in Sessions : CheckSessionIdle(s)
             \/ \E w \in Workers :
                  \/ \E s \in Tasks : TakeJob(w, s)
                  \/ FinishJob(w) \/ RejectJob(w) \/ CrashWorker(w)
                  \/ ModerateInput(w) \/ Generate(w) \/ ModerateOutput(w)
                  \/ ProviderError(w) \/ PersistError(w) \/ StoreError(w)
             \/ UNCHANGED vars
      PROVE  UNCHANGED status
  BY <1>5 DEF OpenAccount, ReplayTask, Enqueue, RecordJobId, RequestLost, StallJob, EvictJob,
     CheckSessionIdle, TakeJob, FinishJob, RejectJob, CrashWorker, ModerateInput, Generate,
     ModerateOutput, ProviderError, PersistError, StoreError, taskVars, vars
<1> QED
  BY <1>1, <1>2, <1>3, <1>4, <1>5 DEF Next, Process, Finish

(* Only a worker that has judged a prompt comes to hold it for a review.   *)
LEMMA ComesToHold ==
  ASSUME TypeOK, [Next]_vars, NEW v \in Workers, worker'[v].pc = "holdInput",
         NEW t, t = worker'[v].task
  PROVE  \/ worker[v] = worker'[v]
         \/ /\ StandsAt(v, "moderateInput", t)
            /\ "review" \in InputVerdicts /\ UNCHANGED status
            /\ status[t] = "generating" => OpenFor(t)'
<1> USE DEF TypeOK
<1>0. worker \in [Workers -> {IdleWorker} \cup [pc : Steps, task : Tasks,
                                                attempt : Nat, max : 1..6]]
  BY DEF WorkerOK, Steps
<1>a. ASSUME NEW w \in Workers, NEW pc, pc # "holdInput", Goto(w, pc)
      PROVE  worker[v] = worker'[v]
  BY <1>0, <1>a DEF Goto, IdleWorker
<1>b. ASSUME NEW w \in Workers, NEW x, x.pc # "holdInput", worker' = [worker EXCEPT ![w] = x]
      PROVE  worker[v] = worker'[v]
  BY <1>0, <1>b
<1>1. ASSUME NEW w \in Workers, ModerateInput(w)
      PROVE  \/ worker[v] = worker'[v]
             \/ /\ StandsAt(v, "moderateInput", t)
                /\ "review" \in InputVerdicts /\ UNCHANGED status
                /\ status[t] = "generating" => OpenFor(t)'
  <2>1. PICK s \in Tasks : s = worker[w].task
    BY <1>1, WorkerSteps DEF ModerateInput
  <2>2. PICK x \in InputVerdicts :
          /\ reviews' = IF x = "review" /\ status[s] = "generating"
                        THEN [reviews EXCEPT ![s] = Append(@, OpenReview("input"))]
                        ELSE reviews
          /\ Answered(w, [approved |-> "generate", review |-> "holdInput",
                          rejected |-> "reject"][x], "fail")
    BY <1>1, <2>1 DEF ModerateInput
  <2>3. x \in {"approved", "review", "rejected"}
    BY TaskAssumption DEF Verdicts
  <2>4. CASE x # "review" \/ Goto(w, "fail")
    <3>1. PICK pc \in {"generate", "reject", "fail"} : Goto(w, pc)
      BY <2>2, <2>3, <2>4 DEF Answered
    <3> QED
      BY <1>a, <3>1
  <2>5. CASE x = "review" /\ Goto(w, "holdInput")
    <3>1. v # w => worker[v] = worker'[v]
      BY <1>0, <2>5 DEF Goto
    <3>2. v = w => worker'[v].task = worker[v].task
      BY <1>0, <2>5 DEF Goto
    <3>3. ASSUME status[s] = "generating" PROVE OpenFor(s)'
      <4>1. reviews[s] \in Seq(ReviewRow)
            /\ reviews'[s] = Append(reviews[s], OpenReview("input"))
        BY <2>2, <2>5, <3>3 DEF TaskOK
      <4> DEFINE i == Len(reviews[s]) + 1
      <4>2. i \in DOMAIN reviews'[s] /\ reviews'[s][i] = OpenReview("input")
        BY <4>1, OpenReviewType
      <4> QED
        BY <4>2 DEF OpenFor, OpenReview
    <3>4. worker[w].pc = "moderateInput" /\ UNCHANGED status
      BY <1>1 DEF ModerateInput
    <3> QED
      BY <2>1, <2>5, <3>1, <3>2, <3>3, <3>4 DEF StandsAt
  <2> QED
    BY <2>2, <2>3, <2>4, <2>5 DEF Answered
<1>2. ASSUME NEW w \in Workers, ModerateOutput(w) PROVE worker[v] = worker'[v]
  <2>1. PICK x \in OutputVerdicts :
          Answered(w, [approved |-> "succeed", review |-> "holdOutput",
                       rejected |-> "reject"][x], "fail")
    BY <1>2 DEF ModerateOutput
  <2>2. x \in Verdicts
    BY TaskAssumption
  <2>3. PICK pc \in {"succeed", "holdOutput", "reject", "fail"} : Goto(w, pc)
    BY <2>1, <2>2 DEF Verdicts, Answered
  <2> QED
    BY <1>a, <2>3
<1>3. ASSUME NEW w \in Workers, Start(w) PROVE worker[v] = worker'[v]
  BY <1>a, <1>3 DEF Start, Answered
<1>4. ASSUME NEW w \in Workers, Generate(w) \/ HoldForReview(w) PROVE worker[v] = worker'[v]
  BY <1>a, <1>4 DEF Generate, HoldForReview, Answered
<1>5. ASSUME NEW w \in Workers, Succeed(w) PROVE worker[v] = worker'[v]
  BY <1>a, <1>5 DEF Succeed, Answered
<1>6. ASSUME NEW w \in Workers, Fail(w) PROVE worker[v] = worker'[v]
  BY <1>a, <1>6 DEF Fail, Answered
<1>7. ASSUME NEW w \in Workers, ProviderError(w) \/ PersistError(w) \/ StoreError(w)
      PROVE  worker[v] = worker'[v]
  BY <1>a, <1>7 DEF ProviderError, PersistError, StoreError
<1>8. ASSUME NEW w \in Workers, FinishJob(w) \/ RejectJob(w) \/ CrashWorker(w)
      PROVE  worker[v] = worker'[v]
  BY <1>b, <1>8 DEF FinishJob, RejectJob, CrashWorker, IdleWorker
<1>9. ASSUME NEW w \in Workers, NEW s \in Tasks, TakeJob(w, s) PROVE worker[v] = worker'[v]
  BY <1>b, <1>9 DEF TakeJob
<1>10. ASSUME \/ \E u \in Users : OpenAccount(u)
              \/ \E r \in Requests :
                   \/ \E s \in Tasks : CreateTask(r, s) \/ ReplayTask(r, s)
                   \/ Finish(r) \/ RequestLost(r)
              \/ \E s \in Tasks : CancelTask(s) \/ StallJob(s) \/ EvictJob(s)
              \/ \E s \in Sessions : CheckSessionIdle(s) \/ DeleteSessionRow(s)
              \/ UNCHANGED vars
       PROVE  worker[v] = worker'[v]
  BY <1>10 DEF OpenAccount, CreateTask, ReplayTask, Finish, Enqueue, RecordJobId,
     FailQueuedTask, RequestLost, CancelTask, StallJob, EvictJob, CheckSessionIdle,
     DeleteSessionRow, vars
<1> QED
  BY <1>1, <1>2, <1>3, <1>4, <1>5, <1>6, <1>7, <1>8, <1>9, <1>10 DEF Next, Process

LEMMA HeldNext ==
  ASSUME TypeOK, OwnInv, HeldOpen, [Next]_vars
  PROVE  HeldOpen'
<1> SUFFICES ASSUME NEW v \in Workers, worker'[v].pc = "holdInput",
                    NEW t, t = worker'[v].task, status'[t] = "generating"
             PROVE  OpenFor(t)'
  BY DEF HeldOpen, OpenFor
<1>1. CASE worker[v] = worker'[v]
  <2>1. t \in Tasks /\ worker[v].task = t
    BY <1>1, WorkerSteps DEF TypeOK
  <2>2. CASE status[t] = "generating"
    BY <1>1, <2>1, <2>2, OpenStays DEF HeldOpen
  <2>3. CASE status[t] # "generating"
    <3>1. PICK w \in Workers : StandsAt(w, "start", t)
      BY <2>1, <2>3, BeginsToRun
    <3>2. w = v
      BY <1>1, <2>1, <3>1 DEF StandsAt, OwnInv, Owned
    <3> QED
      BY <1>1, <3>1, <3>2 DEF StandsAt
  <2> QED
    BY <2>2, <2>3
<1>2. CASE worker[v] # worker'[v]
  <2>1. UNCHANGED status /\ (status[t] = "generating" => OpenFor(t)')
    BY <1>2, ComesToHold
  <2> QED
    BY <2>1
<1> QED
  BY <1>1, <1>2

LEMMA ReviewingNext ==
  ASSUME TypeOK, HeldOpen, SomeoneDecides, [Next]_vars
  PROVE  SomeoneDecides'
<1> SUFFICES ASSUME NEW t \in Tasks, status'[t] = "reviewing" PROVE OpenFor(t)'
  BY DEF SomeoneDecides, OpenFor
<1>1. CASE status[t] = "reviewing"
  BY <1>1, OpenStays DEF SomeoneDecides, OpenFor
<1>2. CASE \E w \in Workers : StandsAt(w, "holdInput", t) /\ status[t] = "generating"
  BY <1>2, OpenStays DEF HeldOpen, StandsAt
<1>3. CASE reviews'[t] = reviews[t] \o OutputReviews(t)
  BY <1>3, HeldIsOpen
<1>4. ReviewStep(t)
  BY StepsOfReviews
<1> QED
  BY <1>1, <1>2, <1>3, <1>4 DEF ReviewStep

LEMMA DecidableNext ==
  ASSUME NothingStalls, DecidableInv, [ReviewNext]_reviewVars
  PROVE  DecidableInv'
<1> USE DEF DecidableInv
<1>0. TypeOK /\ ReviewTypeOK'
  BY ReviewTypeNext DEF ReviewTypeOK
<1>a. /\ status \in [Tasks -> TaskStatus \cup {"none", "deleted"}]
      /\ reviews \in [Tasks -> Seq(ReviewRow)]
  BY <1>0 DEF TypeOK, TaskOK
<1>b. \A w \in Workers : worker[w].pc # "idle" => worker[w].task \in Tasks
  BY <1>0, WorkerSteps DEF TypeOK
<1>1. CASE [Next]_vars
  BY <1>0, <1>1, OwnNext, HeldNext, ReviewingNext
<1>2. ASSUME NEW t \in Tasks, NEW i \in DOMAIN reviews[t], ClaimReview(t, i)
      PROVE  DecidableInv'
  <2>1. UNCHANGED <<status, job, worker>>
    BY <1>2 DEF ClaimReview
  <2>2. /\ reviews'[t][i].status = "claimed" /\ Len(reviews'[t]) = Len(reviews[t])
        /\ \A s \in Tasks : s # t => reviews'[s] = reviews[s]
        /\ reviews' \in [Tasks -> Seq(ReviewRow)]
    <3>1. reviews' = [reviews EXCEPT ![t][i].status = "claimed"]
      BY <1>2 DEF ClaimReview
    <3>2. /\ reviews'[t][i] = [stage |-> reviews[t][i].stage, status |-> "claimed"]
          /\ Len(reviews'[t]) = Len(reviews[t])
          /\ \A s \in Tasks : s # t => reviews'[s] = reviews[s]
      BY <1>0, <3>1, MarkedReviews
    <3>3. reviews' \in [Tasks -> Seq(ReviewRow)]
      BY <1>0, <3>1, MarkedReviews
    <3>4. reviews'[t][i].status = "claimed"
      BY <3>2
    <3> QED
      BY <3>2, <3>3, <3>4
  <2>3. OpenFor(t)'
    BY <1>a, <2>2 DEF OpenFor
  <2>4. \A s \in Tasks : OpenFor(s) => OpenFor(s)'
    BY <2>2, <2>3 DEF OpenFor
  <2>5. OwnInv'
    BY <2>1 DEF OwnInv, JobFree, Owned
  <2>6. HeldOpen'
    BY <1>b, <2>1, <2>4 DEF HeldOpen
  <2>7. SomeoneDecides'
    BY <2>1, <2>4 DEF SomeoneDecides, OpenFor
  <2> QED
    BY <1>0, <2>5, <2>6, <2>7
<1>3. ASSUME NEW d \in Decisions, CommitDecision(d) PROVE DecidableInv'
  <2>1. PICK t \in Tasks, i \in Nat \ {0}, v \in {"approved", "rejected"}, st \in Final :
          DecisionCommits(d, t, i, v, st)
    BY <1>3, Committed
  <2>2. UNCHANGED <<job, worker>>
    BY <2>1 DEF DecisionCommits
  <2>3. /\ status'[t] \notin {"generating", "reviewing"}
        /\ \A s \in Tasks : s # t => status'[s] = status[s]
    BY <1>a, <2>1 DEF DecisionCommits, Final
  <2>4. \A s \in Tasks : s # t => reviews'[s] = reviews[s]
    BY <1>a, <2>1 DEF DecisionCommits
  <2>5. \A s \in Tasks : s # t /\ OpenFor(s) => OpenFor(s)'
    BY <2>4 DEF OpenFor
  <2>6. OwnInv'
    BY <2>2 DEF OwnInv, JobFree, Owned
  <2>7. HeldOpen'
    BY <1>b, <2>2, <2>3, <2>5 DEF HeldOpen
  <2>8. SomeoneDecides'
    BY <2>3, <2>5 DEF SomeoneDecides, OpenFor
  <2> QED
    BY <1>0, <2>6, <2>7, <2>8
<1>4. ASSUME NEW d \in Decisions, EnqueueApproved(d) PROVE DecidableInv'
  <2>1. decision[d].task \in Tasks
    BY <1>4, DecisionAtWork DEF EnqueueApproved, DecisionRow
  <2>2. UNCHANGED <<status, reviews, worker>>
    BY <1>4 DEF EnqueueApproved, taskVars
  <2>3. OwnInv'
    <3>1. AddJob(decision[d].task, 2) \/ UNCHANGED job
      BY <1>4 DEF EnqueueApproved
    <3> QED
      BY <1>0, <2>1, <2>2, <3>1, AddJobOwned DEF OwnInv, JobFree, Owned
  <2>4. HeldOpen' /\ SomeoneDecides'
    BY <2>2 DEF HeldOpen, SomeoneDecides, OpenFor
  <2> QED
    BY <1>0, <2>3, <2>4
<1>5. ASSUME \/ \E t \in Tasks : \E i \in DOMAIN reviews[t] :
                  \E d \in Decisions : ReadReview(d, t, i)
             \/ \E d \in Decisions : AbortDecision(d) \/ DecisionLost(d)
             \/ UNCHANGED reviewVars
      PROVE  [Next]_vars
  BY <1>5 DEF ReadReview, AbortDecision, DecisionLost, reviewVars
<1> QED
  BY <1>1, <1>2, <1>3, <1>4, <1>5 DEF ReviewNext, Decide

LEMMA DecidableInitially == ReviewInit => DecidableInv
BY ReviewTypeInit DEF ReviewInit, Init, DecidableInv, OwnInv, JobFree, Owned, HeldOpen,
   SomeoneDecides, NoJob, IdleWorker

(* What is published was paid for when it was, and ledgers only grow.      *)
LEMMA PaidNext ==
  ASSUME ReviewTypeOK, PublishedIsPaid, [ReviewNext]_reviewVars
  PROVE  PublishedIsPaid'
<1>0. /\ TypeOK
      /\ results \in [Tasks -> {"none", "pending", "approved", "rejected"}]
      /\ ledger \in [Tasks -> SUBSET LedgerKeys]
  BY DEF ReviewTypeOK, TypeOK, TaskOK, AccountOK
<1>a. \A w \in Workers : worker[w].pc # "idle" => worker[w].task \in Tasks
  BY <1>0, WorkerSteps DEF TypeOK
<1>1. ASSUME [Next]_vars, NEW t \in Tasks, results'[t] = "approved"
      PROVE  "consume" \in ledger'[t]
  <2>1. RowStep(t)
    BY <1>0, <1>1, StepsOfTasks
  <2>2. ledger[t] \subseteq ledger'[t]
    BY <2>1 DEF RowStep, Stays, RowMoves
  <2>3. CASE results[t] = "approved"
    BY <2>2, <2>3 DEF PublishedIsPaid
  <2>4. CASE results[t] # "approved"
    <3>1. ResultStep(t)
      BY <1>0, <1>1, StepsOfResults
    <3>2. status[t] = "generating" /\ status'[t] = "succeeded"
      BY <1>1, <2>4, <3>1 DEF ResultStep
    <3> QED
      BY <2>1, <3>2 DEF RowStep, Stays, RowMoves
  <2> QED
    BY <2>3, <2>4
<1>2. ASSUME NEW d \in Decisions, CommitDecision(d), NEW t \in Tasks, results'[t] = "approved"
      PROVE  "consume" \in ledger'[t]
  <2>1. PICK s \in Tasks, i \in Nat \ {0}, v \in {"approved", "rejected"}, st \in Final :
          DecisionCommits(d, s, i, v, st)
    BY <1>2, Committed
  <2>2. ledger[t] \subseteq ledger'[t] /\ (st = "succeeded" => "consume" \in ledger'[s])
    BY <1>0, <2>1 DEF DecisionCommits, Final, Consumed, Released, Settle, quotaVars
  <2>3. CASE results[t] = "approved"
    BY <2>2, <2>3 DEF PublishedIsPaid
  <2>4. CASE results[t] # "approved"
    <3>1. t = s /\ reviews[s][i].stage = "output" /\ v = "approved"
      BY <1>0, <1>2, <2>1, <2>4 DEF DecisionCommits
    <3>2. st = "succeeded"
      BY <2>1, <3>1 DEF DecisionCommits, Outcome
    <3> QED
      BY <2>2, <3>1, <3>2
  <2> QED
    BY <2>3, <2>4
<1>3. ASSUME \/ \E t \in Tasks : \E i \in DOMAIN reviews[t] :
                  \/ ClaimReview(t, i)
                  \/ \E d \in Decisions : ReadReview(d, t, i)
             \/ \E d \in Decisions : AbortDecision(d) \/ DecisionLost(d) \/ EnqueueApproved(d)
             \/ UNCHANGED reviewVars
      PROVE  UNCHANGED <<results, ledger>>
  BY <1>3 DEF ClaimReview, ReadReview, AbortDecision, DecisionLost, EnqueueApproved, reviewVars,
     vars, taskVars, quotaVars
<1> QED
  BY <1>1, <1>2, <1>3 DEF ReviewNext, Decide, PublishedIsPaid

(* Unless a worker stalls, a task is executed by one worker at a time,     *)
(* however many attempts its job has, whoever dies and whatever the queue  *)
(* and the database fail at, and however often moderators put a task back  *)
(* into the queue: a job that is handed out has no worker any more.        *)
THEOREM OneWorkerUnlessStalled ==
  ASSUME NothingStalls
  PROVE  (Spec => []SingleExecution) /\ (ReviewSpec => []SingleExecution)
<1>1. Init => TypeOK /\ OwnInv
  BY TypeInit DEF Init, OwnInv, JobFree, Owned, NoJob, IdleWorker
<1>2. TypeOK /\ OwnInv /\ [Next]_vars => (TypeOK /\ OwnInv)'
  BY TypeNext, OwnNext
<1>3. TypeOK /\ OwnInv => SingleExecution
  BY DEF OwnInv, Owned, SingleExecution, Running
<1>4. Spec => []SingleExecution
  BY <1>1, <1>2, <1>3, PTL DEF Spec
<1>5. DecidableInv /\ [ReviewNext]_reviewVars => DecidableInv'
  BY DecidableNext
<1>6. DecidableInv => SingleExecution
  BY DEF DecidableInv, OwnInv, Owned, SingleExecution, Running
<1>7. ReviewSpec => []SingleExecution
  BY DecidableInitially, <1>5, <1>6, PTL DEF ReviewSpec
<1> QED
  BY <1>4, <1>7

(* However many moderators decide at a time, and whatever they decide, what *)
(* waits for a review waits for somebody who can decide it, and what is     *)
(* published was paid for.  Workers must not stall: a stalled one may put  *)
(* up a task for a review that has been decided already.                   *)
THEOREM ReviewsAreDecidable ==
  ASSUME NothingStalls
  PROVE  ReviewSpec => []DecidableAndPaid
<1>1. ReviewInit => DecidableInv /\ PublishedIsPaid
  BY DecidableInitially DEF ReviewInit, Init, PublishedIsPaid
<1>2. DecidableInv /\ PublishedIsPaid /\ [ReviewNext]_reviewVars
        => (DecidableInv /\ PublishedIsPaid)'
  BY DecidableNext, PaidNext DEF DecidableInv
<1>3. DecidableInv /\ PublishedIsPaid => DecidableAndPaid
  BY DEF DecidableInv, DecidableAndPaid
<1> QED
  BY <1>1, <1>2, <1>3, PTL DEF ReviewSpec

-----------------------------------------------------------------------------
(* Decisions one at a time, about tasks of one image whose prompt nobody   *)
(* reviews.  With two decisions, two images, or a prompt under review while *)
(* its task can still be cancelled, credits are settled twice.             *)

SingleReviews ==
  /\ \A c, d \in Decisions : c = d
  /\ \A t \in Tasks : Images[t] = 1
  /\ "review" \notin InputVerdicts

(* A task is reviewed once, while its images are pending, and ends when it *)
(* is approved; a rejection is refused.                                    *)
ApprovedOutput == [stage |-> "output", status |-> "approved"]

UnderReview(t) ==
  /\ status[t] = "reviewing" =>
       /\ Len(reviews[t]) = 1 /\ reviews[t][1].stage = "output"
       /\ reviews[t][1].status \in {"open", "claimed"}
       /\ results[t] = "pending"
  /\ status[t] = "succeeded" => reviews[t] \in {<<>>, <<ApprovedOutput>>}
  /\ status[t] \notin {"reviewing", "succeeded"} => reviews[t] = <<>>

(* The decision under way is about the review that its task waits for.     *)
DecisionHolds(d) ==
  decision[d].pc # "idle" =>
    /\ decision[d].pc = "commit" /\ decision[d].review = 1
    /\ \/ /\ status[decision[d].task] = "reviewing"
          /\ reviews[decision[d].task][1].status = "claimed"
       \/ status[decision[d].task] = "deleted"

SingleInv ==
  /\ \A t \in Tasks : UnderReview(t)
  /\ \A d \in Decisions : DecisionHolds(d)
  /\ \A w \in Workers : worker[w].pc # "holdInput"

SettledReviewInv == ReviewTypeOK /\ SettledInv /\ CreditInv /\ DeliveredInv /\ SingleInv

LEMMA SingleInitially == ReviewInit => SettledReviewInv
<1> SUFFICES ASSUME ReviewInit PROVE SettledReviewInv
  OBVIOUS
<1>1. SingleInv
  BY DEF ReviewInit, Init, SingleInv, UnderReview, DecisionHolds, IdleDecision, IdleWorker
<1>2. DeliveredInv
  BY DEF ReviewInit, Init, DeliveredInv
<1> QED
  BY <1>1, <1>2, ReviewTypeInit, SettledInit, CreditInit DEF ReviewInit, SettledReviewInv

(* Requests, users and workers leave a task under review as it is, or      *)
(* delete it; and put up the one image of a task when it has been made.    *)
SingleStep(t) ==
  \/ /\ reviews'[t] = reviews[t] /\ status'[t] = status[t]
     /\ status[t] = "reviewing" => results'[t] \in {results[t], "pending"}
  \/ /\ reviews'[t] = reviews[t]
     /\ status[t] \in Unfinished /\ status'[t] \notin {"reviewing", "deleted"}
  \/ reviews'[t] = <<>> /\ status'[t] = "deleted"
  \/ /\ status[t] = "generating" /\ status'[t] = "reviewing"
     /\ reviews'[t] = reviews[t] \o OutputReviews(t) /\ results'[t] = "pending"

LEMMA SingleSteps ==
  ASSUME SingleReviews, TypeOK, [Next]_vars, NEW t \in Tasks,
         \A w \in Workers : worker[w].pc # "holdInput"
  PROVE  SingleStep(t)
<1>1. \/ reviews'[t] = reviews[t]
         /\ (status'[t] = "reviewing" => status[t] = "reviewing")
         /\ (status'[t] = "deleted" => status[t] = "deleted")
      \/ reviews'[t] = <<>> /\ status'[t] = "deleted"
      \/ /\ status[t] = "generating" /\ status'[t] = "reviewing"
         /\ reviews'[t] = reviews[t] \o OutputReviews(t) /\ results'[t] = "pending"
  BY StepsOfReviews DEF ReviewStep, StandsAt, SingleReviews
<1>2. status'[t] # status[t] => status[t] \in Unfinished \/ status'[t] = "deleted"
  BY StepsOfTasks DEF RowStep, Stays, RowMoves, Unfinished
<1>3. status'[t] = "reviewing" /\ status[t] = "reviewing" => results'[t] \in {results[t], "pending"}
  BY StepsOfResults DEF ResultStep, Unfinished
<1> QED
  BY <1>1, <1>2, <1>3 DEF SingleStep, Unfinished

(* A new review of the only image is open.                                 *)
LEMMA OneOutput ==
  ASSUME NEW t \in Tasks, Images[t] = 1
  PROVE  <<>> \o OutputReviews(t) = <<OpenReview("output")>>
<1>1. OutputReviews(t) = <<OpenReview("output")>>
  BY DEF OutputReviews
<1>2. <<OpenReview("output")>> \in Seq({OpenReview("output")})
  OBVIOUS
<1> QED
  BY <1>1, <1>2

LEMMA SingleOfTasks ==
  ASSUME SingleReviews, SettledReviewInv, [Next]_vars, UNCHANGED decision
  PROVE  SingleInv'
<1>0. TypeOK /\ SingleInv
  BY DEF ReviewTypeOK, SettledReviewInv
<1>1. ASSUME NEW w \in Workers PROVE worker'[w].pc # "holdInput"
  <2> SUFFICES ASSUME worker'[w].pc = "holdInput" PROVE FALSE
    OBVIOUS
  <2>1. PICK t : t = worker'[w].task
    OBVIOUS
  <2>2. worker[w] = worker'[w]
    BY <1>0, <2>1, ComesToHold DEF SingleReviews
  <2> QED
    BY <1>0, <2>2 DEF SingleInv
<1>2. \A t \in Tasks : SingleStep(t)
  BY <1>0, SingleSteps DEF SingleInv
<1>3. ASSUME NEW t \in Tasks PROVE UnderReview(t)'
  <2>1. UnderReview(t) /\ SingleStep(t)
    BY <1>0, <1>2 DEF SingleInv
  <2>2. CASE /\ status[t] = "generating" /\ status'[t] = "reviewing"
             /\ reviews'[t] = reviews[t] \o OutputReviews(t) /\ results'[t] = "pending"
    <3>1. reviews'[t] = <<OpenReview("output")>>
      BY <2>1, <2>2, OneOutput DEF UnderReview, SingleReviews
    <3> QED
      BY <2>2, <3>1 DEF UnderReview, OpenReview
  <2>3. CASE /\ reviews'[t] = reviews[t] /\ status'[t] = status[t]
             /\ status[t] = "reviewing" => results'[t] \in {results[t], "pending"}
    BY <2>1, <2>3 DEF UnderReview
  <2>4. CASE /\ reviews'[t] = reviews[t]
             /\ status[t] \in Unfinished /\ status'[t] \notin {"reviewing", "deleted"}
    BY <2>1, <2>4 DEF UnderReview, Unfinished
  <2>5. CASE reviews'[t] = <<>> /\ status'[t] = "deleted"
    BY <2>5 DEF UnderReview
  <2> QED
    BY <2>1, <2>2, <2>3, <2>4, <2>5 DEF SingleStep
<1>4. ASSUME NEW d \in Decisions PROVE DecisionHolds(d)'
  <2> SUFFICES ASSUME decision[d].pc # "idle" PROVE DecisionHolds(d)'
    BY DEF DecisionHolds
  <2>1. PICK t \in Tasks : t = decision[d].task
    BY DecisionAtWork DEF SettledReviewInv, DecisionRow
  <2>2. DecisionHolds(d) /\ SingleStep(t)
    BY <1>0, <1>2 DEF SingleInv
  <2> QED
    BY <2>1, <2>2 DEF DecisionHolds, SingleStep, Unfinished
<1> QED
  BY <1>1, <1>3, <1>4 DEF SingleInv

(* A review that is open or claimed is the only one of its task.           *)
LEMMA SingleReview ==
  ASSUME ReviewTypeOK, SingleInv, NEW t \in Tasks, NEW i \in DOMAIN reviews[t],
         reviews[t][i].status \in {"open", "claimed"}
  PROVE  i = 1 /\ status[t] = "reviewing" /\ Len(reviews[t]) = 1
<1>1. UnderReview(t) /\ reviews[t] \in Seq(ReviewRow)
  BY DEF SingleInv, ReviewTypeOK, TypeOK, TaskOK
<1>2. reviews[t] # <<>> /\ reviews[t] # <<ApprovedOutput>>
  BY DEF ApprovedOutput
<1> QED
  BY <1>1, <1>2 DEF UnderReview

(* What commits is the approval of the image that its task waits for.      *)
LEMMA SingleCommit ==
  ASSUME SettledReviewInv, NEW d \in Decisions, CommitDecision(d)
  PROVE  \E t \in Tasks :
           /\ DecisionCommits(d, t, 1, "approved", "succeeded")
           /\ status[t] = "reviewing" /\ results[t] = "pending"
           /\ reviews[t][1].stage = "output" /\ Len(reviews[t]) = 1
<1> USE DEF SettledReviewInv
<1>1. PICK t \in Tasks, i \in Nat \ {0}, v \in {"approved", "rejected"}, st \in Final :
        DecisionCommits(d, t, i, v, st)
  BY Committed
<1>2. DecisionHolds(d) /\ UnderReview(t)
  BY DEF SingleInv
<1>3. i = 1 /\ i \in DOMAIN reviews[t] /\ status[t] \in {"reviewing", "deleted"}
  BY <1>1, <1>2 DEF DecisionCommits, DecisionHolds
<1>4. status[t] = "reviewing"
  BY <1>2, <1>3 DEF UnderReview
<1>5. v = "approved" /\ st = "succeeded"
  BY <1>1, <1>2, <1>3, <1>4 DEF DecisionCommits, UnderReview, Outcome
<1> QED
  BY <1>1, <1>2, <1>3, <1>4, <1>5 DEF UnderReview

(* A claim, or what is read of it, leaves tasks and credits as they are.   *)
Untouched == UNCHANGED <<status, results, quotaVars, worker>>

LEMMA UntouchedKeeps ==
  ASSUME SettledReviewInv, ReviewTypeOK', Untouched,
         \A t \in Tasks : UnderReview(t)', \A d \in Decisions : DecisionHolds(d)'
  PROVE  SettledReviewInv'
<1>1. SettledInv'
  BY DEF Untouched, quotaVars, SettledInv, SettledOnce, SettledReviewInv
<1>2. DeliveredInv'
  BY DEF Untouched, DeliveredInv, SettledReviewInv
<1>3. CreditInv'
  BY CreditKept DEF Untouched, CreditStep, SettledReviewInv, ReviewTypeOK
<1>4. SingleInv'
  BY DEF Untouched, SingleInv, SettledReviewInv
<1> QED
  BY <1>1, <1>2, <1>3, <1>4 DEF SettledReviewInv

LEMMA SingleClaim ==
  ASSUME SettledReviewInv, ReviewTypeOK', NEW t \in Tasks, NEW i \in DOMAIN reviews[t],
         ClaimReview(t, i)
  PROVE  SettledReviewInv'
<1>0. TypeOK /\ SingleInv /\ ReviewTypeOK
  BY DEF SettledReviewInv, ReviewTypeOK
<1>1. i = 1 /\ status[t] = "reviewing" /\ Len(reviews[t]) = 1
  BY <1>0, SingleReview DEF ClaimReview
<1>2. reviews' = [reviews EXCEPT ![t][i].status = "claimed"]
  BY DEF ClaimReview
<1>3. /\ reviews'[t][1] = [stage |-> reviews[t][1].stage, status |-> "claimed"]
      /\ Len(reviews'[t]) = 1
      /\ \A s \in Tasks : s # t => reviews'[s] = reviews[s]
  BY <1>0, <1>1, <1>2, MarkedReviews
<1>4. UNCHANGED <<status, results, quotaVars, worker, decision>>
  BY DEF ClaimReview
<1>5. ASSUME NEW s \in Tasks PROVE UnderReview(s)'
  <2>1. UnderReview(s)
    BY <1>0 DEF SingleInv
  <2> QED
    BY <1>1, <1>3, <1>4, <2>1 DEF UnderReview
<1>6. ASSUME NEW d \in Decisions PROVE DecisionHolds(d)'
  <2>1. DecisionHolds(d) /\ (decision[d].pc # "idle" => decision[d].task \in Tasks)
    BY <1>0, DecisionAtWork DEF SingleInv, DecisionRow
  <2> QED
    BY <1>3, <1>4, <2>1 DEF DecisionHolds
<1> QED
  BY <1>4, <1>5, <1>6, UntouchedKeeps DEF Untouched

LEMMA SingleRead ==
  ASSUME SettledReviewInv, ReviewTypeOK', NEW t \in Tasks, NEW i \in DOMAIN reviews[t],
         NEW d \in Decisions, ReadReview(d, t, i)
  PROVE  SettledReviewInv'
<1>0. SingleInv /\ ReviewTypeOK
  BY DEF SettledReviewInv
<1>1. i = 1 /\ status[t] = "reviewing" /\ reviews[t][i].status = "claimed"
  BY <1>0, SingleReview DEF ReadReview
<1>2. UNCHANGED <<status, results, reviews, quotaVars, worker>>
  BY DEF ReadReview, vars, taskVars
<1>3. ASSUME NEW s \in Tasks PROVE UnderReview(s)'
  BY <1>0, <1>2 DEF SingleInv, UnderReview
<1>4. ASSUME NEW c \in Decisions PROVE DecisionHolds(c)'
  <2>1. PICK v \in Judgements : decision' = [decision EXCEPT ![d] =
                                  [pc |-> "commit", task |-> t, review |-> i, verdict |-> v]]
    BY DEF ReadReview
  <2>2. DecisionHolds(c) /\ decision \in [Decisions -> {IdleDecision} \cup DecisionRow]
    BY <1>0 DEF SingleInv, ReviewTypeOK, DecisionRow
  <2>3. CASE c = d
    <3>1. decision'[c] = [pc |-> "commit", task |-> t, review |-> i, verdict |-> v]
      BY <2>1, <2>2, <2>3
    <3> QED
      BY <1>1, <1>2, <3>1 DEF DecisionHolds
  <2>4. CASE c # d
    BY <1>2, <2>1, <2>2, <2>4 DEF DecisionHolds
  <2> QED
    BY <2>3, <2>4
<1> QED
  BY <1>2, <1>3, <1>4, UntouchedKeeps DEF Untouched

LEMMA SingleCommitKeeps ==
  ASSUME SingleReviews, SettledReviewInv, ReviewTypeOK', NEW d \in Decisions, CommitDecision(d)
  PROVE  SettledReviewInv' /\ CreditStep
<1>0. TypeOK /\ SingleInv /\ ReviewTypeOK
  BY DEF SettledReviewInv, ReviewTypeOK
<1>a. /\ status \in [Tasks -> TaskStatus \cup {"none", "deleted"}]
      /\ results \in [Tasks -> {"none", "pending", "approved", "rejected"}]
      /\ reviews \in [Tasks -> Seq(ReviewRow)]
      /\ ledger \in [Tasks -> SUBSET LedgerKeys]
  BY <1>0 DEF TypeOK, TaskOK, AccountOK
<1>1. PICK t \in Tasks :
        /\ DecisionCommits(d, t, 1, "approved", "succeeded")
        /\ status[t] = "reviewing" /\ results[t] = "pending"
        /\ reviews[t][1].stage = "output" /\ Len(reviews[t]) = 1
  BY SingleCommit
<1>2. /\ status' = [status EXCEPT ![t] = "succeeded"]
      /\ results' = [results EXCEPT ![t] = "approved"]
      /\ UNCHANGED worker
  BY <1>1 DEF DecisionCommits
<1>3. /\ reviews'[t] = <<ApprovedOutput>>
      /\ \A s \in Tasks : s # t => reviews'[s] = reviews[s]
  <2>1. /\ reviews'[t][1] = [stage |-> reviews[t][1].stage, status |-> "approved"]
        /\ Len(reviews'[t]) = 1
        /\ \A s \in Tasks : s # t => reviews'[s] = reviews[s]
    BY <1>0, <1>1, MarkedReviews DEF DecisionCommits
  <2>2. reviews'[t] \in Seq(ReviewRow)
    BY DEF ReviewTypeOK, TypeOK, TaskOK
  <2> QED
    BY <1>1, <2>1, <2>2 DEF ApprovedOutput
<1>4. Consumed(t) /\ ledger[t] = {"reserve"}
  BY <1>1 DEF DecisionCommits, SettledReviewInv, SettledInv, SettledOnce
<1>5. CreditStep
  BY <1>4 DEF CreditStep, Settles
<1>6. CreditInv'
  BY <1>0, <1>5, CreditKept DEF SettledReviewInv
<1>7. SettledInv'
  <2>1. ledger'[t] = {"reserve", "consume"} /\ \A s \in Tasks : s # t => ledger'[s] = ledger[s]
    BY <1>a, <1>4 DEF Consumed, Settle
  <2> QED
    BY <1>a, <1>2, <2>1 DEF SettledReviewInv, SettledInv, SettledOnce
<1>8. DeliveredInv'
  BY <1>a, <1>2 DEF SettledReviewInv, DeliveredInv
<1>9. SingleInv'
  <2>1. ASSUME NEW s \in Tasks PROVE UnderReview(s)'
    BY <1>0, <1>a, <1>2, <1>3 DEF SingleInv, UnderReview
  <2>2. ASSUME NEW c \in Decisions PROVE DecisionHolds(c)'
    <3>1. c = d /\ decision' = [decision EXCEPT ![d] = IdleDecision]
      BY <1>1 DEF DecisionCommits, SingleReviews
    <3>2. decision'[c].pc = "idle"
      BY <1>0, <3>1 DEF ReviewTypeOK, IdleDecision
    <3> QED
      BY <3>2 DEF DecisionHolds
  <2> QED
    BY <1>0, <1>2, <2>1, <2>2 DEF SingleInv
<1> QED
  BY <1>5, <1>6, <1>7, <1>8, <1>9 DEF SettledReviewInv

LEMMA SingleNext ==
  ASSUME SingleReviews, SettledReviewInv, [ReviewNext]_reviewVars
  PROVE  SettledReviewInv' /\ CreditStep
<1>0. TypeOK /\ SingleInv /\ ReviewTypeOK /\ ReviewTypeOK'
  BY ReviewTypeNext DEF SettledReviewInv, ReviewTypeOK
<1>1. CASE [Next]_vars /\ UNCHANGED decision
  <2>1. SettledInv' /\ DeliveredInv' /\ CreditInv' /\ CreditStep
    BY <1>0, <1>1, SettledNext, DeliveredNext, CreditNext, StepsOfCredits DEF SettledReviewInv
  <2>2. SingleInv'
    BY <1>1, SingleOfTasks
  <2> QED
    BY <1>0, <2>1, <2>2 DEF SettledReviewInv
<1>2. ASSUME NEW t \in Tasks, NEW i \in DOMAIN reviews[t], ClaimReview(t, i)
      PROVE  SettledReviewInv' /\ CreditStep
  BY <1>0, <1>2, SingleClaim DEF ClaimReview, CreditStep
<1>3. ASSUME NEW t \in Tasks, NEW i \in DOMAIN reviews[t],
             NEW d \in Decisions, ReadReview(d, t, i)
      PROVE  SettledReviewInv' /\ CreditStep
  BY <1>0, <1>3, SingleRead DEF ReadReview, vars, CreditStep
<1>4. ASSUME NEW d \in Decisions, CommitDecision(d) PROVE SettledReviewInv' /\ CreditStep
  BY <1>0, <1>4, SingleCommitKeeps
<1>5. ASSUME NEW d \in Decisions, AbortDecision(d) \/ DecisionLost(d)
      PROVE  SettledReviewInv' /\ CreditStep
  <2>1. UNCHANGED vars /\ decision' = [decision EXCEPT ![d] = IdleDecision]
    BY <1>5 DEF AbortDecision, DecisionLost
  <2>2. ASSUME NEW s \in Tasks PROVE UnderReview(s)'
    BY <1>0, <2>1 DEF SingleInv, UnderReview, vars, taskVars
  <2>3. ASSUME NEW c \in Decisions PROVE DecisionHolds(c)'
    <3>1. DecisionHolds(c) /\ decision'[c] \in {decision[c], IdleDecision}
      BY <1>0, <2>1 DEF SingleInv, ReviewTypeOK
    <3> QED
      BY <2>1, <3>1 DEF DecisionHolds, IdleDecision, vars, taskVars
  <2> QED
    BY <1>0, <2>1, <2>2, <2>3, UntouchedKeeps DEF Untouched, CreditStep, vars, taskVars
<1>6. ASSUME NEW d \in Decisions PROVE ~ EnqueueApproved(d)
  BY <1>0 DEF EnqueueApproved, SingleInv, DecisionHolds
<1>7. CASE UNCHANGED reviewVars
  BY <1>1, <1>7 DEF reviewVars
<1> QED
  BY <1>1, <1>2, <1>3, <1>4, <1>5, <1>6, <1>7 DEF ReviewNext, Decide

LEMMA SingleAlways ==
  ASSUME SingleReviews
  PROVE  ReviewSpec => []SettledReviewInv
<1>1. SettledReviewInv /\ [ReviewNext]_reviewVars => SettledReviewInv'
  BY SingleNext
<1> QED
  BY <1>1, SingleInitially, PTL DEF ReviewSpec

(* Tasks are settled once, accounts follow the ledger and what is          *)
(* published was approved, also with moderators, as long as they decide    *)
(* one review at a time (decideReview, cancelTask, succeed, fail).         *)
THEOREM ReviewsAreSettled ==
  ASSUME SingleReviews
  PROVE  ReviewSpec => []SettledReviews
<1>1. SettledReviewInv => SettledReviews
  <2> SUFFICES ASSUME SettledReviewInv PROVE SettledReviews
    OBVIOUS
  <2>1. SettledOnceReviewed
    BY DEF SettledReviewInv, SettledInv, SettledOnce, SettledOnceReviewed, SettlementKeys
  <2>2. QuotaMatchesLedger
    BY BalancesFollow DEF SettledReviewInv
  <2>3. PublishedIsApproved
    <3> SUFFICES ASSUME NEW t \in Tasks, results[t] = "approved", NEW i \in DOMAIN reviews[t]
                 PROVE  reviews[t][i].status = "approved"
      BY DEF PublishedIsApproved
    <3>1. reviews[t] \in {<<>>, <<ApprovedOutput>>}
      BY DEF SettledReviewInv, DeliveredInv, SingleInv, UnderReview
    <3> QED
      BY <3>1 DEF ApprovedOutput
  <2> QED
    BY <2>1, <2>2, <2>3 DEF SettledReviews
<1> QED
  BY <1>1, SingleAlways, PTL

(* Then, too, every end has the one settlement that belongs to it, and     *)
(* images are delivered exactly when their credits were consumed, by a     *)
(* worker or by a moderator (succeed, decideReview).                       *)
THEOREM ReviewsDeliverPaid ==
  ASSUME SingleReviews
  PROVE  ReviewSpec => [](SettledOnce /\ DeliveredIsPaid)
<1>1. SettledReviewInv => SettledOnce /\ DeliveredIsPaid
  BY DEF SettledReviewInv, SettledInv, SettledOnce, DeliveredInv, DeliveredIsPaid
<1> QED
  BY <1>1, SingleAlways, PTL

(* Then the moderators, too, keep to the state machine, and never change   *)
(* what they have decided.                                                 *)
THEOREM ReviewsAreOrderly ==
  ASSUME SingleReviews
  PROVE  ReviewSpec => ReviewsKeepToRules
<1>1. ASSUME SettledReviewInv, [ReviewNext]_reviewVars, NEW t \in Tasks
      PROVE  LegalMove(t) /\ DecidedOnce(t)
  <2>0. TypeOK /\ SingleInv /\ ReviewTypeOK
    BY <1>1 DEF SettledReviewInv, ReviewTypeOK
  <2>a. /\ status \in [Tasks -> TaskStatus \cup {"none", "deleted"}]
        /\ reviews \in [Tasks -> Seq(ReviewRow)]
    BY <2>0 DEF TypeOK, TaskOK
  <2>1. CASE [Next]_vars /\ UNCHANGED decision
    <3>1. RowStep(t) /\ SingleStep(t) /\ UnderReview(t)
      BY <2>0, <2>1, StepsOfTasks, SingleSteps DEF SingleInv
    <3>2. LegalMove(t)
      BY <2>a, <3>1, StatusType
      DEF RowStep, Stays, RowMoves, LegalMove, Row, allowedTransitions
    <3>3. DecidedOnce(t)
      BY <2>a, <3>1 DEF SingleStep, UnderReview, DecidedOnce, Unfinished
    <3> QED
      BY <3>2, <3>3
  <2>2. CASE UNCHANGED status /\ \A i \in DOMAIN reviews[t] :
               reviews[t][i].status \in {"approved", "rejected"} => reviews'[t][i] = reviews[t][i]
    BY <2>2 DEF LegalMove, DecidedOnce
  <2>3. ASSUME NEW s \in Tasks, NEW i \in DOMAIN reviews[s], ClaimReview(s, i)
        PROVE  \A j \in DOMAIN reviews[t] :
                 reviews[t][j].status \in {"approved", "rejected"} => reviews'[t][j] = reviews[t][j]
    <3>1. reviews[s][i].status = "open"
          /\ reviews' = [reviews EXCEPT ![s][i].status = "claimed"]
      BY <2>3 DEF ClaimReview
    <3>2. /\ \A j \in DOMAIN reviews[s] : j # i => reviews'[s][j] = reviews[s][j]
          /\ \A q \in Tasks : q # s => reviews'[q] = reviews[q]
      BY <2>0, <3>1, MarkedReviews
    <3> QED
      BY <3>1, <3>2
  <2>4. ASSUME NEW d \in Decisions, CommitDecision(d) PROVE LegalMove(t) /\ DecidedOnce(t)
    <3>1. PICK s \in Tasks : /\ DecisionCommits(d, s, 1, "approved", "succeeded")
                             /\ status[s] = "reviewing" /\ Len(reviews[s]) = 1
      BY <1>1, <2>4, SingleCommit
    <3>2. LegalMove(t)
      BY <2>a, <3>1 DEF DecisionCommits, LegalMove, Row, allowedTransitions
    <3>3. reviews[s][1].status \in {"open", "claimed"}
      BY <2>0, <3>1 DEF SingleInv, UnderReview
    <3>4. DecidedOnce(t)
      BY <2>a, <3>1, <3>3 DEF DecisionCommits, DecidedOnce
    <3> QED
      BY <3>2, <3>4
  <2>5. ASSUME \/ \E s \in Tasks : \E i \in DOMAIN reviews[s] :
                    \E d \in Decisions : ReadReview(d, s, i)
               \/ \E d \in Decisions : AbortDecision(d) \/ DecisionLost(d) \/ EnqueueApproved(d)
               \/ UNCHANGED reviewVars
        PROVE  UNCHANGED <<status, reviews>>
    BY <2>5 DEF ReadReview, AbortDecision, DecisionLost, EnqueueApproved, reviewVars,
       vars, taskVars
  <2>6. ASSUME NEW s \in Tasks, NEW i \in DOMAIN reviews[s], ClaimReview(s, i)
        PROVE  UNCHANGED status
    BY <2>6 DEF ClaimReview
  <2> QED
    BY <1>1, <2>1, <2>2, <2>3, <2>4, <2>5, <2>6 DEF ReviewNext, Decide
<1>2. SettledReviewInv /\ [ReviewNext]_reviewVars =>
        [\A t \in Tasks : LegalMove(t) /\ DecidedOnce(t)]_reviewVars
  BY <1>1
<1> QED
  BY <1>2, SingleAlways, PTL DEF ReviewSpec, ReviewsKeepToRules

(* And credits are those of the book of credits.                           *)
THEOREM ReviewsImplementBook ==
  ASSUME SingleReviews
  PROVE  ReviewSpec => ImplementsBook
<1>1. SettledReviewInv /\ [ReviewNext]_reviewVars => [Book!BookNext]_Book!bookVars
  BY SingleNext, StepsOfTheBook, SameBook DEF SettledReviewInv, ReviewTypeOK
<1>2. ReviewInit => Book!BookInit
  BY StartsAsBook, SameBook DEF ReviewInit
<1> QED
  BY <1>1, <1>2, SingleAlways, PTL DEF ReviewSpec, ImplementsBook, Book!BookSpec

=============================================================================
