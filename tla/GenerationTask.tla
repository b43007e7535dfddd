--------------------------- MODULE GenerationTask ---------------------------
(***************************************************************************)
(* A generation task from the request that creates it to its terminal      *)
(* status: the API's transactions on tasks, sessions and credits, the      *)
(* BullMQ job that carries the task, and the workers that execute it.      *)
(*                                                                         *)
(* Every database transaction of the code opens with a conditional UPDATE  *)
(* of the row it is about (or runs into a unique key), whose row lock is   *)
(* held until commit, so a transaction is one step here.  What happens     *)
(* between two transactions, calls to Redis or calls to the provider is    *)
(* interleaved freely.                                                     *)
(*                                                                         *)
(* A task stands for a pair (userId, idempotencyKey), which the database   *)
(* keeps unique; a repeated request names the same task.                   *)
(***************************************************************************)
EXTENDS Integers, FiniteSets, Sequences

CONSTANTS
  Users,
  Tasks,
  Sessions,
  Requests,       (* Threads of the API that create or replay tasks.      *)
  Workers,        (* Worker processes; each runs one job at a time.       *)
  Owner,          (* Owner[t]: the user who asked for task t.             *)
  SessionOf,      (* SessionOf[t]: the session task t is created in.      *)
  Images,         (* Images[t]: the number of images asked for.           *)
  FourK,          (* The tasks asked for in 4K.                           *)
  InitialQuota,   (* initialQuota of the repository, 100 in the code.     *)
  RetryLimit,     (* providerRetryLimit of the model configuration.       *)
  InputVerdicts,  (* What the moderator may say of a prompt ...           *)
  OutputVerdicts, (* ... and of an image.                                 *)
  Faults,         (* The faults the environment may inject.               *)
  None

Verdicts == {"approved", "review", "rejected"}

MaxImages == 8
MaxCost == 2 * MaxImages

ASSUME TaskAssumption ==
  /\ IsFiniteSet(Tasks)
  /\ Owner \in [Tasks -> Users]
  /\ SessionOf \in [Tasks -> Sessions]
  /\ Images \in [Tasks -> 1..MaxImages]
  /\ FourK \subseteq Tasks
  /\ InitialQuota \in Nat
  /\ RetryLimit \in Int
  /\ InputVerdicts \subseteq Verdicts
  /\ OutputVerdicts \subseteq Verdicts
  /\ Faults \subseteq {"crash", "stall", "db", "queue"}
  /\ None \notin Workers \cup Tasks

(* A session belongs to one user: createTask looks it up by its owner. *)
ASSUME SessionAssumption ==
  \A t1, t2 \in Tasks : SessionOf[t1] = SessionOf[t2] => Owner[t1] = Owner[t2]

VARIABLES
  session,        (* session[s]: the row of session s.                    *)
  deletes,        (* Sessions whose deletion found nothing active and     *)
                  (* whose row is about to be deleted.                    *)
  status,         (* status[t]: the task row's status column.             *)
  attempts,       (* attempts[t]: how often t was claimed by a worker.    *)
  attemptKey,     (* attemptKey[t]: n for lastAttemptKey = "<t>:n", or 0.  *)
  hasJobId,       (* The tasks whose queueJobId has been written back.    *)
  results,        (* results[t]: the moderation status of t's images.     *)
  reviews,        (* reviews[t]: t's rows of ModerationReview.            *)
  granted,        (* Users whose account and GRANT entry exist.           *)
  account,        (* account[u]: the QuotaAccount row of u.               *)
  ledger,         (* ledger[t]: t's QuotaLedgerEntry idempotency keys.    *)
  job,            (* job[t]: the BullMQ job whose jobId is t.             *)
  worker,         (* worker[w]: the step of process() w is at.            *)
  api             (* api[r]: the step of createTask() r is at.            *)

sessionVars == <<session, deletes>>
taskVars    == <<status, attempts, attemptKey, hasJobId, results, reviews>>
quotaVars   == <<granted, account, ledger>>
vars == <<sessionVars, taskVars, quotaVars, job, worker, api>>

-----------------------------------------------------------------------------
(* The task state machine of packages/core. *)

Terminal == {"succeeded", "partially_succeeded", "failed", "cancelled"}

allowedTransitions ==
  [queued     |-> {"generating", "cancelled", "failed"},
   generating |-> {"reviewing", "succeeded", "partially_succeeded", "failed",
                   "cancelled"},
   reviewing  |-> {"queued", "succeeded", "failed", "cancelled"},
   succeeded           |-> {},
   partially_succeeded |-> {},
   failed              |-> {},
   cancelled           |-> {}]

TaskStatus == DOMAIN allowedTransitions

(* A task row is absent before it is created and after it was deleted. *)
Row(t) == status[t] \in TaskStatus

Active(t) == status[t] \in {"queued", "generating"}

-----------------------------------------------------------------------------
(* Credits. *)

Cost == [t \in Tasks |-> Images[t] * (IF t \in FourK THEN 2 ELSE 1)]

SettlementKeys ==
  {"consume", "queue-release", "cancel-release", "failure-release",
   "manual-release"}

LedgerKeys == SettlementKeys \cup {"reserve"}

FreshAccount == [total |-> InitialQuota, available |-> InitialQuota, reserved |-> 0]

(* Mutant: ensureQuota resets the account it should leave alone.           *)
OpenedAfresh(u) == FreshAccount

(* The account row a transaction sees after ensureQuota. *)
Opened(u) == IF u \in granted THEN account[u] ELSE FreshAccount

(* Mutant: a user with any credits may go below zero.                      *)
AlmostAffordable(t) == Opened(Owner[t]).available > 0

Affordable(t) == Opened(Owner[t]).available >= Cost[t]

(* The database refuses an update that would make reserved negative; the   *)
(* other parts of the constraint cannot be broken by a settlement.         *)
CanSettle(t) == account[Owner[t]].reserved >= Cost[t]

(* Settle t's reservation, with or without giving its credits back.  The   *)
(* ledger entry is an upsert: an entry that exists already stays as it is, *)
(* while the balance is updated all the same.                              *)
Settle(t, key, refund) ==
  /\ account' = [account EXCEPT
       ![Owner[t]].reserved = @ - Cost[t],
       ![Owner[t]].available = @ + refund]
  /\ ledger' = [ledger EXCEPT ![t] = @ \cup {key}]
  /\ UNCHANGED granted

(* Mutants: nothing is consumed, what is consumed is given back, what is   *)
(* released is not.                                                        *)
NotConsumed(t)    == UNCHANGED quotaVars
GivenBack(t)      == Settle(t, "consume", Cost[t])
Withheld(t, by)   == Settle(t, by, 0)

Consumed(t)     == Settle(t, "consume", 0)
Released(t, by) == Settle(t, by, Cost[t])

(* getQuota, and createTask when the credits do not suffice: the account   *)
(* exists afterwards, and nothing else has changed.                        *)
OpenAccount(u) ==
  /\ u \notin granted
  /\ granted' = granted \cup {u}
  /\ account' = [account EXCEPT ![u] = FreshAccount]
  /\ UNCHANGED <<ledger, sessionVars, taskVars, job, worker, api>>

-----------------------------------------------------------------------------
(* Initially nothing has been asked for. *)

NoJob      == [state |-> "absent", made |-> 0, max |-> 1, stalled |-> 0,
               owner |-> None]
IdleWorker == [pc |-> "idle", task |-> None, attempt |-> 0, max |-> 1]
IdleApi    == [pc |-> "idle", task |-> None]

Init ==
  /\ session = [s \in Sessions |-> "none"]
  /\ deletes = {}
  /\ status = [t \in Tasks |-> "none"]
  /\ attempts = [t \in Tasks |-> 0]
  /\ attemptKey = [t \in Tasks |-> 0]
  /\ hasJobId = {}
  /\ results = [t \in Tasks |-> "none"]
  /\ reviews = [t \in Tasks |-> <<>>]
  /\ granted = {}
  /\ account = [u \in Users |-> [total |-> 0, available |-> 0, reserved |-> 0]]
  /\ ledger = [t \in Tasks |-> {}]
  /\ job = [t \in Tasks |-> NoJob]
  /\ worker = [w \in Workers |-> IdleWorker]
  /\ api = [r \in Requests |-> IdleApi]

-----------------------------------------------------------------------------
(* The queue, as BullMQ keeps it: one record per jobId.                    *)

(* queueAttemptsForRetryLimit                                              *)
QueueAttempts(retryLimit) ==
  1 + (CASE retryLimit < 0 -> 0 [] retryLimit > 5 -> 5 [] OTHER -> retryLimit)

NewJob(retryLimit) ==
  [NoJob EXCEPT !.state = "waiting", !.max = QueueAttempts(retryLimit)]

(* Mutant: the job is not identified by its task.                          *)
AddJobAnew(t, retryLimit) == job' = [job EXCEPT ![t] = NewJob(retryLimit)]

(* Adding a job whose jobId has a record, of whatever state, does nothing. *)
AddJob(t, retryLimit) ==
  job' = IF job[t].state = "absent"
         THEN [job EXCEPT ![t] = NewJob(retryLimit)]
         ELSE job

TakeJob(w, t) ==
  /\ worker[w].pc = "idle"
  /\ job[t].state = "waiting"
  /\ job' = [job EXCEPT ![t].state = "active", ![t].owner = w]
  /\ worker' = [worker EXCEPT ![w] = [pc |-> "start", task |-> t,
                                      attempt |-> job[t].made + 1, max |-> job[t].max]]
  /\ UNCHANGED <<sessionVars, taskVars, quotaVars, api>>

Owns(w) == job[worker[w].task].owner = w

(* process() has returned, or thrown: the job is completed, or retried     *)
(* while attempts remain, unless the worker's lock on it has been lost.    *)
FinishJob(w) ==
  LET t == worker[w].task IN
  /\ worker[w].pc = "return"
  /\ job' = IF Owns(w)
            THEN [job EXCEPT ![t].state = "completed", ![t].owner = None]
            ELSE job
  /\ worker' = [worker EXCEPT ![w] = IdleWorker]
  /\ UNCHANGED <<sessionVars, taskVars, quotaVars, api>>

RejectJob(w) ==
  LET t == worker[w].task
      again == job[t].made + 1 < job[t].max
  IN
  /\ worker[w].pc = "throw"
  /\ job' = IF Owns(w)
            THEN [job EXCEPT ![t].state = IF again THEN "waiting" ELSE "failed",
                             ![t].made = @ + 1,
                             ![t].owner = None]
            ELSE job
  /\ worker' = [worker EXCEPT ![w] = IdleWorker]
  /\ UNCHANGED <<sessionVars, taskVars, quotaVars, api>>

(* The lock of an active job expires: its owner is gone, or stalls.  The   *)
(* job is handed out once more under the same attempt number.              *)
StallJob(t) ==
  /\ job[t].state = "active"
  /\ job[t].owner = None \/ "stall" \in Faults
  /\ job' = [job EXCEPT
       ![t].state = IF job[t].stalled = 0 THEN "waiting" ELSE "failed",
       ![t].stalled = 1,
       ![t].owner = None]
  /\ UNCHANGED <<sessionVars, taskVars, quotaVars, worker, api>>

(* removeOnComplete and removeOnFail: only the latest records are kept.    *)
EvictJob(t) ==
  /\ job[t].state \in {"completed", "failed"}
  /\ job' = [job EXCEPT ![t] = NoJob]
  /\ UNCHANGED <<sessionVars, taskVars, quotaVars, worker, api>>

CrashWorker(w) ==
  /\ "crash" \in Faults
  /\ worker[w].pc # "idle"
  /\ worker' = [worker EXCEPT ![w] = IdleWorker]
  /\ job' = [t \in Tasks |-> IF job[t].owner = w THEN [job[t] EXCEPT !.owner = None]
                                                 ELSE job[t]]
  /\ UNCHANGED <<sessionVars, taskVars, quotaVars, api>>

-----------------------------------------------------------------------------
(* Requests to the API.                                                    *)

(* createTask of an unused idempotency key.  The key of a deleted task can *)
(* not be used again: its ledger entry outlives it.                        *)
CreateTask(r, t) ==
  LET u == Owner[t]
      row == Opened(u)
  IN
  /\ api[r].pc = "idle"
  /\ status[t] = "none"
  /\ session[SessionOf[t]] # "deleted"
  /\ Affordable(t)
  /\ session' = [session EXCEPT ![SessionOf[t]] = "open"]
  /\ status' = [status EXCEPT ![t] = "queued"]
  /\ granted' = granted \cup {u}
  /\ account' = [account EXCEPT ![u] =
       [total |-> row.total, available |-> row.available - Cost[t],
        reserved |-> row.reserved + Cost[t]]]
  /\ ledger' = [ledger EXCEPT ![t] = @ \cup {"reserve"}]
  /\ api' = [api EXCEPT ![r] = [pc |-> "enqueue", task |-> t]]
  /\ UNCHANGED <<deletes, attempts, attemptKey, hasJobId, results, reviews, job, worker>>

(* createTask of a key that is taken: the task is enqueued once more if    *)
(* nothing shows that it has been.                                         *)
ReplayTask(r, t) ==
  /\ api[r].pc = "idle"
  /\ status[t] = "queued"
  /\ t \notin hasJobId
  /\ api' = [api EXCEPT ![r] = [pc |-> "enqueue", task |-> t]]
  /\ UNCHANGED <<sessionVars, taskVars, quotaVars, job, worker>>

(* Redis may take the job and the answer get lost.                         *)
Enqueue(r) ==
  /\ api[r].pc = "enqueue"
  /\ \/ /\ AddJob(api[r].task, RetryLimit)
        /\ api' = [api EXCEPT ![r].pc = "record"]
     \/ /\ "queue" \in Faults
        /\ AddJob(api[r].task, RetryLimit) \/ UNCHANGED job
        /\ api' = [api EXCEPT ![r].pc = "unqueue"]
  /\ UNCHANGED <<sessionVars, taskVars, quotaVars, worker>>

(* setQueueJobId, whose failure is only logged.                            *)
RecordJobId(r) ==
  LET t == api[r].task IN
  /\ api[r].pc = "record"
  /\ \/ Row(t) /\ hasJobId' = hasJobId \cup {t}
     \/ ~Row(t) /\ UNCHANGED hasJobId
     \/ "db" \in Faults /\ UNCHANGED hasJobId
  /\ api' = [api EXCEPT ![r] = IdleApi]
  /\ UNCHANGED <<sessionVars, status, attempts, attemptKey, results, reviews, quotaVars,
                 job, worker>>

FailQueuedTask(r) ==
  LET t == api[r].task
      fails == status[t] = "queued" /\ CanSettle(t) /\ "queue-release" \notin ledger[t]
  IN
  /\ api[r].pc = "unqueue"
  /\ \/ /\ fails
        /\ status' = [status EXCEPT ![t] = "failed"]
        /\ Released(t, "queue-release")
     \/ /\ ~fails \/ "db" \in Faults
        /\ UNCHANGED <<status, quotaVars>>
  /\ api' = [api EXCEPT ![r] = IdleApi]
  /\ UNCHANGED <<sessionVars, attempts, attemptKey, hasJobId, results, reviews, job, worker>>

(* The API process dies, or createTask never learns that it committed.     *)
RequestLost(r) ==
  /\ \/ "crash" \in Faults /\ api[r].pc # "idle"
     \/ "db" \in Faults /\ api[r].pc = "enqueue"
  /\ api' = [api EXCEPT ![r] = IdleApi]
  /\ UNCHANGED <<sessionVars, taskVars, quotaVars, job, worker>>

CancelTask(t) ==
  /\ Active(t)
  /\ CanSettle(t)
  /\ "cancel-release" \notin ledger[t]
  /\ status' = [status EXCEPT ![t] = "cancelled"]
  /\ Released(t, "cancel-release")
  /\ UNCHANGED <<sessionVars, attempts, attemptKey, hasJobId, results, reviews, job,
                 worker, api>>

(* deleteSession reads the session and deletes it outside a transaction.   *)
CheckSessionIdle(s) ==
  /\ session[s] = "open"
  /\ s \notin deletes
  /\ \A t \in Tasks : SessionOf[t] = s => ~Active(t)
  /\ deletes' = deletes \cup {s}
  /\ UNCHANGED <<session, taskVars, quotaVars, job, worker, api>>

(* The rows that refer to the session go with it; ledger entries stay.     *)
DeleteSessionRow(s) ==
  LET gone(t) == SessionOf[t] = s /\ Row(t) IN
  /\ s \in deletes
  /\ session' = [session EXCEPT ![s] = "deleted"]
  /\ deletes' = deletes \ {s}
  /\ status' = [t \in Tasks |-> IF gone(t) THEN "deleted" ELSE status[t]]
  /\ attempts' = [t \in Tasks |-> IF gone(t) THEN 0 ELSE attempts[t]]
  /\ attemptKey' = [t \in Tasks |-> IF gone(t) THEN 0 ELSE attemptKey[t]]
  /\ hasJobId' = {t \in hasJobId : ~gone(t)}
  /\ results' = [t \in Tasks |-> IF gone(t) THEN "none" ELSE results[t]]
  /\ reviews' = [t \in Tasks |-> IF gone(t) THEN <<>> ELSE reviews[t]]
  /\ UNCHANGED <<quotaVars, job, worker, api>>

-----------------------------------------------------------------------------
(* A worker's process(), one step per call to the database or a provider.  *)

(* w goes on with step pc. *)
Goto(w, pc) == worker' = [worker EXCEPT ![w].pc = pc]

(* A transaction that commits, but whose answer may be lost. *)
Answered(w, ok, lost) ==
  Goto(w, ok) \/ ("db" \in Faults /\ Goto(w, lost))

(* Mutants: start() takes any task, takes an attempt twice, or takes only  *)
(* tasks no attempt has been made at.                                      *)
ClaimsAny(t, n)    == Row(t) /\ attemptKey[t] # n
ClaimsAgain(t, n)  == Active(t)
ClaimsQueued(t, n) == status[t] = "queued" /\ attemptKey[t] # n

Claims(t, n) == Active(t) /\ attemptKey[t] # n

Start(w) ==
  LET t == worker[w].task
      n == worker[w].attempt
  IN
  /\ worker[w].pc = "start"
  /\ \/ /\ Claims(t, n)
        /\ status' = [status EXCEPT ![t] = "generating"]
        /\ attempts' = [attempts EXCEPT ![t] = @ + 1]
        /\ attemptKey' = [attemptKey EXCEPT ![t] = n]
        /\ Answered(w, "moderateInput", "throw")
     \/ /\ ~Claims(t, n)
        /\ UNCHANGED <<status, attempts, attemptKey>>
        /\ Answered(w, "return", "throw")
  /\ UNCHANGED <<sessionVars, hasJobId, results, reviews, quotaVars, job, api>>

OpenReview(stage) == [stage |-> stage, status |-> "open"]

(* The prompt is judged and the verdict recorded, if the task still runs;  *)
(* the work goes on in either case.                                        *)
ModerateInput(w) ==
  LET t == worker[w].task
      then == [approved |-> "generate", review |-> "holdInput", rejected |-> "reject"]
  IN
  /\ worker[w].pc = "moderateInput"
  /\ \E v \in InputVerdicts :
       /\ reviews' = IF v = "review" /\ status[t] = "generating"
                     THEN [reviews EXCEPT ![t] = Append(@, OpenReview("input"))]
                     ELSE reviews
       /\ Answered(w, then[v], "fail")
  /\ UNCHANGED <<sessionVars, status, attempts, attemptKey, hasJobId, results, quotaVars,
                 job, api>>

Generate(w) ==
  /\ worker[w].pc = "generate"
  /\ Goto(w, "moderateOutput")
  /\ UNCHANGED <<sessionVars, taskVars, quotaVars, job, api>>

ModerateOutput(w) ==
  LET then == [approved |-> "succeed", review |-> "holdOutput", rejected |-> "reject"]
  IN
  /\ worker[w].pc = "moderateOutput"
  /\ \E v \in OutputVerdicts : Answered(w, then[v], "fail")
  /\ UNCHANGED <<sessionVars, taskVars, quotaVars, job, api>>

OutputReviews(t) == [i \in 1..Images[t] |-> OpenReview("output")]

(* holdForReview; a held output comes with its images and their reviews.   *)
HoldForReview(w) ==
  LET t == worker[w].task
      output == worker[w].pc = "holdOutput"
      opened == IF output THEN OutputReviews(t) ELSE <<>>
  IN
  /\ worker[w].pc \in {"holdInput", "holdOutput"}
  /\ \/ /\ status[t] = "generating"
        /\ status' = [status EXCEPT ![t] = "reviewing"]
        /\ results' = IF output THEN [results EXCEPT ![t] = "pending"] ELSE results
        /\ reviews' = [reviews EXCEPT ![t] = @ \o opened]
     \/ /\ status[t] # "generating"
        /\ UNCHANGED <<status, results, reviews>>
  /\ Answered(w, "return", "fail")
  /\ UNCHANGED <<sessionVars, attempts, attemptKey, hasJobId, quotaVars, job, api>>

Succeed(w) ==
  LET t == worker[w].task
      running == status[t] = "generating"
  IN
  /\ worker[w].pc = "succeed"
  /\ \/ /\ running /\ CanSettle(t)
        /\ status' = [status EXCEPT ![t] = "succeeded"]
        /\ results' = [results EXCEPT ![t] = "approved"]
        /\ Consumed(t)
        /\ Answered(w, "return", "fail")
     \/ /\ ~running \/ ~CanSettle(t)
        /\ UNCHANGED <<status, results, quotaVars>>
        /\ IF running THEN Goto(w, "fail") ELSE Answered(w, "return", "fail")
  /\ UNCHANGED <<sessionVars, attempts, attemptKey, hasJobId, reviews, job, api>>

(* fail, called for a rejection ("reject") or from the handler of what     *)
(* went wrong before ("fail"); only in the latter an error gets out.       *)
Fail(w) ==
  LET t == worker[w].task
      after == IF worker[w].pc = "reject" THEN "fail" ELSE "throw"
  IN
  /\ worker[w].pc \in {"reject", "fail"}
  /\ \/ /\ Active(t) /\ CanSettle(t)
        /\ status' = [status EXCEPT ![t] = "failed"]
        /\ Released(t, "failure-release")
        /\ Answered(w, "return", after)
     \/ /\ ~Active(t) \/ ~CanSettle(t)
        /\ UNCHANGED <<status, quotaVars>>
        /\ IF Active(t) THEN Goto(w, after) ELSE Answered(w, "return", after)
  /\ UNCHANGED <<sessionVars, attempts, attemptKey, hasJobId, results, reviews, job, api>>

(* Mutant: one attempt too many is left to the queue.                      *)
RetriesTooOften(w) == worker[w].attempt <= worker[w].max

Retries(w) == worker[w].attempt < worker[w].max

(* The moderator or the provider fails: worth another attempt, or not.     *)
ProviderError(w) ==
  /\ worker[w].pc \in {"moderateInput", "generate", "moderateOutput"}
  /\ \/ Retries(w) /\ Goto(w, "throw")
     \/ Goto(w, "fail")
  /\ UNCHANGED <<sessionVars, taskVars, quotaVars, job, api>>

(* The images cannot be stored, or are not as many as were asked for.      *)
PersistError(w) ==
  /\ worker[w].pc \in {"holdOutput", "succeed"}
  /\ Goto(w, "fail")
  /\ UNCHANGED <<sessionVars, taskVars, quotaVars, job, api>>

(* A transaction fails and is rolled back.                                 *)
StoreError(w) ==
  /\ "db" \in Faults
  /\ \/ worker[w].pc \in {"start", "fail"} /\ Goto(w, "throw")
     \/ /\ worker[w].pc \in {"moderateInput", "holdInput", "moderateOutput",
                             "holdOutput", "succeed", "reject"}
        /\ Goto(w, "fail")
  /\ UNCHANGED <<sessionVars, taskVars, quotaVars, job, api>>

-----------------------------------------------------------------------------
Process(w) ==
  \/ Start(w) \/ ModerateInput(w) \/ Generate(w) \/ ModerateOutput(w)
  \/ HoldForReview(w) \/ Succeed(w) \/ Fail(w)
  \/ ProviderError(w) \/ PersistError(w) \/ StoreError(w)

(* The steps a request to createTask takes once its transaction committed. *)
Finish(r) == Enqueue(r) \/ RecordJobId(r) \/ FailQueuedTask(r)

Next ==
  \/ \E u \in Users : OpenAccount(u)
  \/ \E r \in Requests :
       \/ \E t \in Tasks : CreateTask(r, t) \/ ReplayTask(r, t)
       \/ Finish(r) \/ RequestLost(r)
  \/ \E t \in Tasks : CancelTask(t) \/ StallJob(t) \/ EvictJob(t)
  \/ \E s \in Sessions : CheckSessionIdle(s) \/ DeleteSessionRow(s)
  \/ \E w \in Workers :
       \/ \E t \in Tasks : TakeJob(w, t)
       \/ Process(w) \/ FinishJob(w) \/ RejectJob(w) \/ CrashWorker(w)

Spec == Init /\ [][Next]_vars

(* Calls return: every request and every job taken is carried on with, and *)
(* the queue hands out what waits.  Nobody has to create, cancel or delete *)
(* anything, and nothing has to fail.                                      *)
Fairness ==
  /\ \A r \in Requests : WF_vars(Finish(r))
  /\ \A w \in Workers : WF_vars(Process(w) \/ FinishJob(w) \/ RejectJob(w))
  /\ \A t \in Tasks : WF_vars(StallJob(t) /\ job[t].owner = None)
  /\ WF_vars(\E w \in Workers, t \in Tasks : TakeJob(w, t))

FairSpec == Spec /\ Fairness

-----------------------------------------------------------------------------
(* Properties.                                                             *)

(* The rows, jobs, workers and requests have the values the code can give  *)
(* them.                                                                   *)
ReviewRow == [stage : {"input", "output"},
              status : {"open", "claimed", "approved", "rejected"}]

AccountOK ==
  /\ granted \subseteq Users
  /\ account \in [Users -> [total : Int, available : Int, reserved : Int]]
  /\ ledger \in [Tasks -> SUBSET LedgerKeys]

JobOK ==
  job \in [Tasks -> [state : {"absent", "waiting", "active", "completed", "failed"},
                     made : Nat, max : 1..6, stalled : {0, 1},
                     owner : Workers \cup {None}]]

TaskOK ==
  /\ session \in [Sessions -> {"none", "open", "deleted"}]
  /\ deletes \subseteq Sessions
  /\ status \in [Tasks -> TaskStatus \cup {"none", "deleted"}]
  /\ attempts \in [Tasks -> Nat]
  /\ attemptKey \in [Tasks -> Nat]
  /\ hasJobId \subseteq Tasks
  /\ results \in [Tasks -> {"none", "pending", "approved", "rejected"}]
  /\ reviews \in [Tasks -> Seq(ReviewRow)]

Running == {"moderateInput", "holdInput", "generate", "moderateOutput",
            "holdOutput", "succeed", "reject", "fail"}

WorkerOK ==
  worker \in [Workers -> {IdleWorker} \cup
                [pc : {"start", "return", "throw"} \cup Running,
                 task : Tasks, attempt : Nat, max : 1..6]]

ApiOK ==
  api \in [Requests -> {IdleApi} \cup
             [pc : {"enqueue", "record", "unqueue"}, task : Tasks]]

TypeOK == TaskOK /\ AccountOK /\ JobOK /\ WorkerOK /\ ApiOK

(* What a task's entries in the ledger say became of its price.            *)
Phase == [t \in Tasks |->
  CASE ledger[t] = {}        -> "unpriced"
    [] ledger[t] = {"reserve"} -> "reserved"
    [] "consume" \in ledger[t] -> "consumed"
    [] OTHER                 -> "released"]

Book == INSTANCE QuotaBook WITH phase <- Phase

(* A task's status and its ledger entries tell the same story: nothing is  *)
(* settled before the task has ended, and exactly once when it has, however *)
(* cancellation, failure, retries and late answers race.                   *)
SettledOnce ==
  \A t \in Tasks :
    /\ status[t] = "none" => ledger[t] = {}
    /\ status[t] \in {"queued", "generating", "reviewing"} => ledger[t] = {"reserve"}
    /\ status[t] = "succeeded" => ledger[t] = {"reserve", "consume"}
    /\ status[t] = "cancelled" => ledger[t] = {"reserve", "cancel-release"}
    /\ status[t] = "failed" =>
         \E key \in {"queue-release", "failure-release"} : ledger[t] = {"reserve", key}
    /\ status[t] = "deleted" =>
         \E key \in SettlementKeys : ledger[t] \in {{"reserve"}, {"reserve", key}}

(* The balances that the transactions update one by one are at all times   *)
(* those that the ledger adds up to, which is what the periodic            *)
(* reconciliation recomputes.                                              *)
QuotaMatchesLedger ==
  \A u \in Users : account[u] = Book!Statement(u, Phase, granted)

(* The constraint the database puts on an account never has to refuse a    *)
(* settlement: what is reserved covers what is yet to be settled.          *)
NeverOverdrawn ==
  /\ \A u \in Users : /\ account[u].available >= 0
                      /\ account[u].reserved >= 0
                      /\ account[u].available + account[u].reserved <= account[u].total
  /\ \A t \in Tasks : Active(t) => CanSettle(t)

(* A task only ever goes along an edge of the state machine of             *)
(* packages/core, whoever moves it, or is deleted with its session.        *)
LegalMove(t) ==
  Row(t) /\ status'[t] \notin {status[t], "deleted"} =>
    status'[t] \in allowedTransitions[status[t]]

LegalTransitions == [][\A t \in Tasks : LegalMove(t)]_vars

(* Images are delivered exactly with the credits for them spent.           *)
DeliveredIsPaid ==
  \A t \in Tasks :
    /\ results[t] = "approved" => status[t] = "succeeded" /\ "consume" \in ledger[t]
    /\ status[t] = "succeeded" => results[t] = "approved"
    /\ results[t] = "pending" => status[t] = "reviewing"

(* No two workers execute a task at the same time, whatever jobs the queue *)
(* hands out twice: start() lets an attempt key pass only once.            *)
SingleExecution ==
  \A v, w \in Workers :
    worker[v].pc \in Running /\ worker[w].pc \in Running /\ worker[v].task = worker[w].task
      => v = w

(* The attempts counted are no more than the queue makes: delivering an     *)
(* attempt again neither executes nor counts it again.                     *)
AttemptsCountedOnce ==
  \A t \in Tasks : attempts[t] <= QueueAttempts(RetryLimit)

(* The attempt that the job would make next is not the one already begun.  *)
Accepted(t) == job[t].made + 1 # attemptKey[t]

(* As long as no process dies, a task that is not finished is in somebody's *)
(* hands: a request that will enqueue or fail it, a job that a worker will *)
(* accept, or the worker that executes it.                                 *)
InGoodHands ==
  \A t \in Tasks : Active(t) =>
    \/ \E r \in Requests : api[r].task = t /\ api[r].pc \in {"enqueue", "unqueue"}
    \/ job[t].state = "waiting" /\ Accepted(t)
    \/ \E w \in Workers : /\ job[t].owner = w /\ worker[w].task = t
                          /\ \/ worker[w].pc = "start" /\ Accepted(t)
                             \/ worker[w].pc \in Running
                             \/ /\ worker[w].pc = "throw"
                                /\ job[t].made + 1 < job[t].max

(* Every task that was queued is settled, put up for review, or deleted.   *)
EventuallySettled ==
  \A t \in Tasks : Active(t) ~> ~Active(t)

(* A session is not deleted while one of its tasks is queued or running    *)
(* (deleteSession).  No run checks it: it does not hold, see README.md.     *)
NoActiveDeleted ==
  [][\A t \in Tasks : Active(t) => status'[t] # "deleted"]_vars

(* Credits and phases of tasks behave as the book of credits says.         *)
ImplementsBook == Book!BookSpec

=============================================================================
