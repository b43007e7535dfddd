---------------------------- MODULE Reconciliation ----------------------------
(***************************************************************************)
(* The worker's quota reconciliation: once per window some worker compares *)
(* every account with its tasks and its ledger, adds the settlements that  *)
(* are missing and records what it cannot explain.  Its reads are          *)
(* statements of their own while tasks are created, settled and deleted;   *)
(* each repair is a transaction that reads its task and ledger again.  One *)
(* account is modelled: the accounts are scanned one after the other and   *)
(* nothing read for one is used for the next.                              *)
(***************************************************************************)
EXTENDS Tally

CONSTANTS
  GenerationTasks, TotalCost, (* The tasks of the account, their prices.  *)
  Granted,        (* The credits granted to it.                           *)
  Workers,
  MaxWindow,      (* BOUND: windows of time.                              *)
  MaxFaults,      (* BOUND: settlements that go missing.                  *)
  MaxCrashes,     (* BOUND: workers that die during a run.                *)
  NoTask

ASSUME ReconciliationAssumption ==
  /\ IsFiniteSet(GenerationTasks) /\ NoTask \notin GenerationTasks
  /\ TotalCost \in [GenerationTasks -> Nat \ {0}]
  /\ Granted \in Nat /\ MaxWindow \in Nat \ {0} /\ MaxFaults \in Nat /\ MaxCrashes \in Nat

VARIABLES
  status,         (* status[t]: "NEW" before it exists, "DELETED" after.  *)
  balance,        (* The account's available and reserved credits.        *)
  entries,        (* Its ledger but for the grant.                        *)
  window,         (* The window the time is in.                           *)
  run,            (* run[w]: the status of window w's run, "NONE" before. *)
  worker,         (* worker[k]: what worker k has read and does next.     *)
  repairs,        (* Ghost: <<run, task>> for every repair made.          *)
  faults, crashes

system == <<status, balance, entries>>
reconciliationVars == <<system, window, run, worker, repairs, faults, crashes>>

(* QUEUED stands for GENERATING too: nothing here tells them apart. *)
Active == {"QUEUED"}

Refused == {"FAILED", "CANCELLED"}
Ended == {"SUCCEEDED", "FAILED", "CANCELLED"}
Statuses == Ended \cup Active \cup {"NEW", "REVIEWING", "DELETED"}

Idle == [at |-> "idle", window |-> 0, seen |-> {}, held |-> 0, task |-> NoTask, kind |-> "none"]

ReconciliationInit ==
  /\ status = [t \in GenerationTasks |-> "NEW"]
  /\ balance = [available |-> Granted, reserved |-> 0]
  /\ entries = {}
  /\ window = 1
  /\ run = [w \in 1..MaxWindow |-> "NONE"]
  /\ worker = [k \in Workers |-> Idle]
  /\ repairs = {}
  /\ faults = 0
  /\ crashes = 0

Entry(type, t, key) == [type |-> type, task |-> t, key |-> key]

(* Mutant: an entry is looked for under the key a repair would write.      *)
HasOwnEntry(type, t) ==
  status[t] # "DELETED" /\ \E e \in entries :
    e.type = type /\ e.task = t /\ e.key # <<"cancel-release", t>>

(* The entries of a deleted task stay in the ledger and name no task. *)
HasEntry(type, t) ==
  status[t] # "DELETED" /\ \E e \in entries : e.type = type /\ e.task = t

Spent(led, type) == Tally([e \in {x \in led : x.type = type} |-> TotalCost[e.task]])

(* The balances a ledger adds up to. *)
Expected(led) ==
  [available |-> Granted - Spent(led, "RESERVE") + Spent(led, "RELEASE"),
   reserved |-> Spent(led, "RESERVE") - Spent(led, "CONSUME") - Spent(led, "RELEASE")]

-----------------------------------------------------------------------------
(* The pipeline: GenerationTask's transactions, of which one may leave out *)
(* its ledger entry, or all it does to the account.                        *)

Losses == {"nothing", "entry", "all"}

CountFault(lost) ==
  IF lost = "nothing" THEN UNCHANGED faults
  ELSE faults < MaxFaults /\ faults' = faults + 1

Created(t, lost) ==
  /\ lost # "all"
  /\ status[t] = "NEW"
  /\ balance.available >= TotalCost[t]
  /\ status' = [status EXCEPT ![t] = "QUEUED"]
  /\ balance' = [available |-> balance.available - TotalCost[t],
                 reserved |-> balance.reserved + TotalCost[t]]
  /\ entries' = IF lost = "entry" THEN entries
                ELSE entries \cup {Entry("RESERVE", t, <<"reserve", t>>)}
  /\ CountFault(lost)
  /\ UNCHANGED <<window, run, worker, repairs, crashes>>

HeldForReview(t) ==
  /\ status[t] = "QUEUED"
  /\ status' = [status EXCEPT ![t] = "REVIEWING"]
  /\ UNCHANGED <<balance, entries, window, run, worker, repairs, faults, crashes>>

TaskEnds(t, outcome, lost) ==
  LET back == IF outcome = "SUCCEEDED" THEN 0 ELSE TotalCost[t]
  IN
  /\ status[t] \in Active \cup {"REVIEWING"}
  /\ status' = [status EXCEPT ![t] = outcome]
  /\ lost # "all" => balance.reserved >= TotalCost[t]
  /\ balance' = IF lost = "all" THEN balance
                ELSE [available |-> balance.available + back,
                      reserved |-> balance.reserved - TotalCost[t]]
  /\ entries' = entries \cup
       IF lost # "nothing" THEN {}
       ELSE IF outcome = "SUCCEEDED" THEN {Entry("CONSUME", t, <<"consume", t>>)}
       ELSE IF outcome = "FAILED" THEN {Entry("RELEASE", t, <<"failure-release", t>>)}
       ELSE {Entry("RELEASE", t, <<"cancel-release", t>>)}
  /\ CountFault(lost)
  /\ UNCHANGED <<window, run, worker, repairs, crashes>>

SessionDeleted(t) ==
  /\ status[t] \in Ended
  /\ status' = [status EXCEPT ![t] = "DELETED"]
  /\ UNCHANGED <<balance, entries, window, run, worker, repairs, faults, crashes>>

-----------------------------------------------------------------------------
(* A run.                                                                  *)

TimePasses ==
  /\ window < MaxWindow
  /\ window' = window + 1
  /\ UNCHANGED <<system, run, worker, repairs, faults, crashes>>

Step(k, next) == worker' = [worker EXCEPT ![k] = next]

(* The unique window key: the run is created by the one who inserts it,    *)
(* and everyone else gets its summary.                                     *)
AcquiresRun(w) == run[w] = "NONE"

ClaimRun(k) ==
  /\ worker[k].at = "idle"
  /\ AcquiresRun(window)
  /\ run' = [run EXCEPT ![window] = "RUNNING"]
  /\ Step(k, [Idle EXCEPT !.at = "scan", !.window = window])
  /\ UNCHANGED <<system, window, repairs, faults, crashes>>

(* The entry a task must have in the ledger; none while it is reviewed. *)
LedgerTypeOf(s) ==
  CASE s \in Active -> "RESERVE"
    [] s = "SUCCEEDED" -> "CONSUME"
    [] s \in Refused -> "RELEASE"
    [] OTHER -> "none"

(* What the tasks in state A have reserved. *)
Reserved(A) == Tally([t \in {x \in GenerationTasks : status[x] \in A} |-> TotalCost[t]])

(* The scan notes which entry each task must have, and what the active     *)
(* ones have reserved; a task under review is not one of them.             *)
ScanTasks(k) ==
  /\ worker[k].at = "scan"
  /\ Step(k, [worker[k] EXCEPT !.at = "check", !.held = Reserved(Active),
       !.seen = {x \in GenerationTasks \X {"RESERVE", "CONSUME", "RELEASE"} : x[2] = LedgerTypeOf(status[x[1]])}])
  /\ UNCHANGED <<system, window, run, repairs, faults, crashes>>

(* A task in order is passed over; so is one whose reservation is missing, *)
(* which is only recorded.  A missing settlement is repaired.              *)
CheckTask(k, t, type) ==
  LET rest == [worker[k] EXCEPT !.seen = @ \ {<<t, type>>}]
  IN
  /\ worker[k].at = "check"
  /\ <<t, type>> \in worker[k].seen
  /\ IF HasEntry(type, t) \/ type = "RESERVE" THEN Step(k, rest)
     ELSE Step(k, [rest EXCEPT !.at = "repair", !.task = t, !.kind = type])
  /\ UNCHANGED <<system, window, run, repairs, faults, crashes>>

FinishFinding(k) == Step(k, [worker[k] EXCEPT !.at = "check", !.task = NoTask, !.kind = "none"])

(* The repair's transaction reads the task again, then the ledger.         *)
StillEnded(k) ==
  LET t == worker[k].task
  IN  IF worker[k].kind = "CONSUME" THEN status[t] = "SUCCEEDED" ELSE status[t] \in Refused

RepairReadsTask(k) ==
  /\ worker[k].at = "repair"
  /\ IF StillEnded(k)
     THEN Step(k, [worker[k] EXCEPT !.at = "reread"])
     ELSE FinishFinding(k)
  /\ UNCHANGED <<system, window, run, repairs, faults, crashes>>

InOrderByNow(k) == HasEntry(worker[k].kind, worker[k].task)

RepairReadsLedger(k) ==
  /\ worker[k].at = "reread"
  /\ IF InOrderByNow(k)
     THEN FinishFinding(k)
     ELSE Step(k, [worker[k] EXCEPT !.at = "write"])
  /\ UNCHANGED <<system, window, run, repairs, faults, crashes>>

(* An entry's key is written once, and its task must exist; otherwise the  *)
(* transaction is aborted, and the whole run with it.                      *)
Refuses(k, key) ==
  (\E e \in entries : e.key = key) \/ status[worker[k].task] = "DELETED"

EndRun(k, s) ==
  /\ run' = [run EXCEPT ![worker[k].window] = s]
  /\ Step(k, Idle)

(* What is reserved must exceed what the tasks that were active need. *)
Spare(k) == balance.reserved >= worker[k].held + TotalCost[worker[k].task]

(* A release that has nothing to give back is given up before it writes.   *)
RepairFails(k) ==
  LET t == worker[k].task IN
  /\ worker[k].at = "write"
  /\ \/ worker[k].kind = "CONSUME" /\ Refuses(k, <<"consume", t>>)
     \/ worker[k].kind = "RELEASE" /\ Spare(k) /\ Refuses(k, <<"failure-release", t>>)
  /\ EndRun(k, "FAILED")
  /\ UNCHANGED <<system, window, repairs, faults, crashes>>

Repaired(k) ==
  /\ FinishFinding(k)
  /\ repairs' = repairs \cup {<<worker[k].window, worker[k].task>>}

(* A missing consumption is only entered: the account is left alone. *)
RepairMissingConsume(k) ==
  LET t == worker[k].task
      key == <<"consume", t>>
  IN
  /\ worker[k].at = "write"
  /\ worker[k].kind = "CONSUME"
  /\ ~Refuses(k, key)
  /\ entries' = entries \cup {Entry("CONSUME", t, key)}
  /\ Repaired(k)
  /\ UNCHANGED <<status, balance, window, run, faults, crashes>>

(* Mutant: the ledger is made good and the account is not.                 *)
OnlyEntered(t) == UNCHANGED balance

GiveBack(t) ==
  balance' = [available |-> balance.available + TotalCost[t],
              reserved |-> balance.reserved - TotalCost[t]]

RepairMissingRelease(k) ==
  LET t == worker[k].task
      key == <<"failure-release", t>>
  IN
  /\ worker[k].at = "write"
  /\ worker[k].kind = "RELEASE"
  /\ IF Spare(k)
     THEN /\ ~Refuses(k, key)
          /\ GiveBack(t)
          /\ entries' = entries \cup {Entry("RELEASE", t, key)}
          /\ Repaired(k)
     ELSE FinishFinding(k) /\ UNCHANGED <<balance, entries, repairs>>
  /\ UNCHANGED <<status, window, run, faults, crashes>>

CompleteRun(k) ==
  /\ worker[k].at = "check"
  /\ worker[k].seen = {}
  /\ EndRun(k, "COMPLETED")
  /\ UNCHANGED <<system, window, repairs, faults, crashes>>

(* A worker that dies leaves its run RUNNING. *)
RunCrashes(k) ==
  /\ worker[k].at # "idle"
  /\ crashes < MaxCrashes
  /\ crashes' = crashes + 1
  /\ Step(k, Idle)
  /\ UNCHANGED <<system, window, run, repairs, faults>>

RunSteps(k) ==
  \/ ScanTasks(k)
  \/ \E t \in GenerationTasks, type \in {"RESERVE", "CONSUME", "RELEASE"} : CheckTask(k, t, type)
  \/ RepairReadsTask(k)
  \/ RepairReadsLedger(k)
  \/ RepairFails(k)
  \/ RepairMissingConsume(k)
  \/ RepairMissingRelease(k)
  \/ CompleteRun(k)

Pipeline ==
  \E t \in GenerationTasks :
    \/ \E lost \in Losses : Created(t, lost) \/ \E o \in Ended : TaskEnds(t, o, lost)
    \/ HeldForReview(t)
    \/ SessionDeleted(t)

ReconciliationNext ==
  \/ Pipeline
  \/ TimePasses
  \/ \E k \in Workers : ClaimRun(k) \/ RunSteps(k) \/ RunCrashes(k)

ReconciliationSpec ==
  /\ ReconciliationInit
  /\ [][ReconciliationNext]_reconciliationVars

-----------------------------------------------------------------------------
(* Properties.                                                             *)

(* Every row and every worker's reading is one the code can hold.          *)
ReconciliationTypeOK ==
  /\ status \in [GenerationTasks -> Statuses]
  /\ balance \in [available : Int, reserved : Nat]
  /\ run \in [1..MaxWindow -> {"NONE", "RUNNING", "COMPLETED", "FAILED"}]
  /\ \A k \in Workers :
       /\ worker[k].at \in {"idle", "scan", "check", "repair", "reread", "write"}
       /\ worker[k].task = NoTask <=> worker[k].at \notin {"repair", "reread", "write"}

(* While nothing has gone missing there is nothing to repair: a scan that  *)
(* races creations, settlements and deletions finds tasks whose entry it   *)
(* does not see, but never adds a settlement.                              *)
RepairsNeedFaults == faults = 0 => repairs = {}

(* The same missing settlement is made good once, and a task settled by    *)
(* the pipeline is not settled again, although the keys of a cancellation  *)
(* and of a repair differ: no task has two settlements.                    *)
OneSettlement ==
  \A t \in GenerationTasks : Cardinality({e \in entries : e.task = t /\ e.type # "RESERVE"}) <= 1

(* Only a fault ever makes an account differ from what its ledger adds up  *)
(* to, in what is available as in what is reserved, or a repair that enters *)
(* a missing consumption: that one leaves the account as it is, and what   *)
(* the ledger has reserved falls by the task's price (repairMissingRelease *)
(* moves both, repairMissingConsume the ledger alone).                     *)
Entered == IF balance' = balance THEN Spent(entries' \ entries, "CONSUME") ELSE 0
RepairsKeepBooks ==
  [][faults' = faults =>
       /\ balance'.available - Expected(entries').available
            = balance.available - Expected(entries).available
       /\ balance'.reserved - Expected(entries').reserved
            = balance.reserved - Expected(entries).reserved + Entered]_reconciliationVars

(* Two workers never work on the same window, also when its run's worker   *)
(* has died.                                                               *)
OneWorkerPerWindow ==
  \A k, l \in Workers :
    worker[k].at # "idle" /\ worker[l].at # "idle" /\ worker[k].window = worker[l].window => k = l

(* Repairs are made where something is missing, once, and by one worker.   *)
RepairedOnce == RepairsNeedFaults /\ OneSettlement /\ OneWorkerPerWindow

(* What the active tasks have reserved stays reserved: a repair never      *)
(* gives back credits that they need (repairMissingRelease).  No run       *)
(* checks it: it does not hold, see README.md.                             *)
ActiveStaysReserved ==
  [][repairs' # repairs /\ balance.reserved >= Reserved(Active \cup {"REVIEWING"}) =>
       balance'.reserved >= Reserved(Active \cup {"REVIEWING"})]_reconciliationVars

=============================================================================
