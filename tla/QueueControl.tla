---------------------------- MODULE QueueControl ----------------------------
(***************************************************************************)
(* The PostgreSQL job queue: the rows of public.job, public.assessment,    *)
(* public.runner_execution, public.outbox_event and the two counter        *)
(* tables, and the SECURITY DEFINER functions of app_private that are the  *)
(* only way to change them (packages/db/migrations/0018_queue_schema.sql,  *)
(* with the trigger of 0027_passive_delivery.sql).                         *)
(*                                                                         *)
(* Every operator below is one transaction (or the two ends of one, for    *)
(* recordClaimedRunnerResult).  JobQueue composes them with the worker     *)
(* processes that call them.                                               *)
(*                                                                         *)
(* A job is created from one assessment, and an assessment gives at most   *)
(* one job (queue_enqueue needs a draft and leaves it queued), so both are *)
(* indexed by the same element of Jobs.                                    *)
(***************************************************************************)
EXTENDS Naturals, FiniteSets

CONSTANTS
  Accounts,         \* tenants; numbers, because the SQL orders by account_id
  Jobs,             \* jobs and their assessments; numbers, ordered by id
  AccountOf,        \* the account of each job
  TargetOf,         \* the normalized target key of each job
  WorkerIds,        \* values of lease_owner
  NoWorker,         \* lease_owner IS NULL
  MaxAttempts,      \* job.max_attempts (3 in queueAssessment)
  TenantLimit,      \* queue_tenant_state.concurrency_limit (2)
  GlobalLimit,      \* queue_global_state.concurrency_limit (8)
  ReapBatch,        \* p_batch_size of queue_reap; 0 means it is never called
  ReconcileBatch,   \* p_batch_size of queue_reconcile; 0 means never called
  Instants,         \* what a caller's clock may read when it claims (p_now)
  AssessmentGrant   \* columns of assessment that queue_control may UPDATE

ASSUME AccountsAssumption  == IsFiniteSet(Accounts) /\ Accounts \subseteq Nat
ASSUME JobsAssumption      == IsFiniteSet(Jobs) /\ Jobs \subseteq Nat
ASSUME AccountOfAssumption == AccountOf \in [Jobs -> Accounts]
ASSUME WorkerAssumption    == NoWorker \notin WorkerIds
ASSUME MaxAttemptsAssumption == MaxAttempts \in Nat \ {0}
ASSUME LimitAssumption     == TenantLimit \in Nat \ {0} /\ GlobalLimit \in Nat \ {0}
ASSUME BatchAssumption     == ReapBatch \in Nat /\ ReconcileBatch \in Nat
ASSUME InstantsAssumption  == Instants \subseteq Nat \ {0}

VARIABLES
  assessment,       \* assessment.status
  status,           \* job.status; "none" before the row exists
  leaseOwner,       \* job.lease_owner
  lease,            \* job.lease_expires_at against the callers' clocks
  fence,            \* job.fencing_token
  attempts,         \* job.attempts
  due,              \* job.available_at <= now
  tenantRunning,    \* queue_tenant_state.running_count
  globalRunning,    \* queue_global_state.running_count
  dispatched,       \* queue_tenant_state.last_dispatched_at; 0 is NULL
  executions,       \* runner_execution rows, <<job, fence>>
  events,           \* outbox_event rows, <<job, kind, fence>>
  locked            \* job rows that an open record transaction has locked

dbVars == << assessment, status, leaseOwner, lease, fence, attempts, due,
             tenantRunning, globalRunning, dispatched, executions, events, locked >>

AssessmentStatus == {"draft", "queued", "running", "analyzing", "completed", "failed"}
JobStatus == {"none", "queued", "running", "stale_recovered", "succeeded", "failed"}
Terminal  == {"succeeded", "failed"}
Claimable == {"queued", "stale_recovered"}

\* p_now is the caller's clock (new Date() in queue-control.ts) while
\* worker-delivery.ts compares with clock_timestamp(), so near its end a lease
\* is over for one caller and not for another: it is then "disputed".
LeaseState == {"none", "live", "disputed", "over"}

EventKind == {"queued", "delivery", "terminal"}

TypeOKDb ==
  /\ assessment \in [Jobs -> AssessmentStatus]
  /\ status \in [Jobs -> JobStatus]
  /\ leaseOwner \in [Jobs -> WorkerIds \cup {NoWorker}]
  /\ lease \in [Jobs -> LeaseState]
  /\ fence \in [Jobs -> Nat]
  /\ attempts \in [Jobs -> Nat]
  /\ due \in [Jobs -> BOOLEAN]
  /\ tenantRunning \in [Accounts -> Nat]
  /\ globalRunning \in Nat
  /\ dispatched \in [Accounts -> Instants \cup {0}]
  /\ executions \subseteq Jobs \X Nat
  /\ events \subseteq Jobs \X EventKind \X Nat
  /\ locked \subseteq Jobs

InitDb ==
  /\ assessment = [j \in Jobs |-> "draft"]
  /\ status = [j \in Jobs |-> "none"]
  /\ leaseOwner = [j \in Jobs |-> NoWorker]
  /\ lease = [j \in Jobs |-> "none"]
  /\ fence = [j \in Jobs |-> 0]
  /\ attempts = [j \in Jobs |-> 0]
  /\ due = [j \in Jobs |-> FALSE]
  /\ tenantRunning = [a \in Accounts |-> 0]
  /\ globalRunning = 0
  /\ dispatched = [a \in Accounts |-> 0]
  /\ executions = {}
  /\ events = {}
  /\ locked = {}

-----------------------------------------------------------------------------
(***************************************************************************)
(* Helpers.  A definition introduced as a "Variant" is used by no action:  *)
(* it is the next definition with one slip in it, kept to show that a      *)
(* property of the runs would notice the slip.                             *)
(***************************************************************************)

RunningJobs   == {j \in Jobs : status[j] = "running"}
RunningOf(a)  == {j \in RunningJobs : AccountOf[j] = a}

\* GREATEST(n - 1, 0), k times over.
Less(n, k) == IF n > k THEN n - k ELSE 0

\* The sum of count over Accounts: the size of a disjoint union of sets of those
\* sizes, a definition without recursion.
Total(count) == Cardinality(UNION {{a} \X (1..count[a]) : a \in Accounts})

\* Variant: the token is not compared.
HoldsLeaseAnyToken(w, j, f) == status[j] = "running" /\ leaseOwner[j] = w

\* The WHERE clause shared by queue_complete and queue_fail, and by
\* queue_heartbeat and recordClaimedRunnerResult, which add the lease.
HoldsLease(w, j, f) ==
  /\ status[j] = "running"
  /\ leaseOwner[j] = w
  /\ fence[j] = f

LeaseNotOver(j) == lease[j] \in {"live", "disputed"}

\* The assessment status that queue_assessment_transition writes for a job
\* whose status becomes new, from the assessment's status old.
AssessmentAfter(old, new) ==
  CASE new = "running"         /\ old \in {"queued", "running"}    -> "running"
    [] new = "stale_recovered" /\ old \in {"queued", "running"}    -> "queued"
    [] new = "succeeded"       /\ old \in {"running", "analyzing"} -> "analyzing"
    [] new = "failed"          /\ old # "completed"                -> "failed"
    [] OTHER                                                       -> old

\* The columns the trigger's UPDATE names: without UPDATE on all of them the
\* statement, and the transaction of the job change with it, is refused.
TriggerColumns(new) ==
  {"status", "updated_at"} \cup (IF new = "failed" THEN {"failure_reason"} ELSE {})

Permitted(new) == TriggerColumns(new) \subseteq AssessmentGrant

\* Variant: every recovery is announced as terminal.
FinishEventsOnRecovery(j, new) ==
  CASE new = "succeeded"                      -> {<<j, "delivery", fence[j]>>}
    [] new \in {"failed", "stale_recovered"}  -> {<<j, "terminal", fence[j]>>}
    [] OTHER                                  -> {}

\* The key under which the trigger inserts an event, if it does.
FinishEvents(j, new) ==
  CASE new = "succeeded" -> {<<j, "delivery", fence[j]>>}
    [] new = "failed"    -> {<<j, "terminal", fence[j]>>}
    [] OTHER             -> {}

\* Variant: a refused trigger does not undo the job's update.
SetStatusAnyway(new) ==
  LET changed == {j \in Jobs : new[j] # status[j] /\ Permitted(new[j])}
  IN  /\ status' = new
      /\ assessment' = [j \in Jobs |-> IF j \in changed
                                       THEN AssessmentAfter(assessment[j], new[j])
                                       ELSE assessment[j]]
      /\ events' = events \cup UNION {FinishEvents(j, new[j]) : j \in changed}

\* UPDATE job SET status = new, with the AFTER UPDATE OF status trigger.
SetStatus(new) ==
  LET changed == {j \in Jobs : new[j] # status[j]}
  IN  /\ \A j \in changed : Permitted(new[j])
      /\ status' = new
      /\ assessment' = [j \in Jobs |-> IF j \in changed
                                       THEN AssessmentAfter(assessment[j], new[j])
                                       ELSE assessment[j]]
      /\ events' = events \cup UNION {FinishEvents(j, new[j]) : j \in changed}

\* Variant: the tenant's counter is forgotten.
ReleaseGlobalSlots(batch) ==
  /\ UNCHANGED tenantRunning
  /\ globalRunning' = Less(globalRunning, Cardinality(batch))

\* Both counters lose the jobs of a batch that leaves "running".
ReleaseSlots(batch) ==
  /\ tenantRunning' = [a \in Accounts |->
       Less(tenantRunning[a], Cardinality({j \in batch : AccountOf[j] = a}))]
  /\ globalRunning' = Less(globalRunning, Cardinality(batch))

ClearLease(batch) ==
  /\ leaseOwner' = [j \in Jobs |-> IF j \in batch THEN NoWorker ELSE leaseOwner[j]]
  /\ lease' = [j \in Jobs |-> IF j \in batch THEN "none" ELSE lease[j]]

-----------------------------------------------------------------------------
(***************************************************************************)
(* queue_enqueue, called by queueAssessment                                *)
(***************************************************************************)

\* job_dedupe_key_unique: md5(account || ':' || target) over ALL jobs.
DedupeConflict(j) ==
  \E i \in Jobs : /\ status[i] # "none"
                  /\ AccountOf[i] = AccountOf[j]
                  /\ TargetOf[i] = TargetOf[j]

\* A unique violation aborts the transaction and changes nothing.
Enqueue(j) ==
  /\ assessment[j] = "draft"
  /\ ~DedupeConflict(j)
  /\ status' = [status EXCEPT ![j] = "queued"]
  /\ due' = [due EXCEPT ![j] = TRUE]
  /\ assessment' = [assessment EXCEPT ![j] = "queued"]
  /\ events' = events \cup {<<j, "queued", 0>>}
  /\ UNCHANGED << leaseOwner, lease, fence, attempts, tenantRunning,
                  globalRunning, dispatched, executions, locked >>

-----------------------------------------------------------------------------
(***************************************************************************)
(* queue_claim                                                             *)
(***************************************************************************)

\* Variant: a recovered job is not claimed again.
ClaimablesOnlyQueued(a) ==
  {j \in Jobs : AccountOf[j] = a /\ status[j] = "queued" /\ due[j]}

Claimables(a) ==
  {j \in Jobs : AccountOf[j] = a /\ status[j] \in Claimable /\ due[j]}

GlobalCapacity == globalRunning < GlobalLimit

\* Variant: one claim too many for the tenant.
DispatchableAtLimit(a) == tenantRunning[a] <= TenantLimit /\ Claimables(a) # {}

Dispatchable(a) == tenantRunning[a] < TenantLimit /\ Claimables(a) # {}

\* ORDER BY last_dispatched_at NULLS FIRST, account_id
ServedBefore(a, b) ==
  \/ dispatched[a] < dispatched[b]
  \/ dispatched[a] = dispatched[b] /\ a < b

\* LIMIT 1
NextTenant(a) ==
  /\ Dispatchable(a)
  /\ \A b \in Accounts \ {a} : Dispatchable(b) => ServedBefore(a, b)

\* Variant: a claim of a recovered job keeps the token.
TakeLeaseSameToken(w, j) ==
  /\ leaseOwner' = [leaseOwner EXCEPT ![j] = w]
  /\ lease' = [lease EXCEPT ![j] = "live"]
  /\ fence' = [fence EXCEPT ![j] = 1]

TakeLease(w, j) ==
  /\ leaseOwner' = [leaseOwner EXCEPT ![j] = w]
  /\ lease' = [lease EXCEPT ![j] = "live"]
  /\ fence' = [fence EXCEPT ![j] = @ + 1]

\* The order of one tenant's jobs (priority, available_at, created_at, id) is
\* left open: any claimable job of the tenant that no transaction has locked.
\* p_now is the clock of the host that calls, read before the call waits for the
\* global row: it need not be later than the instant of the claim before.
Claim(w, j) ==
  /\ GlobalCapacity
  /\ NextTenant(AccountOf[j])
  /\ j \in Claimables(AccountOf[j]) \ locked
  /\ SetStatus([status EXCEPT ![j] = "running"])
  /\ TakeLease(w, j)
  /\ tenantRunning' = [tenantRunning EXCEPT ![AccountOf[j]] = @ + 1]
  /\ globalRunning' = globalRunning + 1
  /\ \E now \in Instants : dispatched' = [dispatched EXCEPT ![AccountOf[j]] = now]
  /\ UNCHANGED << attempts, due, executions, locked >>

-----------------------------------------------------------------------------
(***************************************************************************)
(* queue_heartbeat, queue_complete, queue_fail: the caller presents its    *)
(* worker id w and the fencing token f of its claim.  FOR UPDATE waits for *)
(* a locked row, so each is disabled meanwhile.                            *)
(***************************************************************************)

Heartbeat(w, j, f) ==
  /\ HoldsLease(w, j, f)
  /\ LeaseNotOver(j)
  /\ j \notin locked
  /\ lease' = [lease EXCEPT ![j] = "live"]
  /\ UNCHANGED << assessment, status, leaseOwner, fence, attempts, due,
                  tenantRunning, globalRunning, dispatched, executions, events, locked >>

\* Accepted after lease_expires_at too, as long as nobody reaped the job.
Complete(w, j, f) ==
  /\ HoldsLease(w, j, f)
  /\ j \notin locked
  /\ SetStatus([status EXCEPT ![j] = "succeeded"])
  /\ ClearLease({j})
  /\ ReleaseSlots({j})
  /\ UNCHANGED << fence, attempts, due, dispatched, executions, locked >>

Fail(w, j, f) ==
  /\ HoldsLease(w, j, f)
  /\ j \notin locked
  /\ SetStatus([status EXCEPT ![j] = "failed"])
  /\ attempts' = [attempts EXCEPT ![j] = @ + 1]
  /\ ClearLease({j})
  /\ ReleaseSlots({j})
  /\ UNCHANGED << fence, due, dispatched, executions, locked >>

-----------------------------------------------------------------------------
(***************************************************************************)
(* queue_reap: one transaction recovers up to ReapBatch expired leases, in *)
(* the order of account and job, and skips locked rows.                    *)
(***************************************************************************)

\* Variant: FOR UPDATE SKIP LOCKED left out.
ExpiredViewsWithLocked ==
  {seen \in SUBSET RunningJobs :
     /\ \A j \in seen : lease[j] \in {"disputed", "over"}
     /\ \A j \in RunningJobs : lease[j] = "over" => j \in seen}

\* What a caller's clock may find expired: every lease that is over, and any
\* of the disputed ones.
ExpiredViews ==
  {seen \in SUBSET (RunningJobs \ locked) :
     /\ \A j \in seen : lease[j] \in {"disputed", "over"}
     /\ \A j \in RunningJobs \ locked : lease[j] = "over" => j \in seen}

Precedes(i, j) ==
  \/ AccountOf[i] < AccountOf[j]
  \/ AccountOf[i] = AccountOf[j] /\ i < j

FirstJobs(seen, n) == {j \in seen : Cardinality({i \in seen : Precedes(i, j)}) < n}

\* Variant: one retry too many.
ExhaustedLate(j) == attempts[j] >= MaxAttempts

Exhausted(j) == attempts[j] + 1 >= MaxAttempts

ReapedStatus(batch) ==
  [j \in Jobs |-> IF j \notin batch THEN status[j]
                  ELSE IF Exhausted(j) THEN "failed" ELSE "stale_recovered"]

ReapJobs(batch) ==
  /\ batch # {}
  /\ SetStatus(ReapedStatus(batch))
  /\ attempts' = [j \in Jobs |-> IF j \in batch THEN attempts[j] + 1 ELSE attempts[j]]
  /\ due' = [j \in Jobs |-> due[j] /\ ~(j \in batch /\ ~Exhausted(j))]
  /\ ClearLease(batch)
  /\ ReleaseSlots(batch)
  /\ UNCHANGED << fence, dispatched, executions, locked >>

Reap == \E seen \in ExpiredViews : ReapJobs(FirstJobs(seen, ReapBatch))

-----------------------------------------------------------------------------
(***************************************************************************)
(* queue_reconcile: recount the running jobs of the first ReconcileBatch   *)
(* accounts that have jobs, skipping locked rows, and the global counter   *)
(* from the tenants' counters.                                             *)
(***************************************************************************)

OperationalAccounts == {AccountOf[j] : j \in {i \in Jobs : status[i] # "none"}}

FirstAccounts(n) ==
  {a \in OperationalAccounts :
     Cardinality({b \in OperationalAccounts : b < a}) < n}

Reconcile ==
  /\ ReconcileBatch > 0
  /\ LET recount == [a \in Accounts |->
                       IF a \in FirstAccounts(ReconcileBatch)
                       THEN Cardinality(RunningOf(a) \ locked)
                       ELSE tenantRunning[a]]
     IN  /\ tenantRunning' = recount
         /\ globalRunning' = Total(recount)
  /\ UNCHANGED << assessment, status, leaseOwner, lease, fence, attempts, due,
                  dispatched, executions, events, locked >>

-----------------------------------------------------------------------------
(***************************************************************************)
(* recordClaimedRunnerResult: an open transaction holds the job row from   *)
(* the SELECT ... FOR UPDATE to its COMMIT, without the global lock.       *)
(***************************************************************************)

RecordBegin(w, j, f) ==
  /\ HoldsLease(w, j, f)
  /\ LeaseNotOver(j)
  /\ j \notin locked
  /\ locked' = locked \cup {j}
  /\ UNCHANGED << assessment, status, leaseOwner, lease, fence, attempts, due,
                  tenantRunning, globalRunning, dispatched, executions, events >>

RecordCommit(j, f) ==
  /\ executions' = executions \cup {<<j, f>>}
  /\ locked' = locked \ {j}
  /\ UNCHANGED << assessment, status, leaseOwner, lease, fence, attempts, due,
                  tenantRunning, globalRunning, dispatched, events >>

RecordAbort(j) ==
  /\ locked' = locked \ {j}
  /\ UNCHANGED << assessment, status, leaseOwner, lease, fence, attempts, due,
                  tenantRunning, globalRunning, dispatched, executions, events >>

-----------------------------------------------------------------------------
(***************************************************************************)
(* publishSucceededJob as far as the assessment goes, and the clock        *)
(***************************************************************************)

Publish(j) ==
  /\ status[j] = "succeeded"
  /\ <<j, fence[j]>> \in executions
  /\ assessment[j] = "analyzing"
  /\ assessment' = [assessment EXCEPT ![j] = "completed"]
  /\ UNCHANGED << status, leaseOwner, lease, fence, attempts, due, tenantRunning,
                  globalRunning, dispatched, executions, events, locked >>

\* Time passes: a lease comes to its end on some clocks, then on all.
LeaseAges(j) ==
  /\ LeaseNotOver(j)
  /\ lease' = [lease EXCEPT ![j] = IF @ = "live" THEN "disputed" ELSE "over"]
  /\ UNCHANGED << assessment, status, leaseOwner, fence, attempts, due,
                  tenantRunning, globalRunning, dispatched, executions, events, locked >>

\* Time passes: available_at of a recovered job is reached.
BackoffElapses(j) ==
  /\ status[j] = "stale_recovered"
  /\ ~due[j]
  /\ due' = [due EXCEPT ![j] = TRUE]
  /\ UNCHANGED << assessment, status, leaseOwner, lease, fence, attempts,
                  tenantRunning, globalRunning, dispatched, executions, events, locked >>

-----------------------------------------------------------------------------
(***************************************************************************)
(* Any caller                                                              *)
(***************************************************************************)

\* Whatever the callers are and however they use the functions, they can do
\* no more than this.
DbNext ==
  \/ \E j \in Jobs : Enqueue(j) \/ LeaseAges(j) \/ BackoffElapses(j) \/ Publish(j)
  \/ \E w \in WorkerIds, j \in Jobs : Claim(w, j)
  \/ \E w \in WorkerIds, j \in Jobs : \E f \in 0..fence[j] :
       Heartbeat(w, j, f) \/ Complete(w, j, f) \/ Fail(w, j, f) \/ RecordBegin(w, j, f)
  \/ \E j \in Jobs : \E f \in 0..fence[j] : RecordCommit(j, f)
  \/ \E j \in Jobs : RecordAbort(j)
  \/ Reap
  \/ Reconcile

DbSpec == InitDb /\ [][DbNext]_dbVars

-----------------------------------------------------------------------------
(***************************************************************************)
(* Safety                                                                  *)
(***************************************************************************)

\* As long as nobody reconciles, the counters that queue_claim compares with
\* the limits count exactly the running jobs: a job is counted once when it is
\* claimed and released once, whichever of complete, fail and reap ends it and
\* however often each is called.
CountersExact ==
  ReconcileBatch = 0 =>
    /\ globalRunning = Cardinality(RunningJobs)
    /\ \A a \in Accounts : tenantRunning[a] = Cardinality(RunningOf(a))

\* Then no claim, in any interleaving with crashes and recoveries, takes the
\* system or a tenant above its concurrency limit.
CapacityRespected ==
  ReconcileBatch = 0 =>
    /\ Cardinality(RunningJobs) <= GlobalLimit
    /\ \A a \in Accounts : Cardinality(RunningOf(a)) <= TenantLimit

\* With a reconciler too, the counters never exceed the jobs that run: drift is
\* never in the direction that strands queued jobs behind capacity nobody uses.
NeverOvercounted ==
  /\ globalRunning <= Cardinality(RunningJobs)
  /\ \A a \in Accounts : tenantRunning[a] <= Cardinality(RunningOf(a))

\* Every claim is accounted for: one that did not lead to success has cost an
\* attempt.  So claims, and lost workers, are bounded by MaxAttempts.
AttemptsAccountForClaims ==
  \A j \in Jobs :
    /\ fence[j] = attempts[j] + (IF status[j] \in {"running", "succeeded"} THEN 1 ELSE 0)
    /\ attempts[j] <= MaxAttempts
    /\ status[j] # "failed" => attempts[j] < MaxAttempts

\* The assessment a customer sees and the job agree, at every moment.
AssessmentFollowsJob ==
  \A j \in Jobs :
    CASE status[j] = "none"              -> assessment[j] = "draft"
      [] status[j] \in Claimable         -> assessment[j] = "queued"
      [] status[j] = "running"           -> assessment[j] = "running"
      [] status[j] = "succeeded"         -> assessment[j] \in {"analyzing", "completed"}
      [] status[j] = "failed"            -> assessment[j] = "failed"

FinishEventsOf(j) == {e \in events : e[1] = j /\ e[2] # "queued"}

\* A finished job has exactly one outbox event, of the kind of its outcome and
\* at its final fence, however often it was recovered, completed and failed in
\* between; a job that has not finished has none.
OneFinishEvent ==
  \A j \in Jobs : FinishEventsOf(j) =
    CASE status[j] = "succeeded" -> {<<j, "delivery", fence[j]>>}
      [] status[j] = "failed"    -> {<<j, "terminal", fence[j]>>}
      [] OTHER                   -> {}

\* "one active job per (account_id, normalized_target_key)": a draft can be
\* queued unless another job for its target is active.
TargetFreeWhenInactive ==
  \A j \in Jobs :
    /\ assessment[j] = "draft"
    /\ \A i \in Jobs : /\ AccountOf[i] = AccountOf[j]
                       /\ TargetOf[i] = TargetOf[j]
                       => status[i] \notin Claimable \cup {"running"}
    => ENABLED Enqueue(j)

-----------------------------------------------------------------------------
(***************************************************************************)
(* What a step may never do                                                *)
(***************************************************************************)

JobRow(j) == << status[j], leaseOwner[j], lease[j], fence[j], attempts[j] >>

\* The documented purpose of queue_reconcile: after it the counters are the
\* numbers of running jobs.  (A recording transaction makes it skip the row.)
ReconcileRepairs ==
  [][Reconcile => /\ globalRunning' = Cardinality(RunningJobs)
                  /\ \A a \in Accounts :
                       tenantRunning'[a] = Cardinality(RunningOf(a))]_dbVars

\* While a recording transaction has the row, only time touches the job: what
\* it checked still holds when it commits.
LockedRowStable ==
  [][\A j \in locked : j \in locked' =>
       UNCHANGED << status[j], leaseOwner[j], fence[j], attempts[j] >>]_dbVars

=============================================================================
