------------------------- MODULE QueueControl_proofs -------------------------
(***************************************************************************)
(* Theorems about the job queue of QueueControl, for every set of tenants, *)
(* jobs and workers, every limit and batch size, and every caller.         *)
(***************************************************************************)
EXTENDS QueueControl, FiniteSetTheorems, TLAPS

(***************************************************************************)
(* Lemmas about the operators                                              *)
(***************************************************************************)

\* The trigger writes an assessment status, whatever it finds.
LEMMA AssessmentAfterType ==
  ASSUME NEW old \in AssessmentStatus, NEW new \in JobStatus
  PROVE  AssessmentAfter(old, new) \in AssessmentStatus
  BY DEF AssessmentAfter, AssessmentStatus

\* An update of job.status with its trigger keeps the rows well typed.
LEMMA SetStatusType ==
  ASSUME TypeOKDb, NEW new \in [Jobs -> JobStatus], SetStatus(new)
  PROVE  /\ status' = new
         /\ status' \in [Jobs -> JobStatus]
         /\ assessment' \in [Jobs -> AssessmentStatus]
         /\ events' \subseteq Jobs \X EventKind \X Nat
<1> DEFINE changed == {j \in Jobs : new[j] # status[j]}
<1>1. assessment' \in [Jobs -> AssessmentStatus]
  <2>1. assessment' = [j \in Jobs |-> IF j \in changed
                                      THEN AssessmentAfter(assessment[j], new[j])
                                      ELSE assessment[j]]
    BY DEF SetStatus
  <2>2. \A j \in Jobs : AssessmentAfter(assessment[j], new[j]) \in AssessmentStatus
    BY AssessmentAfterType DEF TypeOKDb
  <2> HIDE DEF changed
  <2> QED BY <2>1, <2>2 DEF TypeOKDb
<1>2. \A j \in Jobs : FinishEvents(j, new[j]) \subseteq Jobs \X EventKind \X Nat
  BY DEF FinishEvents, TypeOKDb, EventKind
<1>3. events' = events \cup UNION {FinishEvents(j, new[j]) : j \in changed}
  BY DEF SetStatus
<1>4. QED BY <1>1, <1>2, <1>3 DEF SetStatus, TypeOKDb

LEMMA LessType ==
  ASSUME NEW n \in Nat, NEW k \in Nat
  PROVE  Less(n, k) \in Nat
  BY DEF Less

\* Sets of jobs are finite, so that their cardinalities are numbers.
LEMMA JobSets ==
  ASSUME NEW S, S \subseteq Jobs
  PROVE  IsFiniteSet(S) /\ Cardinality(S) \in Nat
  BY JobsAssumption, FS_Subset, FS_CardinalityType

\* Releasing slots leaves both counters numbers.
LEMMA ReleaseSlotsType ==
  ASSUME TypeOKDb, NEW batch, batch \subseteq Jobs, ReleaseSlots(batch)
  PROVE  tenantRunning' \in [Accounts -> Nat] /\ globalRunning' \in Nat
<1>1. \A a \in Accounts : Cardinality({j \in batch : AccountOf[j] = a}) \in Nat
  BY JobSets
<1>2. Cardinality(batch) \in Nat
  BY JobSets
<1>3. \A a \in Accounts :
        Less(tenantRunning[a], Cardinality({j \in batch : AccountOf[j] = a})) \in Nat
  BY <1>1, LessType DEF TypeOKDb
<1>4. QED BY <1>2, <1>3, LessType DEF ReleaseSlots, TypeOKDb

\* Clearing leases keeps the columns well typed.
LEMMA ClearLeaseType ==
  ASSUME TypeOKDb, NEW batch, ClearLease(batch)
  PROVE  /\ leaseOwner' \in [Jobs -> WorkerIds \cup {NoWorker}]
         /\ lease' \in [Jobs -> LeaseState]
  BY DEF TypeOKDb, ClearLease, LeaseState

(***************************************************************************)
(* Type correctness                                                        *)
(***************************************************************************)

\* Empty tables are well typed.
LEMMA InitType == InitDb => TypeOKDb
  BY DEF InitDb, TypeOKDb, AssessmentStatus, JobStatus, LeaseState, EventKind

\* queue_claim keeps the rows well typed: the tenant it counts for exists, and
\* the token stays a number.
LEMMA ClaimType ==
  ASSUME TypeOKDb, NEW w \in WorkerIds, NEW j \in Jobs, Claim(w, j)
  PROVE  TypeOKDb'
<1> DEFINE new == [status EXCEPT ![j] = "running"]
<1>1. new \in [Jobs -> JobStatus] /\ SetStatus(new)
  BY DEF TypeOKDb, Claim, TakeLease, JobStatus
<1> HIDE DEF new
<1>2. /\ status' \in [Jobs -> JobStatus]
      /\ assessment' \in [Jobs -> AssessmentStatus]
      /\ events' \subseteq Jobs \X EventKind \X Nat
  BY <1>1, SetStatusType
<1>3. AccountOf[j] \in Accounts
  BY AccountOfAssumption
<1>4. dispatched' \in [Accounts -> Instants \cup {0}]
  BY <1>3 DEF Claim, TakeLease, TypeOKDb
<1>5. /\ leaseOwner' \in [Jobs -> WorkerIds \cup {NoWorker}]
      /\ lease' \in [Jobs -> LeaseState]
      /\ fence' \in [Jobs -> Nat]
  BY DEF TypeOKDb, Claim, TakeLease, LeaseState
<1>6. tenantRunning' \in [Accounts -> Nat] /\ globalRunning' \in Nat
  BY <1>3 DEF TypeOKDb, Claim, TakeLease
<1>7. QED BY <1>2, <1>4, <1>5, <1>6 DEF TypeOKDb, Claim, TakeLease

\* So does queue_complete ...
LEMMA CompleteType ==
  ASSUME TypeOKDb, NEW w \in WorkerIds, NEW j \in Jobs, NEW f, Complete(w, j, f)
  PROVE  TypeOKDb'
<1> DEFINE new == [status EXCEPT ![j] = "succeeded"]
<1>1. new \in [Jobs -> JobStatus] /\ SetStatus(new)
  BY DEF TypeOKDb, Complete, JobStatus
<1> HIDE DEF new
<1>2. /\ status' \in [Jobs -> JobStatus]
      /\ assessment' \in [Jobs -> AssessmentStatus]
      /\ events' \subseteq Jobs \X EventKind \X Nat
  BY <1>1, SetStatusType
<1>3. tenantRunning' \in [Accounts -> Nat] /\ globalRunning' \in Nat
  BY ReleaseSlotsType DEF Complete
<1>4. leaseOwner' \in [Jobs -> WorkerIds \cup {NoWorker}] /\ lease' \in [Jobs -> LeaseState]
  BY ClearLeaseType DEF Complete
<1>5. QED BY <1>2, <1>3, <1>4 DEF TypeOKDb, Complete

\* ... and queue_fail ...
LEMMA FailType ==
  ASSUME TypeOKDb, NEW w \in WorkerIds, NEW j \in Jobs, NEW f, Fail(w, j, f)
  PROVE  TypeOKDb'
<1> DEFINE new == [status EXCEPT ![j] = "failed"]
<1>1. new \in [Jobs -> JobStatus] /\ SetStatus(new)
  BY DEF TypeOKDb, Fail, JobStatus
<1> HIDE DEF new
<1>2. /\ status' \in [Jobs -> JobStatus]
      /\ assessment' \in [Jobs -> AssessmentStatus]
      /\ events' \subseteq Jobs \X EventKind \X Nat
  BY <1>1, SetStatusType
<1>3. tenantRunning' \in [Accounts -> Nat] /\ globalRunning' \in Nat
  BY ReleaseSlotsType DEF Fail
<1>4. leaseOwner' \in [Jobs -> WorkerIds \cup {NoWorker}] /\ lease' \in [Jobs -> LeaseState]
  BY ClearLeaseType DEF Fail
<1>5. attempts' \in [Jobs -> Nat]
  BY DEF TypeOKDb, Fail
<1>6. QED BY <1>2, <1>3, <1>4, <1>5 DEF TypeOKDb, Fail

\* ... and queue_reap, for every batch it may pick.
LEMMA ReapType ==
  ASSUME TypeOKDb, NEW batch, batch \subseteq Jobs, ReapJobs(batch)
  PROVE  TypeOKDb'
<1>1. ReapedStatus(batch) \in [Jobs -> JobStatus]
  BY DEF ReapedStatus, TypeOKDb, JobStatus
<1>2. /\ status' \in [Jobs -> JobStatus]
      /\ assessment' \in [Jobs -> AssessmentStatus]
      /\ events' \subseteq Jobs \X EventKind \X Nat
  BY <1>1, SetStatusType DEF ReapJobs
<1>3. tenantRunning' \in [Accounts -> Nat] /\ globalRunning' \in Nat
  BY ReleaseSlotsType DEF ReapJobs
<1>4. leaseOwner' \in [Jobs -> WorkerIds \cup {NoWorker}] /\ lease' \in [Jobs -> LeaseState]
  BY ClearLeaseType DEF ReapJobs
<1>5. attempts' \in [Jobs -> Nat] /\ due' \in [Jobs -> BOOLEAN]
  BY DEF ReapJobs, TypeOKDb
<1>6. QED BY <1>2, <1>3, <1>4, <1>5 DEF TypeOKDb, ReapJobs

\* queueAssessment, the clock, the publication and a rolled back recording keep
\* the rows well typed.
LEMMA SmallStepsType ==
  ASSUME TypeOKDb, NEW j \in Jobs
  PROVE  /\ Enqueue(j) => TypeOKDb'
         /\ LeaseAges(j) => TypeOKDb'
         /\ BackoffElapses(j) => TypeOKDb'
         /\ Publish(j) => TypeOKDb'
         /\ RecordAbort(j) => TypeOKDb'
<1>1. Enqueue(j) => TypeOKDb'
  <2> SUFFICES ASSUME Enqueue(j) PROVE TypeOKDb'
    OBVIOUS
  <2>1. status' \in [Jobs -> JobStatus] /\ assessment' \in [Jobs -> AssessmentStatus]
    BY DEF Enqueue, TypeOKDb, JobStatus, AssessmentStatus
  <2>2. events' \subseteq Jobs \X EventKind \X Nat
    BY DEF Enqueue, TypeOKDb, EventKind
  <2>3. due' \in [Jobs -> BOOLEAN]
    BY DEF Enqueue, TypeOKDb
  <2>4. QED BY <2>1, <2>2, <2>3 DEF Enqueue, TypeOKDb
<1>2. LeaseAges(j) => TypeOKDb'
  BY DEF LeaseAges, TypeOKDb, LeaseState
<1>3. BackoffElapses(j) => TypeOKDb'
  BY DEF BackoffElapses, TypeOKDb
<1>4. Publish(j) => TypeOKDb'
  BY DEF Publish, TypeOKDb, AssessmentStatus
<1>5. RecordAbort(j) => TypeOKDb'
  BY DEF RecordAbort, TypeOKDb
<1>6. QED BY <1>1, <1>2, <1>3, <1>4, <1>5

\* So do queue_heartbeat and recordClaimedRunnerResult, with any token that was
\* ever given out.
LEMMA LeaseStepsType ==
  ASSUME TypeOKDb, NEW w \in WorkerIds, NEW j \in Jobs, NEW f \in 0..fence[j]
  PROVE  /\ Heartbeat(w, j, f) => TypeOKDb'
         /\ RecordBegin(w, j, f) => TypeOKDb'
         /\ RecordCommit(j, f) => TypeOKDb'
<1>1. Heartbeat(w, j, f) => TypeOKDb'
  BY DEF Heartbeat, TypeOKDb, LeaseState
<1>2. RecordBegin(w, j, f) => TypeOKDb'
  BY DEF RecordBegin, TypeOKDb
<1>3. RecordCommit(j, f) => TypeOKDb'
  <2>1. <<j, f>> \in Jobs \X Nat
    BY DEF TypeOKDb
  <2>2. QED BY <2>1 DEF RecordCommit, TypeOKDb
<1>4. QED BY <1>1, <1>2, <1>3

\* The sum of the tenants' counters is a number.
LEMMA TotalType ==
  ASSUME NEW count \in [Accounts -> Nat]
  PROVE  /\ IsFiniteSet(UNION {{a} \X (1..count[a]) : a \in Accounts})
         /\ Total(count) \in Nat
<1> DEFINE parts == {{a} \X (1..count[a]) : a \in Accounts}
<1>1. \A a \in Accounts : IsFiniteSet({a} \X (1..count[a]))
  <2> TAKE a \in Accounts
  <2>1. IsFiniteSet({a})
    BY FS_Singleton
  <2>2. IsFiniteSet(1..count[a])
    BY FS_Interval
  <2>3. QED BY <2>1, <2>2, FS_Product
<1>2. IsFiniteSet(parts)
  <2> DEFINE part == [a \in Accounts |-> {a} \X (1..count[a])]
  <2>1. part \in Surjection(Accounts, parts)
    BY DEF Surjection
  <2>2. QED BY <2>1, AccountsAssumption, FS_Surjection
<1>3. IsFiniteSet(UNION parts)
  BY <1>1, <1>2, FS_UNION
<1>4. QED BY <1>3, FS_CardinalityType DEF Total

\* queue_reconcile writes counts, whatever rows it skips.
LEMMA ReconcileType ==
  ASSUME TypeOKDb, Reconcile
  PROVE  TypeOKDb'
<1> DEFINE recount == [a \in Accounts |->
                        IF a \in FirstAccounts(ReconcileBatch)
                        THEN Cardinality(RunningOf(a) \ locked)
                        ELSE tenantRunning[a]]
<1>1. \A a \in Accounts : Cardinality(RunningOf(a) \ locked) \in Nat
  BY JobSets DEF RunningOf, RunningJobs
<1>2. recount \in [Accounts -> Nat]
  BY <1>1 DEF TypeOKDb
<1>3. tenantRunning' = recount /\ globalRunning' = Total(recount)
  BY DEF Reconcile
<1>4. Total(recount) \in Nat
  BY <1>2, TotalType
<1> HIDE DEF recount
<1>5. tenantRunning' \in [Accounts -> Nat] /\ globalRunning' \in Nat
  BY <1>2, <1>3, <1>4
<1>6. QED BY <1>5 DEF TypeOKDb, Reconcile

\* Every step any caller can make keeps every row well typed.
LEMMA StepType == TypeOKDb /\ [DbNext]_dbVars => TypeOKDb'
<1> SUFFICES ASSUME TypeOKDb, [DbNext]_dbVars PROVE TypeOKDb'
  OBVIOUS
<1>1. CASE \E j \in Jobs : Enqueue(j) \/ LeaseAges(j) \/ BackoffElapses(j) \/ Publish(j)
  BY <1>1, SmallStepsType
<1>2. CASE \E w \in WorkerIds, j \in Jobs : Claim(w, j)
  BY <1>2, ClaimType
<1>3. CASE \E w \in WorkerIds, j \in Jobs : \E f \in 0..fence[j] :
             Heartbeat(w, j, f) \/ Complete(w, j, f) \/ Fail(w, j, f) \/ RecordBegin(w, j, f)
  BY <1>3, LeaseStepsType, CompleteType, FailType
<1>4. CASE \E j \in Jobs : \E f \in 0..fence[j] : RecordCommit(j, f)
  <2>1. PICK j \in Jobs : \E f \in 0..fence[j] : RecordCommit(j, f)
    BY <1>4
  <2>2. PICK f \in 0..fence[j] : RecordCommit(j, f)
    BY <2>1
  <2>3. <<j, f>> \in Jobs \X Nat
    BY DEF TypeOKDb
  <2>4. QED BY <2>2, <2>3 DEF RecordCommit, TypeOKDb
<1>5. CASE \E j \in Jobs : RecordAbort(j)
  BY <1>5, SmallStepsType
<1>6. CASE Reap
  <2>1. PICK seen \in ExpiredViews : ReapJobs(FirstJobs(seen, ReapBatch))
    BY <1>6 DEF Reap
  <2>2. FirstJobs(seen, ReapBatch) \subseteq Jobs
    BY DEF FirstJobs, ExpiredViews, RunningJobs
  <2>3. QED BY <2>1, <2>2, ReapType
<1>7. CASE Reconcile
  BY <1>7, ReconcileType
<1>8. CASE UNCHANGED dbVars
  BY <1>8 DEF dbVars, TypeOKDb
<1>9. QED BY <1>1, <1>2, <1>3, <1>4, <1>5, <1>6, <1>7, <1>8 DEF DbNext

\* Whoever calls the queue functions, and however, the rows stay well typed.
THEOREM DbTypeCorrect == DbSpec => []TypeOKDb
<1>1. InitDb => TypeOKDb
  BY InitType
<1>2. TypeOKDb /\ [DbNext]_dbVars => TypeOKDb'
  BY StepType
<1>3. QED BY <1>1, <1>2, PTL DEF DbSpec

(***************************************************************************)
(* The counters                                                            *)
(***************************************************************************)

Exact ==
  /\ globalRunning = Cardinality(RunningJobs)
  /\ \A a \in Accounts : tenantRunning[a] = Cardinality(RunningOf(a))

WithinLimits ==
  /\ globalRunning <= GlobalLimit
  /\ \A a \in Accounts : tenantRunning[a] <= TenantLimit

\* The inductive invariant: the counters are exact, and it is the counters that
\* queue_claim compares with the limits.
CounterInv == TypeOKDb /\ (ReconcileBatch = 0 => Exact /\ WithinLimits)

\* The running jobs, of all tenants and of each, are finitely many.
LEMMA RunningSets ==
  /\ IsFiniteSet(RunningJobs) /\ RunningJobs \subseteq Jobs
  /\ \A a : IsFiniteSet(RunningOf(a)) /\ RunningOf(a) \subseteq RunningJobs
  /\ Cardinality(RunningJobs) \in Nat
  /\ \A a : Cardinality(RunningOf(a)) \in Nat
  BY JobSets DEF RunningJobs, RunningOf

\* Jobs that leave "running" as one batch give back exactly their slots, so
\* GREATEST(n - 1, 0) never meets its zero.
LEMMA ReleaseExact ==
  ASSUME TypeOKDb, Exact, WithinLimits,
         NEW batch, batch \subseteq RunningJobs,
         RunningJobs' = RunningJobs \ batch,
         ReleaseSlots(batch)
  PROVE  Exact' /\ WithinLimits'
<1>1. ASSUME NEW S, IsFiniteSet(S), Cardinality(S) \in Nat, NEW B, B \subseteq S
      PROVE  /\ Cardinality(S \ B) = Less(Cardinality(S), Cardinality(B))
             /\ Less(Cardinality(S), Cardinality(B)) <= Cardinality(S)
  <2>1. IsFiniteSet(B) /\ Cardinality(B) \in Nat /\ Cardinality(B) <= Cardinality(S)
    BY <1>1, FS_Subset, FS_CardinalityType
  <2>2. S \cap B = B
    BY <1>1
  <2>3. Cardinality(S \ B) = Cardinality(S) - Cardinality(B)
    BY <1>1, <2>2, FS_Difference
  <2>4. QED BY <1>1, <2>1, <2>3 DEF Less
<1>2. /\ globalRunning' = Cardinality(RunningJobs')
      /\ globalRunning' <= GlobalLimit
  <2>1. globalRunning' = Less(globalRunning, Cardinality(batch))
    BY DEF ReleaseSlots
  <2>2. globalRunning' = Cardinality(RunningJobs \ batch)
        /\ globalRunning' <= globalRunning
    BY <1>1, <2>1, RunningSets DEF Exact
  <2>3. Cardinality(RunningJobs \ batch) \in Nat
    BY RunningSets, JobSets
  <2>4. QED BY <2>2, <2>3, LimitAssumption DEF WithinLimits, TypeOKDb
<1>3. ASSUME NEW a \in Accounts
      PROVE  /\ tenantRunning'[a] = Cardinality(RunningOf(a)')
             /\ tenantRunning'[a] <= TenantLimit
  <2> DEFINE mine == {j \in batch : AccountOf[j] = a}
  <2>1. mine \subseteq RunningOf(a) /\ RunningOf(a)' = RunningOf(a) \ mine
    BY DEF RunningOf
  <2>2. tenantRunning'[a] = Less(tenantRunning[a], Cardinality(mine))
    BY DEF ReleaseSlots
  <2> HIDE DEF mine
  <2>3. tenantRunning'[a] = Cardinality(RunningOf(a) \ mine)
        /\ tenantRunning'[a] <= tenantRunning[a]
    BY <1>1, <2>1, <2>2, RunningSets DEF Exact
  <2>4. Cardinality(RunningOf(a) \ mine) \in Nat
    BY RunningSets, JobSets
  <2>5. QED BY <2>1, <2>3, <2>4, LimitAssumption DEF WithinLimits, TypeOKDb
<1>4. QED BY <1>2, <1>3 DEF Exact, WithinLimits

\* queue_claim counts the job it starts, once for its tenant and once for the
\* system, and only below the limits.
LEMMA ClaimExact ==
  ASSUME TypeOKDb, Exact, WithinLimits,
         NEW w \in WorkerIds, NEW j \in Jobs, Claim(w, j)
  PROVE  Exact' /\ WithinLimits'
<1> DEFINE acct == AccountOf[j]
<1>1. acct \in Accounts /\ tenantRunning[acct] < TenantLimit /\ globalRunning < GlobalLimit
  BY AccountOfAssumption DEF Claim, GlobalCapacity, NextTenant, Dispatchable
<1>2. status' = [status EXCEPT ![j] = "running"] /\ status[j] # "running"
  BY DEF Claim, TakeLease, SetStatus, Claimables, Claimable
<1>3. RunningJobs' = RunningJobs \cup {j} /\ j \notin RunningJobs
  BY <1>2 DEF RunningJobs, TypeOKDb
<1>4. /\ globalRunning' = Cardinality(RunningJobs')
      /\ globalRunning' <= GlobalLimit
  <2>1. Cardinality(RunningJobs') = Cardinality(RunningJobs) + 1
    BY <1>3, RunningSets, FS_AddElement
  <2>2. QED BY <1>1, <2>1, LimitAssumption DEF Exact, Claim, TakeLease, TypeOKDb
<1>5. ASSUME NEW a \in Accounts
      PROVE  /\ tenantRunning'[a] = Cardinality(RunningOf(a)')
             /\ tenantRunning'[a] <= TenantLimit
  <2>1. CASE a = acct
    <3>1. RunningOf(a)' = RunningOf(a) \cup {j} /\ j \notin RunningOf(a)
      BY <1>3, <2>1 DEF RunningOf
    <3>2. Cardinality(RunningOf(a)') = Cardinality(RunningOf(a)) + 1
      BY <3>1, RunningSets, FS_AddElement
    <3>3. tenantRunning'[a] = tenantRunning[a] + 1
      BY <1>1, <2>1 DEF Claim, TakeLease, TypeOKDb
    <3>4. QED BY <1>1, <2>1, <3>2, <3>3, LimitAssumption DEF Exact, TypeOKDb
  <2>2. CASE a # acct
    <3>1. RunningOf(a)' = RunningOf(a)
      BY <1>3, <2>2 DEF RunningOf
    <3>2. tenantRunning'[a] = tenantRunning[a]
      BY <1>1, <2>2 DEF Claim, TakeLease, TypeOKDb
    <3>3. QED BY <3>1, <3>2 DEF Exact, WithinLimits
  <2>3. QED BY <2>1, <2>2
<1>6. QED BY <1>4, <1>5 DEF Exact, WithinLimits

\* queue_complete releases the one slot of the job that it ends ...
LEMMA CompleteExact ==
  ASSUME TypeOKDb, Exact, WithinLimits,
         NEW w \in WorkerIds, NEW j \in Jobs, NEW f, Complete(w, j, f)
  PROVE  Exact' /\ WithinLimits'
<1>1. status' = [status EXCEPT ![j] = "succeeded"]
  BY DEF Complete, SetStatus
<1>2. {j} \subseteq RunningJobs /\ RunningJobs' = RunningJobs \ {j}
  BY <1>1 DEF RunningJobs, TypeOKDb, Complete, HoldsLease
<1>3. QED BY <1>2, ReleaseExact DEF Complete

\* ... and so does queue_fail ...
LEMMA FailExact ==
  ASSUME TypeOKDb, Exact, WithinLimits,
         NEW w \in WorkerIds, NEW j \in Jobs, NEW f, Fail(w, j, f)
  PROVE  Exact' /\ WithinLimits'
<1>1. status' = [status EXCEPT ![j] = "failed"]
  BY DEF Fail, SetStatus
<1>2. {j} \subseteq RunningJobs /\ RunningJobs' = RunningJobs \ {j}
  BY <1>1 DEF RunningJobs, TypeOKDb, Fail, HoldsLease
<1>3. QED BY <1>2, ReleaseExact DEF Fail

\* ... and queue_reap those of its whole batch.
LEMMA ReapExact ==
  ASSUME TypeOKDb, Exact, WithinLimits, Reap
  PROVE  Exact' /\ WithinLimits'
<1>1. PICK seen \in ExpiredViews : ReapJobs(FirstJobs(seen, ReapBatch))
  BY DEF Reap
<1> DEFINE batch == FirstJobs(seen, ReapBatch)
<1>2. batch \subseteq RunningJobs
  BY DEF FirstJobs, ExpiredViews
<1> HIDE DEF batch
<1>3. status' = ReapedStatus(batch)
  BY <1>1 DEF ReapJobs, SetStatus, batch
<1>4. RunningJobs' = RunningJobs \ batch
  BY <1>2, <1>3 DEF RunningJobs, ReapedStatus, TypeOKDb
<1>5. ReleaseSlots(batch)
  BY <1>1 DEF ReapJobs, batch
<1>6. QED BY <1>2, <1>4, <1>5, ReleaseExact

\* The other steps change neither a counter nor which jobs run.
LEMMA QuietStep ==
  ASSUME TypeOKDb, Exact, WithinLimits,
         UNCHANGED << tenantRunning, globalRunning >>, RunningJobs' = RunningJobs
  PROVE  Exact' /\ WithinLimits'
<1>1. \A a \in Accounts : RunningOf(a)' = RunningOf(a)
  BY DEF RunningOf
<1>2. QED BY <1>1 DEF Exact, WithinLimits

\* queue_enqueue starts no job: the row did not exist, by its dedupe key.
LEMMA EnqueueQuiet ==
  ASSUME TypeOKDb, NEW j \in Jobs, Enqueue(j)
  PROVE  RunningJobs' = RunningJobs
<1>1. ~DedupeConflict(j) => status[j] = "none"
  BY DEF DedupeConflict
<1>2. status' = [status EXCEPT ![j] = "queued"] /\ status[j] = "none"
  BY <1>1 DEF Enqueue
<1>3. QED BY <1>2 DEF RunningJobs, TypeOKDb

\* Exact counters within the limits stay so over every step.
LEMMA CounterStep == CounterInv /\ [DbNext]_dbVars => CounterInv'
<1> SUFFICES ASSUME CounterInv, [DbNext]_dbVars PROVE CounterInv'
  OBVIOUS
<1>1. TypeOKDb /\ TypeOKDb'
  BY StepType DEF CounterInv
<1> SUFFICES ASSUME ReconcileBatch = 0 PROVE Exact' /\ WithinLimits'
  BY <1>1 DEF CounterInv
<1>2. Exact /\ WithinLimits
  BY DEF CounterInv
<1>3. CASE \E j \in Jobs : Enqueue(j) \/ LeaseAges(j) \/ BackoffElapses(j) \/ Publish(j)
  <2>1. PICK j \in Jobs : Enqueue(j) \/ LeaseAges(j) \/ BackoffElapses(j) \/ Publish(j)
    BY <1>3
  <2>2. UNCHANGED << tenantRunning, globalRunning >>
    BY <2>1 DEF Enqueue, LeaseAges, BackoffElapses, Publish
  <2>3. Enqueue(j) => RunningJobs' = RunningJobs
    BY <1>1, EnqueueQuiet
  <2>4. ~Enqueue(j) => UNCHANGED status
    BY <2>1 DEF LeaseAges, BackoffElapses, Publish
  <2>5. RunningJobs' = RunningJobs
    BY <2>3, <2>4 DEF RunningJobs
  <2>6. QED BY <1>1, <1>2, <2>2, <2>5, QuietStep
<1>4. CASE \E w \in WorkerIds, j \in Jobs : Claim(w, j)
  BY <1>1, <1>2, <1>4, ClaimExact
<1>5. CASE \E w \in WorkerIds, j \in Jobs : \E f \in 0..fence[j] :
             Heartbeat(w, j, f) \/ Complete(w, j, f) \/ Fail(w, j, f) \/ RecordBegin(w, j, f)
  <2>1. PICK w \in WorkerIds, j \in Jobs : \E f \in 0..fence[j] :
             Heartbeat(w, j, f) \/ Complete(w, j, f) \/ Fail(w, j, f) \/ RecordBegin(w, j, f)
    BY <1>5
  <2>2. PICK f \in 0..fence[j] :
             Heartbeat(w, j, f) \/ Complete(w, j, f) \/ Fail(w, j, f) \/ RecordBegin(w, j, f)
    BY <2>1
  <2>3. CASE Heartbeat(w, j, f) \/ RecordBegin(w, j, f)
    <3>1. UNCHANGED << tenantRunning, globalRunning, status >>
      BY <2>3 DEF Heartbeat, RecordBegin
    <3>2. QED BY <1>1, <1>2, <3>1, QuietStep DEF RunningJobs
  <2>4. CASE Complete(w, j, f)
    BY <1>1, <1>2, <2>4, CompleteExact
  <2>5. CASE Fail(w, j, f)
    BY <1>1, <1>2, <2>5, FailExact
  <2>6. QED BY <2>2, <2>3, <2>4, <2>5
<1>6. CASE \E j \in Jobs : \E f \in 0..fence[j] : RecordCommit(j, f)
  <2>1. UNCHANGED << tenantRunning, globalRunning, status >>
    BY <1>6 DEF RecordCommit
  <2>2. QED BY <1>1, <1>2, <2>1, QuietStep DEF RunningJobs
<1>7. CASE \E j \in Jobs : RecordAbort(j)
  <2>1. UNCHANGED << tenantRunning, globalRunning, status >>
    BY <1>7 DEF RecordAbort
  <2>2. QED BY <1>1, <1>2, <2>1, QuietStep DEF RunningJobs
<1>8. CASE Reap
  BY <1>1, <1>2, <1>8, ReapExact
<1>9. CASE Reconcile
  BY <1>9 DEF Reconcile
<1>10. CASE UNCHANGED dbVars
  <2>1. UNCHANGED << tenantRunning, globalRunning, status >>
    BY <1>10 DEF dbVars
  <2>2. QED BY <1>1, <1>2, <2>1, QuietStep DEF RunningJobs
<1>11. QED BY <1>3, <1>4, <1>5, <1>6, <1>7, <1>8, <1>9, <1>10 DEF DbNext

\* They are so in empty tables.
LEMMA CounterInit == InitDb => CounterInv
<1> SUFFICES ASSUME InitDb PROVE CounterInv
  OBVIOUS
<1>1. TypeOKDb
  BY InitType
<1>2. RunningJobs = {} /\ \A a : RunningOf(a) = {}
  BY DEF InitDb, RunningJobs, RunningOf
<1>3. Cardinality({}) = 0
  BY FS_EmptySet
<1>4. Exact
  BY <1>2, <1>3 DEF InitDb, Exact
<1>5. WithinLimits
  BY LimitAssumption DEF InitDb, WithinLimits
<1>6. QED BY <1>1, <1>4, <1>5 DEF CounterInv

\* So they are at every moment.
LEMMA DbCounterInv == DbSpec => []CounterInv
<1>1. InitDb => CounterInv
  BY CounterInit
<1>2. CounterInv /\ [DbNext]_dbVars => CounterInv'
  BY CounterStep
<1>3. QED BY <1>1, <1>2, PTL DEF DbSpec

\* As long as nobody reconciles, the two running_count columns are the numbers
\* of running jobs, however the queue functions are called.
THEOREM DbCountersExact == DbSpec => []CountersExact
<1>1. CounterInv => CountersExact
  BY DEF CounterInv, CountersExact, Exact
<1>2. QED BY <1>1, DbCounterInv, PTL

\* So no interleaving of claims, completions, failures and recoveries takes the
\* system or a tenant above its concurrency limit.
THEOREM DbCapacityRespected == DbSpec => []CapacityRespected
<1>1. CounterInv => CapacityRespected
  BY DEF CounterInv, CapacityRespected, Exact, WithinLimits
<1>2. QED BY <1>1, DbCounterInv, PTL

(***************************************************************************)
(* What one step does to one job                                           *)
(***************************************************************************)

\* The moves of the rows of one job: its own row, its assessment's and its
\* events'.  Every step makes one of them, for every job (RowMoves).
JobStays(j) ==
  /\ UNCHANGED << status[j], assessment[j], fence[j], attempts[j] >>
  /\ FinishEventsOf(j)' = FinishEventsOf(j)

JobQueued(j) ==
  /\ status[j] = "none" /\ status'[j] = "queued"
  /\ assessment[j] = "draft" /\ assessment'[j] = "queued"
  /\ UNCHANGED << fence[j], attempts[j] >>
  /\ FinishEventsOf(j)' = FinishEventsOf(j)

JobClaimed(j) ==
  /\ status[j] \in Claimable /\ status'[j] = "running"
  /\ assessment'[j] = AssessmentAfter(assessment[j], "running")
  /\ fence'[j] = fence[j] + 1 /\ UNCHANGED attempts[j]
  /\ FinishEventsOf(j)' = FinishEventsOf(j)

JobSucceeds(j) ==
  /\ status[j] = "running" /\ status'[j] = "succeeded"
  /\ assessment'[j] = AssessmentAfter(assessment[j], "succeeded")
  /\ UNCHANGED << fence[j], attempts[j] >>
  /\ FinishEventsOf(j)' = FinishEventsOf(j) \cup {<<j, "delivery", fence[j]>>}

JobFails(j) ==
  /\ status[j] = "running" /\ status'[j] = "failed"
  /\ assessment'[j] = AssessmentAfter(assessment[j], "failed")
  /\ UNCHANGED fence[j] /\ attempts'[j] = attempts[j] + 1
  /\ FinishEventsOf(j)' = FinishEventsOf(j) \cup {<<j, "terminal", fence[j]>>}

JobRecovered(j) ==
  /\ status[j] = "running" /\ status'[j] = "stale_recovered"
  /\ ~Exhausted(j)
  /\ assessment'[j] = AssessmentAfter(assessment[j], "stale_recovered")
  /\ UNCHANGED fence[j] /\ attempts'[j] = attempts[j] + 1
  /\ FinishEventsOf(j)' = FinishEventsOf(j)

JobPublished(j) ==
  /\ status[j] = "succeeded"
  /\ assessment[j] = "analyzing" /\ assessment'[j] = "completed"
  /\ UNCHANGED << status[j], fence[j], attempts[j] >>
  /\ FinishEventsOf(j)' = FinishEventsOf(j)

JobMoves(j) ==
  \/ JobStays(j)    \/ JobQueued(j) \/ JobClaimed(j)   \/ JobSucceeds(j)
  \/ JobFails(j)    \/ JobRecovered(j) \/ JobPublished(j)

\* An update of job.status with its trigger, as one job sees it.
LEMMA SetStatusRow ==
  ASSUME TypeOKDb, NEW new \in [Jobs -> JobStatus], SetStatus(new), NEW j \in Jobs
  PROVE  /\ status'[j] = new[j]
         /\ new[j] # status[j] =>
              /\ assessment'[j] = AssessmentAfter(assessment[j], new[j])
              /\ FinishEventsOf(j)' = FinishEventsOf(j) \cup FinishEvents(j, new[j])
         /\ new[j] = status[j] =>
              /\ assessment'[j] = assessment[j]
              /\ FinishEventsOf(j)' = FinishEventsOf(j)
<1> DEFINE changed == {i \in Jobs : new[i] # status[i]}
           added == UNION {FinishEvents(i, new[i]) : i \in changed}
<1>1. status' = new /\ events' = events \cup added
  BY DEF SetStatus
<1>2. assessment'[j] = IF j \in changed THEN AssessmentAfter(assessment[j], new[j])
                                        ELSE assessment[j]
  BY DEF SetStatus
<1>3. \A i : \A e \in FinishEvents(i, new[i]) : e[1] = i /\ e[2] # "queued"
  BY DEF FinishEvents
<1>4. {e \in added : e[1] = j /\ e[2] # "queued"} =
        IF j \in changed THEN FinishEvents(j, new[j]) ELSE {}
  BY <1>3
<1>5. FinishEventsOf(j)' =
        FinishEventsOf(j) \cup {e \in added : e[1] = j /\ e[2] # "queued"}
  <2> HIDE DEF added
  <2> QED BY <1>1 DEF FinishEventsOf
<1> HIDE DEF added
<1>6. QED BY <1>1, <1>2, <1>4, <1>5

\* queue_claim, as one job sees it.
LEMMA ClaimMoves ==
  ASSUME TypeOKDb, NEW w \in WorkerIds, NEW k \in Jobs, Claim(w, k), NEW j \in Jobs
  PROVE  IF j = k THEN JobClaimed(j) ELSE JobStays(j)
<1> DEFINE new == [status EXCEPT ![k] = "running"]
<1>1. new \in [Jobs -> JobStatus] /\ SetStatus(new)
  BY DEF TypeOKDb, Claim, JobStatus
<1>2. status[k] \in Claimable /\ new[k] = "running" /\ (j # k => new[j] = status[j])
  BY DEF Claim, Claimables, TypeOKDb
<1> HIDE DEF new
<1>3. FinishEvents(j, "running") = {}
  BY DEF FinishEvents
<1>4. /\ attempts' = attempts
      /\ IF j = k THEN fence'[j] = fence[j] + 1 ELSE fence'[j] = fence[j]
  BY DEF Claim, TakeLease, TypeOKDb
<1>5. status[k] # "running"
  BY <1>2 DEF Claimable
<1>6. CASE j = k
  BY <1>1, <1>2, <1>3, <1>4, <1>5, <1>6, SetStatusRow DEF JobClaimed
<1>7. CASE j # k
  BY <1>1, <1>2, <1>4, <1>7, SetStatusRow DEF JobStays
<1>8. QED BY <1>6, <1>7

\* queue_complete ...
LEMMA CompleteMoves ==
  ASSUME TypeOKDb, NEW w \in WorkerIds, NEW k \in Jobs, NEW f, Complete(w, k, f),
         NEW j \in Jobs
  PROVE  IF j = k THEN JobSucceeds(j) ELSE JobStays(j)
<1> DEFINE new == [status EXCEPT ![k] = "succeeded"]
<1>1. new \in [Jobs -> JobStatus] /\ SetStatus(new)
  BY DEF TypeOKDb, Complete, JobStatus
<1>2. status[k] = "running" /\ new[k] = "succeeded" /\ (j # k => new[j] = status[j])
  BY DEF Complete, HoldsLease, TypeOKDb
<1> HIDE DEF new
<1>3. FinishEvents(j, "succeeded") = {<<j, "delivery", fence[j]>>}
  BY DEF FinishEvents
<1>4. attempts' = attempts /\ fence' = fence
  BY DEF Complete
<1>5. CASE j = k
  BY <1>1, <1>2, <1>3, <1>4, <1>5, SetStatusRow DEF JobSucceeds
<1>6. CASE j # k
  BY <1>1, <1>2, <1>4, <1>6, SetStatusRow DEF JobStays
<1>7. QED BY <1>5, <1>6

\* ... and queue_fail end the job they name and touch no other ...
LEMMA FailMoves ==
  ASSUME TypeOKDb, NEW w \in WorkerIds, NEW k \in Jobs, NEW f, Fail(w, k, f),
         NEW j \in Jobs
  PROVE  IF j = k THEN JobFails(j) ELSE JobStays(j)
<1> DEFINE new == [status EXCEPT ![k] = "failed"]
<1>1. new \in [Jobs -> JobStatus] /\ SetStatus(new)
  BY DEF TypeOKDb, Fail, JobStatus
<1>2. status[k] = "running" /\ new[k] = "failed" /\ (j # k => new[j] = status[j])
  BY DEF Fail, HoldsLease, TypeOKDb
<1> HIDE DEF new
<1>3. FinishEvents(j, "failed") = {<<j, "terminal", fence[j]>>}
  BY DEF FinishEvents
<1>4. /\ fence' = fence
      /\ IF j = k THEN attempts'[j] = attempts[j] + 1 ELSE attempts'[j] = attempts[j]
  BY DEF Fail, TypeOKDb
<1>5. CASE j = k
  BY <1>1, <1>2, <1>3, <1>4, <1>5, SetStatusRow DEF JobFails
<1>6. CASE j # k
  BY <1>1, <1>2, <1>4, <1>6, SetStatusRow DEF JobStays
<1>7. QED BY <1>5, <1>6

\* ... and queue_reap fails or recovers the jobs of its batch, by their attempts.
LEMMA ReapMoves ==
  ASSUME TypeOKDb, Reap, NEW j \in Jobs
  PROVE  JobStays(j) \/ JobFails(j) \/ JobRecovered(j)
<1>1. PICK seen \in ExpiredViews : ReapJobs(FirstJobs(seen, ReapBatch))
  BY DEF Reap
<1> DEFINE batch == FirstJobs(seen, ReapBatch)
<1>2. batch \subseteq RunningJobs
  BY DEF FirstJobs, ExpiredViews
<1>3. ReapJobs(batch)
  BY <1>1
<1> HIDE DEF batch
<1> DEFINE new == ReapedStatus(batch)
<1>4. new \in [Jobs -> JobStatus] /\ SetStatus(new)
  BY <1>3 DEF ReapedStatus, ReapJobs, TypeOKDb, JobStatus
<1>5. new[j] = IF j \notin batch THEN status[j]
               ELSE IF Exhausted(j) THEN "failed" ELSE "stale_recovered"
  BY DEF ReapedStatus
<1>6. /\ fence' = fence
      /\ attempts'[j] = IF j \in batch THEN attempts[j] + 1 ELSE attempts[j]
  BY <1>3 DEF ReapJobs
<1> HIDE DEF new
<1>7. CASE j \notin batch
  BY <1>4, <1>5, <1>6, <1>7, SetStatusRow DEF JobStays
<1>8. CASE j \in batch
  <2>1. status[j] = "running"
    BY <1>2, <1>8 DEF RunningJobs
  <2>2. CASE Exhausted(j)
    <3>1. FinishEvents(j, "failed") = {<<j, "terminal", fence[j]>>}
      BY DEF FinishEvents
    <3>2. QED BY <1>4, <1>5, <1>6, <1>8, <2>1, <2>2, <3>1, SetStatusRow DEF JobFails
  <2>3. CASE ~Exhausted(j)
    <3>1. FinishEvents(j, "stale_recovered") = {}
      BY DEF FinishEvents
    <3>2. QED BY <1>4, <1>5, <1>6, <1>8, <2>1, <2>3, <3>1, SetStatusRow DEF JobRecovered
  <2>4. QED BY <2>2, <2>3
<1>9. QED BY <1>7, <1>8

\* queue_enqueue queues a job whose row did not exist, by its dedupe key.
LEMMA EnqueueMoves ==
  ASSUME TypeOKDb, NEW k \in Jobs, Enqueue(k), NEW j \in Jobs
  PROVE  IF j = k THEN JobQueued(j) ELSE JobStays(j)
<1>1. FinishEventsOf(j)' = FinishEventsOf(j)
  BY DEF Enqueue, FinishEventsOf
<1>2. status[k] = "none"
  BY DEF Enqueue, DedupeConflict
<1>3. CASE j = k
  BY <1>1, <1>2, <1>3 DEF Enqueue, JobQueued, TypeOKDb
<1>4. CASE j # k
  BY <1>1, <1>4 DEF Enqueue, JobStays, TypeOKDb
<1>5. QED BY <1>3, <1>4

\* The steps that change neither a status nor an event leave every job's rows,
\* but for the assessment that publishSucceededJob completes.
LEMMA QuietMoves ==
  ASSUME TypeOKDb, UNCHANGED << status, fence, attempts, events >>, NEW j \in Jobs
  PROVE  /\ UNCHANGED assessment => JobStays(j)
         /\ \A k \in Jobs : Publish(k) => JobStays(j) \/ JobPublished(j)
<1>1. FinishEventsOf(j)' = FinishEventsOf(j)
  BY DEF FinishEventsOf
<1>2. UNCHANGED assessment => JobStays(j)
  BY <1>1 DEF JobStays
<1>3. ASSUME NEW k \in Jobs, Publish(k) PROVE JobStays(j) \/ JobPublished(j)
  <2>1. CASE j = k
    BY <1>1, <1>3, <2>1 DEF Publish, JobPublished, TypeOKDb
  <2>2. CASE j # k
    BY <1>1, <1>3, <2>2 DEF Publish, JobStays, TypeOKDb
  <2>3. QED BY <2>1, <2>2
<1>4. QED BY <1>2, <1>3

\* Whatever anyone calls, a job makes one of the moves of JobMoves.
LEMMA RowMoves ==
  ASSUME TypeOKDb, [DbNext]_dbVars, NEW j \in Jobs
  PROVE  JobMoves(j)
<1>1. CASE \E k \in Jobs : Enqueue(k)
  BY <1>1, EnqueueMoves DEF JobMoves
<1>2. CASE \E k \in Jobs : LeaseAges(k) \/ BackoffElapses(k) \/ RecordAbort(k)
  <2>1. UNCHANGED << status, fence, attempts, events, assessment >>
    BY <1>2 DEF LeaseAges, BackoffElapses, RecordAbort
  <2>2. QED BY <2>1, QuietMoves DEF JobMoves
<1>3. CASE \E k \in Jobs : Publish(k)
  <2>1. UNCHANGED << status, fence, attempts, events >>
    BY <1>3 DEF Publish
  <2>2. QED BY <1>3, <2>1, QuietMoves DEF JobMoves
<1>4. CASE \E w \in WorkerIds, k \in Jobs : Claim(w, k)
  BY <1>4, ClaimMoves DEF JobMoves
<1>5. CASE \E w \in WorkerIds, k \in Jobs : \E f \in 0..fence[k] :
             Heartbeat(w, k, f) \/ Complete(w, k, f) \/ Fail(w, k, f) \/ RecordBegin(w, k, f)
  <2>1. PICK w \in WorkerIds, k \in Jobs : \E f \in 0..fence[k] :
             Heartbeat(w, k, f) \/ Complete(w, k, f) \/ Fail(w, k, f) \/ RecordBegin(w, k, f)
    BY <1>5
  <2>2. PICK f \in 0..fence[k] :
             Heartbeat(w, k, f) \/ Complete(w, k, f) \/ Fail(w, k, f) \/ RecordBegin(w, k, f)
    BY <2>1
  <2>3. CASE Heartbeat(w, k, f) \/ RecordBegin(w, k, f)
    <3>1. UNCHANGED << status, fence, attempts, events, assessment >>
      BY <2>3 DEF Heartbeat, RecordBegin
    <3>2. QED BY <3>1, QuietMoves DEF JobMoves
  <2>4. CASE Complete(w, k, f)
    BY <2>4, CompleteMoves DEF JobMoves
  <2>5. CASE Fail(w, k, f)
    BY <2>5, FailMoves DEF JobMoves
  <2>6. QED BY <2>2, <2>3, <2>4, <2>5
<1>6. CASE \E k \in Jobs : \E f \in 0..fence[k] : RecordCommit(k, f)
  <2>1. UNCHANGED << status, fence, attempts, events, assessment >>
    BY <1>6 DEF RecordCommit
  <2>2. QED BY <2>1, QuietMoves DEF JobMoves
<1>7. CASE Reap
  BY <1>7, ReapMoves DEF JobMoves
<1>8. CASE Reconcile \/ UNCHANGED dbVars
  <2>1. UNCHANGED << status, fence, attempts, events, assessment >>
    BY <1>8 DEF Reconcile, dbVars
  <2>2. QED BY <2>1, QuietMoves DEF JobMoves
<1>9. QED BY <1>1, <1>2, <1>3, <1>4, <1>5, <1>6, <1>7, <1>8 DEF DbNext

(***************************************************************************)
(* The invariants that follow a job's moves                                *)
(***************************************************************************)

\* AssessmentFollowsJob is kept by every move: the trigger finds the assessment
\* where the job's status says it is, so none of its WHERE clauses misses it.
LEMMA AssessmentStep ==
  ASSUME TypeOKDb, AssessmentFollowsJob, [DbNext]_dbVars
  PROVE  AssessmentFollowsJob'
<1> DEFINE Agree(s, a) == CASE s = "none"         -> a = "draft"
                           [] s \in Claimable    -> a = "queued"
                           [] s = "running"      -> a = "running"
                           [] s = "succeeded"    -> a \in {"analyzing", "completed"}
                           [] s = "failed"       -> a = "failed"
<1> SUFFICES ASSUME NEW j \in Jobs PROVE Agree(status'[j], assessment'[j])
  BY DEF AssessmentFollowsJob
<1>1. Agree(status[j], assessment[j])
  BY DEF AssessmentFollowsJob
<1>2. CASE JobStays(j)
  BY <1>1, <1>2 DEF JobStays
<1>3. CASE JobQueued(j)
  BY <1>3 DEF JobQueued, Claimable
<1>4. CASE JobClaimed(j)
  <2>1. assessment[j] = "queued" /\ status'[j] = "running"
    BY <1>1, <1>4 DEF JobClaimed, Claimable
  <2>2. assessment'[j] = "running"
    BY <1>4, <2>1 DEF JobClaimed, AssessmentAfter
  <2>3. QED BY <2>1, <2>2 DEF Claimable
<1>5. CASE JobSucceeds(j)
  <2>1. assessment[j] = "running" /\ status'[j] = "succeeded"
    BY <1>1, <1>5 DEF JobSucceeds, Claimable
  <2>2. assessment'[j] = "analyzing"
    BY <1>5, <2>1 DEF JobSucceeds, AssessmentAfter
  <2>3. QED BY <2>1, <2>2 DEF Claimable
<1>6. CASE JobFails(j)
  <2>1. assessment[j] = "running" /\ status'[j] = "failed"
    BY <1>1, <1>6 DEF JobFails, Claimable
  <2>2. assessment'[j] = "failed"
    BY <1>6, <2>1 DEF JobFails, AssessmentAfter
  <2>3. QED BY <2>1, <2>2 DEF Claimable
<1>7. CASE JobRecovered(j)
  <2>1. assessment[j] = "running" /\ status'[j] = "stale_recovered"
    BY <1>1, <1>7 DEF JobRecovered, Claimable
  <2>2. assessment'[j] = "queued"
    BY <1>7, <2>1 DEF JobRecovered, AssessmentAfter
  <2>3. QED BY <2>1, <2>2 DEF Claimable
<1>8. CASE JobPublished(j)
  BY <1>8 DEF JobPublished, Claimable
<1>9. QED BY <1>2, <1>3, <1>4, <1>5, <1>6, <1>7, <1>8, RowMoves DEF JobMoves

\* A claim costs a token and its end an attempt, and a job with no attempt left
\* to lose is failed instead of recovered.
LEMMA AttemptsStep ==
  ASSUME TypeOKDb, TypeOKDb', AttemptsAccountForClaims, [DbNext]_dbVars
  PROVE  AttemptsAccountForClaims'
<1> SUFFICES ASSUME NEW j \in Jobs
             PROVE  /\ fence'[j] = attempts'[j] +
                         (IF status'[j] \in {"running", "succeeded"} THEN 1 ELSE 0)
                    /\ attempts'[j] <= MaxAttempts
                    /\ status'[j] # "failed" => attempts'[j] < MaxAttempts
  BY DEF AttemptsAccountForClaims
<1>1. /\ fence[j] = attempts[j] +
             (IF status[j] \in {"running", "succeeded"} THEN 1 ELSE 0)
      /\ attempts[j] <= MaxAttempts
      /\ status[j] # "failed" => attempts[j] < MaxAttempts
      /\ fence[j] \in Nat /\ attempts[j] \in Nat /\ MaxAttempts \in Nat
  BY MaxAttemptsAssumption DEF AttemptsAccountForClaims, TypeOKDb
<1>2. CASE JobStays(j) \/ JobQueued(j) \/ JobPublished(j)
  BY <1>1, <1>2 DEF JobStays, JobQueued, JobPublished
<1>3. CASE JobClaimed(j)
  BY <1>1, <1>3 DEF JobClaimed, Claimable
<1>4. CASE JobSucceeds(j)
  BY <1>1, <1>4 DEF JobSucceeds
<1>5. CASE JobFails(j)
  BY <1>1, <1>5 DEF JobFails
<1>6. CASE JobRecovered(j)
  BY <1>1, <1>6 DEF JobRecovered, Exhausted
<1>7. QED BY <1>2, <1>3, <1>4, <1>5, <1>6, RowMoves DEF JobMoves

\* The event of a job's end is inserted with its end, and then the token stays.
LEMMA FinishStep ==
  ASSUME TypeOKDb, OneFinishEvent, [DbNext]_dbVars
  PROVE  OneFinishEvent'
<1> SUFFICES ASSUME NEW j \in Jobs
             PROVE  FinishEventsOf(j)' =
                      CASE status'[j] = "succeeded" -> {<<j, "delivery", fence'[j]>>}
                        [] status'[j] = "failed"    -> {<<j, "terminal", fence'[j]>>}
                        [] OTHER                    -> {}
  BY DEF OneFinishEvent
<1>1. FinishEventsOf(j) =
        CASE status[j] = "succeeded" -> {<<j, "delivery", fence[j]>>}
          [] status[j] = "failed"    -> {<<j, "terminal", fence[j]>>}
          [] OTHER                   -> {}
  BY DEF OneFinishEvent
<1>2. CASE JobStays(j) \/ JobPublished(j)
  BY <1>1, <1>2 DEF JobStays, JobPublished
<1>3. CASE JobQueued(j) \/ JobRecovered(j)
  BY <1>1, <1>3 DEF JobQueued, JobRecovered
<1>4. CASE JobClaimed(j)
  <2>1. FinishEventsOf(j) = {}
    BY <1>1, <1>4 DEF JobClaimed, Claimable
  <2>2. QED BY <1>4, <2>1 DEF JobClaimed
<1>5. CASE JobSucceeds(j)
  <2>1. FinishEventsOf(j) = {}
    BY <1>1, <1>5 DEF JobSucceeds
  <2>2. QED BY <1>5, <2>1 DEF JobSucceeds
<1>6. CASE JobFails(j)
  <2>1. FinishEventsOf(j) = {}
    BY <1>1, <1>6 DEF JobFails
  <2>2. QED BY <1>6, <2>1 DEF JobFails
<1>7. QED BY <1>2, <1>3, <1>4, <1>5, <1>6, RowMoves DEF JobMoves

\* Empty tables have all three.
LEMMA FollowInit ==
  InitDb => AssessmentFollowsJob /\ AttemptsAccountForClaims /\ OneFinishEvent
<1> SUFFICES ASSUME InitDb
             PROVE  AssessmentFollowsJob /\ AttemptsAccountForClaims /\ OneFinishEvent
  OBVIOUS
<1>1. AssessmentFollowsJob
  BY DEF InitDb, AssessmentFollowsJob, Claimable
<1>2. AttemptsAccountForClaims
  BY MaxAttemptsAssumption DEF InitDb, AttemptsAccountForClaims
<1>3. OneFinishEvent
  BY DEF InitDb, OneFinishEvent, FinishEventsOf
<1>4. QED BY <1>1, <1>2, <1>3

\* Whoever calls the queue functions, the assessment a customer sees and the job
\* agree at every moment: no transition of the trigger is ever missed.
THEOREM DbAssessmentFollowsJob == DbSpec => []AssessmentFollowsJob
<1>1. InitDb => TypeOKDb /\ AssessmentFollowsJob
  BY InitType, FollowInit
<1>2. TypeOKDb /\ AssessmentFollowsJob /\ [DbNext]_dbVars
        => (TypeOKDb /\ AssessmentFollowsJob)'
  BY StepType, AssessmentStep
<1>3. QED BY <1>1, <1>2, PTL DEF DbSpec

\* Every claim of a job is accounted for by an attempt or by its success, so no
\* job is claimed more than max_attempts times, however many workers are lost.
THEOREM DbAttemptsAccountForClaims == DbSpec => []AttemptsAccountForClaims
<1>1. InitDb => TypeOKDb /\ AttemptsAccountForClaims
  BY InitType, FollowInit
<1>2. TypeOKDb /\ AttemptsAccountForClaims /\ [DbNext]_dbVars
        => (TypeOKDb /\ AttemptsAccountForClaims)'
  BY StepType, AttemptsStep
<1>3. QED BY <1>1, <1>2, PTL DEF DbSpec

\* A finished job has exactly one outbox event, of its outcome and at its final
\* token, whatever its recoveries and repeated calls were.
THEOREM DbOneFinishEvent == DbSpec => []OneFinishEvent
<1>1. InitDb => TypeOKDb /\ OneFinishEvent
  BY InitType, FollowInit
<1>2. TypeOKDb /\ OneFinishEvent /\ [DbNext]_dbVars => (TypeOKDb /\ OneFinishEvent)'
  BY StepType, FinishStep
<1>3. QED BY <1>1, <1>2, PTL DEF DbSpec

(***************************************************************************)
(* The counters with a reconciler                                          *)
(***************************************************************************)

\* Counters that are, tenant by tenant, no more than the tenants' running jobs
\* add up to no more than the running jobs: distinct tenants run distinct jobs.
LEMMA TotalBound ==
  ASSUME NEW count \in [Accounts -> Nat],
         \A a \in Accounts : count[a] <= Cardinality(RunningOf(a))
  PROVE  Total(count) <= Cardinality(RunningJobs)
<1> DEFINE slots == UNION {{a} \X (1..count[a]) : a \in Accounts}
           number == [a \in Accounts |->
                       CHOOSE f : f \in Bijection(1..Cardinality(RunningOf(a)), RunningOf(a))]
           job == [s \in slots |-> number[s[1]][s[2]]]
<1>1. \A a \in Accounts :
        number[a] \in Bijection(1..Cardinality(RunningOf(a)), RunningOf(a))
  <2> TAKE a \in Accounts
  <2>1. ExistsBijection(1..Cardinality(RunningOf(a)), RunningOf(a))
    BY RunningSets, FS_CardinalityType
  <2>2. QED BY <2>1 DEF ExistsBijection
<1>2. \A s \in slots : /\ s = <<s[1], s[2]>>
                       /\ s[1] \in Accounts
                       /\ s[2] \in 1..Cardinality(RunningOf(s[1]))
  <2> TAKE s \in slots
  <2>1. PICK a \in Accounts : s \in {a} \X (1..count[a])
    OBVIOUS
  <2>2. s = <<s[1], s[2]>> /\ s[1] = a /\ s[2] \in 1..count[a]
    BY <2>1
  <2>3. count[a] \in Nat /\ Cardinality(RunningOf(a)) \in Nat
        /\ count[a] <= Cardinality(RunningOf(a))
    BY <2>1, RunningSets
  <2> HIDE DEF slots
  <2>4. s[2] \in 1..Cardinality(RunningOf(a))
    BY <2>2, <2>3
  <2>5. QED BY <2>1, <2>2, <2>4
<1> HIDE DEF slots, number
<1>3. \A s \in slots : job[s] \in RunningOf(s[1])
  BY <1>1, <1>2 DEF Bijection, Injection
<1>4. job \in [slots -> RunningJobs]
  BY <1>3, RunningSets
<1>5. ASSUME NEW s \in slots, NEW t \in slots, job[s] = job[t] PROVE s = t
  <2>1. s[1] = t[1]
    BY <1>3, <1>5 DEF RunningOf
  <2>2. number[s[1]][s[2]] = number[s[1]][t[2]]
    BY <1>5, <2>1
  <2> DEFINE indices == 1..Cardinality(RunningOf(s[1]))
  <2>3. number[s[1]] \in Bijection(indices, RunningOf(s[1]))
    BY <1>1, <1>2
  <2>4. s[2] \in indices /\ t[2] \in indices
    BY <1>2, <2>1
  <2> HIDE DEF indices
  <2>5. \A x, y \in indices : number[s[1]][x] = number[s[1]][y] => x = y
    BY <2>3 DEF Bijection, Injection, IsInjective
  <2>6. QED BY <1>2, <2>1, <2>2, <2>4, <2>5
<1>6. job \in Injection(slots, RunningJobs)
  BY <1>4, <1>5 DEF Injection, IsInjective
<1> HIDE DEF job
<1>7. Cardinality(slots) <= Cardinality(RunningJobs)
  BY <1>6, RunningSets, FS_Injection
<1>8. QED BY <1>7 DEF Total, slots

\* A batch that leaves "running" takes at most what the counters have, and at
\* least what the jobs no longer run.
LEMMA ReleaseNever ==
  ASSUME TypeOKDb, NeverOvercounted,
         NEW batch, batch \subseteq RunningJobs,
         RunningJobs' = RunningJobs \ batch,
         ReleaseSlots(batch)
  PROVE  NeverOvercounted'
<1>1. ASSUME NEW S, IsFiniteSet(S), NEW B, B \subseteq S,
             NEW n \in Nat, n <= Cardinality(S)
      PROVE  Less(n, Cardinality(B)) <= Cardinality(S \ B)
  <2>1. /\ IsFiniteSet(B) /\ Cardinality(B) \in Nat /\ Cardinality(B) <= Cardinality(S)
        /\ Cardinality(S) \in Nat
    BY <1>1, FS_Subset, FS_CardinalityType
  <2>2. S \cap B = B
    BY <1>1
  <2>3. Cardinality(S \ B) = Cardinality(S) - Cardinality(B)
    BY <1>1, <2>2, FS_Difference
  <2>4. QED BY <1>1, <2>1, <2>3 DEF Less
<1>2. globalRunning' <= Cardinality(RunningJobs')
  <2>1. globalRunning' = Less(globalRunning, Cardinality(batch))
    BY DEF ReleaseSlots
  <2>2. globalRunning \in Nat /\ globalRunning <= Cardinality(RunningJobs)
    BY DEF NeverOvercounted, TypeOKDb
  <2>3. QED BY <1>1, <2>1, <2>2, RunningSets
<1>3. ASSUME NEW a \in Accounts PROVE tenantRunning'[a] <= Cardinality(RunningOf(a)')
  <2> DEFINE mine == {j \in batch : AccountOf[j] = a}
  <2>1. mine \subseteq RunningOf(a) /\ RunningOf(a)' = RunningOf(a) \ mine
    BY DEF RunningOf
  <2>2. tenantRunning'[a] = Less(tenantRunning[a], Cardinality(mine))
    BY DEF ReleaseSlots
  <2>3. tenantRunning[a] \in Nat /\ tenantRunning[a] <= Cardinality(RunningOf(a))
    BY DEF NeverOvercounted, TypeOKDb
  <2> HIDE DEF mine
  <2>4. QED BY <1>1, <2>1, <2>2, <2>3, RunningSets
<1>4. QED BY <1>2, <1>3 DEF NeverOvercounted

\* queue_claim counts a job that it sets running.
LEMMA ClaimNever ==
  ASSUME TypeOKDb, NeverOvercounted, NEW w \in WorkerIds, NEW j \in Jobs, Claim(w, j)
  PROVE  NeverOvercounted'
<1>1. status' = [status EXCEPT ![j] = "running"] /\ status[j] # "running"
  BY DEF Claim, SetStatus, Claimables, Claimable
<1>2. RunningJobs' = RunningJobs \cup {j} /\ j \notin RunningJobs
  BY <1>1 DEF RunningJobs, TypeOKDb
<1>3. globalRunning' <= Cardinality(RunningJobs')
  <2>1. Cardinality(RunningJobs') = Cardinality(RunningJobs) + 1
    BY <1>2, RunningSets, FS_AddElement
  <2>2. Cardinality(RunningJobs) \in Nat /\ globalRunning' = globalRunning + 1
    BY RunningSets DEF Claim
  <2>3. QED BY <2>1, <2>2 DEF NeverOvercounted, TypeOKDb
<1>4. ASSUME NEW a \in Accounts PROVE tenantRunning'[a] <= Cardinality(RunningOf(a)')
  <2>1. tenantRunning[a] \in Nat /\ tenantRunning[a] <= Cardinality(RunningOf(a))
    BY DEF NeverOvercounted, TypeOKDb
  <2>2. Cardinality(RunningOf(a)) \in Nat
    BY RunningSets
  <2>3. CASE a = AccountOf[j]
    <3>1. RunningOf(a)' = RunningOf(a) \cup {j} /\ j \notin RunningOf(a)
      BY <1>2, <2>3 DEF RunningOf
    <3>2. Cardinality(RunningOf(a)') = Cardinality(RunningOf(a)) + 1
      BY <3>1, RunningSets, FS_AddElement
    <3>3. tenantRunning'[a] = tenantRunning[a] + 1
      BY <2>3 DEF Claim, TypeOKDb
    <3>4. QED BY <2>1, <2>2, <3>2, <3>3
  <2>4. CASE a # AccountOf[j]
    <3>1. RunningOf(a)' = RunningOf(a)
      BY <1>2, <2>4 DEF RunningOf
    <3>2. tenantRunning'[a] = tenantRunning[a]
      BY <2>4 DEF Claim, TypeOKDb
    <3>3. QED BY <2>1, <3>1, <3>2
  <2>5. QED BY <2>3, <2>4
<1>5. QED BY <1>3, <1>4 DEF NeverOvercounted

\* queue_complete and queue_fail release the slot of a running job, queue_reap
\* those of a batch of them.
LEMMA EndNever ==
  ASSUME TypeOKDb, NeverOvercounted
  PROVE  /\ \A w \in WorkerIds, j \in Jobs : \A f :
              Complete(w, j, f) \/ Fail(w, j, f) => NeverOvercounted'
         /\ Reap => NeverOvercounted'
<1>1. ASSUME NEW w \in WorkerIds, NEW j \in Jobs, NEW f, Complete(w, j, f) \/ Fail(w, j, f)
      PROVE  NeverOvercounted'
  <2>1. /\ status[j] = "running" /\ ReleaseSlots({j})
        /\ \E s \in {"succeeded", "failed"} : status' = [status EXCEPT ![j] = s]
    BY <1>1 DEF Complete, Fail, HoldsLease, SetStatus
  <2>2. {j} \subseteq RunningJobs /\ RunningJobs' = RunningJobs \ {j}
    BY <2>1 DEF RunningJobs, TypeOKDb
  <2>3. QED BY <2>1, <2>2, ReleaseNever
<1>2. ASSUME Reap PROVE NeverOvercounted'
  <2>1. PICK seen \in ExpiredViews : ReapJobs(FirstJobs(seen, ReapBatch))
    BY <1>2 DEF Reap
  <2> DEFINE batch == FirstJobs(seen, ReapBatch)
  <2>2. batch \subseteq RunningJobs
    BY DEF FirstJobs, ExpiredViews
  <2>3. status' = ReapedStatus(batch) /\ ReleaseSlots(batch)
    BY <2>1 DEF ReapJobs, SetStatus
  <2> HIDE DEF batch
  <2>4. RunningJobs' = RunningJobs \ batch
    BY <2>2, <2>3 DEF RunningJobs, ReapedStatus, TypeOKDb
  <2>5. QED BY <2>2, <2>3, <2>4, ReleaseNever
<1>3. QED BY <1>1, <1>2

\* queue_reconcile counts only running jobs, though not those whose rows it
\* skips, and adds the tenants' counters up.
LEMMA ReconcileNever ==
  ASSUME TypeOKDb, NeverOvercounted, Reconcile
  PROVE  NeverOvercounted'
<1> DEFINE recount == [a \in Accounts |->
                        IF a \in FirstAccounts(ReconcileBatch)
                        THEN Cardinality(RunningOf(a) \ locked)
                        ELSE tenantRunning[a]]
<1>1. \A a \in Accounts :
        /\ Cardinality(RunningOf(a) \ locked) \in Nat
        /\ Cardinality(RunningOf(a) \ locked) <= Cardinality(RunningOf(a))
  <2> TAKE a \in Accounts
  <2>1. RunningOf(a) \ locked \subseteq RunningOf(a)
    OBVIOUS
  <2>2. QED BY <2>1, RunningSets, FS_Subset, FS_CardinalityType
<1>2. recount \in [Accounts -> Nat]
  BY <1>1 DEF TypeOKDb
<1>3. \A a \in Accounts : recount[a] <= Cardinality(RunningOf(a))
  BY <1>1 DEF NeverOvercounted
<1>4. tenantRunning' = recount /\ globalRunning' = Total(recount) /\ UNCHANGED status
  BY DEF Reconcile
<1> HIDE DEF recount
<1>5. Total(recount) <= Cardinality(RunningJobs)
  BY <1>2, <1>3, TotalBound
<1>6. RunningJobs' = RunningJobs /\ \A a : RunningOf(a)' = RunningOf(a)
  BY <1>4 DEF RunningJobs, RunningOf
<1>7. QED BY <1>3, <1>4, <1>5, <1>6 DEF NeverOvercounted

\* No step makes a counter exceed the running jobs.
LEMMA NeverStep ==
  ASSUME TypeOKDb, NeverOvercounted, [DbNext]_dbVars
  PROVE  NeverOvercounted'
<1> DEFINE quiet == UNCHANGED << tenantRunning, globalRunning >> /\ RunningJobs' = RunningJobs
<1>1. ASSUME quiet PROVE NeverOvercounted'
  BY <1>1 DEF NeverOvercounted, RunningOf
<1>2. CASE \E j \in Jobs : Enqueue(j)
  <2>1. quiet
    BY <1>2, EnqueueQuiet DEF Enqueue
  <2>2. QED BY <1>1, <2>1
<1>3. CASE \E w \in WorkerIds, j \in Jobs : Claim(w, j)
  BY <1>3, ClaimNever
<1>4. CASE \E w \in WorkerIds, j \in Jobs : \E f \in 0..fence[j] :
             Complete(w, j, f) \/ Fail(w, j, f)
  BY <1>4, EndNever
<1>5. CASE Reap
  BY <1>5, EndNever
<1>6. CASE Reconcile
  BY <1>6, ReconcileNever
<1>7. CASE \/ \E j \in Jobs : LeaseAges(j) \/ BackoffElapses(j) \/ Publish(j)
           \/ \E w \in WorkerIds, j \in Jobs : \E f \in 0..fence[j] :
                Heartbeat(w, j, f) \/ RecordBegin(w, j, f)
           \/ \E j \in Jobs : \E f \in 0..fence[j] : RecordCommit(j, f)
           \/ \E j \in Jobs : RecordAbort(j)
           \/ UNCHANGED dbVars
  <2>1. UNCHANGED << tenantRunning, globalRunning, status >>
    BY <1>7 DEF LeaseAges, BackoffElapses, Publish, Heartbeat, RecordBegin, RecordCommit,
                RecordAbort, dbVars
  <2>2. QED BY <1>1, <2>1 DEF RunningJobs
<1>8. QED BY <1>2, <1>3, <1>4, <1>5, <1>6, <1>7 DEF DbNext

\* Whatever rows the reconciler skips, and whenever it runs, the counters never
\* exceed the jobs that run: no queued job waits for a slot that nobody uses.
THEOREM DbNeverOvercounted == DbSpec => []NeverOvercounted
<1>1. InitDb => TypeOKDb /\ NeverOvercounted
  <2> SUFFICES ASSUME InitDb PROVE NeverOvercounted
    BY InitType
  <2>1. Cardinality(RunningJobs) \in Nat /\ \A a : Cardinality(RunningOf(a)) \in Nat
    BY RunningSets
  <2>2. QED BY <2>1 DEF InitDb, NeverOvercounted
<1>2. TypeOKDb /\ NeverOvercounted /\ [DbNext]_dbVars => (TypeOKDb /\ NeverOvercounted)'
  BY StepType, NeverStep
<1>3. QED BY <1>1, <1>2, PTL DEF DbSpec

(***************************************************************************)
(* Locked rows                                                             *)
(***************************************************************************)

\* Only the row of a running job is ever locked by a recording transaction.
LockedRun == locked \subseteq RunningJobs

\* A step that leaves a row locked was not one of the calls that wait for it or
\* skip it, nor one for a job that does not run.
LEMMA LockedStep ==
  ASSUME TypeOKDb, LockedRun, [DbNext]_dbVars
  PROVE  /\ LockedRun'
         /\ \A j \in locked : j \in locked' =>
              UNCHANGED << status[j], leaseOwner[j], fence[j], attempts[j] >>
<1> DEFINE kept(j) == UNCHANGED << status[j], leaseOwner[j], fence[j], attempts[j] >>
<1>1. ASSUME locked' \subseteq locked, \A j \in locked : kept(j)
      PROVE  LockedRun' /\ \A j \in locked : kept(j)
  BY <1>1 DEF LockedRun, RunningJobs
<1>2. \A j \in locked : j \in Jobs /\ status[j] = "running"
  BY DEF LockedRun, RunningJobs
<1>3. CASE \E k \in Jobs : Enqueue(k)
  <2>1. PICK k \in Jobs : Enqueue(k)
    BY <1>3
  <2>2. status[k] = "none"
    BY <2>1 DEF Enqueue, DedupeConflict
  <2>3. locked' \subseteq locked /\ \A j \in locked : kept(j)
    BY <1>2, <2>1, <2>2 DEF Enqueue, TypeOKDb
  <2>4. QED BY <1>1, <2>3
<1>4. CASE \E w \in WorkerIds, k \in Jobs : Claim(w, k)
  <2>1. PICK w \in WorkerIds, k \in Jobs : Claim(w, k)
    BY <1>4
  <2>2. /\ k \notin locked /\ locked' = locked /\ attempts' = attempts
        /\ status' = [status EXCEPT ![k] = "running"]
        /\ leaseOwner' = [leaseOwner EXCEPT ![k] = w]
        /\ fence' = [fence EXCEPT ![k] = @ + 1]
    BY <2>1 DEF Claim, SetStatus, TakeLease
  <2>3. locked' \subseteq locked /\ \A j \in locked : kept(j)
    BY <1>2, <2>2 DEF TypeOKDb
  <2>4. QED BY <1>1, <2>3
<1>5. CASE \E w \in WorkerIds, k \in Jobs : \E f \in 0..fence[k] :
             Complete(w, k, f) \/ Fail(w, k, f)
  <2>1. PICK w \in WorkerIds, k \in Jobs : \E f \in 0..fence[k] :
             Complete(w, k, f) \/ Fail(w, k, f)
    BY <1>5
  <2>2. /\ k \notin locked /\ locked' = locked /\ ClearLease({k}) /\ fence' = fence
        /\ \E s \in {"succeeded", "failed"} : status' = [status EXCEPT ![k] = s]
        /\ attempts' = attempts \/ attempts' = [attempts EXCEPT ![k] = @ + 1]
    BY <2>1 DEF Complete, Fail, SetStatus
  <2>3. locked' \subseteq locked /\ \A j \in locked : kept(j)
    BY <1>2, <2>2 DEF TypeOKDb, ClearLease
  <2>4. QED BY <1>1, <2>3
<1>6. CASE Reap
  <2>1. PICK seen \in ExpiredViews : ReapJobs(FirstJobs(seen, ReapBatch))
    BY <1>6 DEF Reap
  <2> DEFINE batch == FirstJobs(seen, ReapBatch)
  <2>2. batch \cap locked = {}
    BY DEF FirstJobs, ExpiredViews
  <2>3. ReapJobs(batch)
    BY <2>1
  <2> HIDE DEF batch
  <2>4. locked' \subseteq locked /\ \A j \in locked : kept(j)
    BY <1>2, <2>2, <2>3 DEF ReapJobs, SetStatus, ReapedStatus, ClearLease
  <2>5. QED BY <1>1, <2>4
<1>7. CASE \E w \in WorkerIds, k \in Jobs : \E f \in 0..fence[k] : RecordBegin(w, k, f)
  <2>1. PICK k \in Jobs : /\ status[k] = "running" /\ locked' = locked \cup {k}
                          /\ UNCHANGED << status, leaseOwner, fence, attempts >>
    BY <1>7 DEF RecordBegin, HoldsLease
  <2>2. QED BY <2>1 DEF LockedRun, RunningJobs
<1>8. CASE \/ \E k \in Jobs : LeaseAges(k) \/ BackoffElapses(k) \/ Publish(k)
           \/ \E w \in WorkerIds, k \in Jobs : \E f \in 0..fence[k] : Heartbeat(w, k, f)
           \/ \E k \in Jobs : \E f \in 0..fence[k] : RecordCommit(k, f)
           \/ \E k \in Jobs : RecordAbort(k)
           \/ Reconcile
           \/ UNCHANGED dbVars
  <2>1. locked' \subseteq locked /\ UNCHANGED << status, leaseOwner, fence, attempts >>
    BY <1>8 DEF LeaseAges, BackoffElapses, Publish, Heartbeat, RecordCommit, RecordAbort,
                Reconcile, dbVars
  <2>2. QED BY <1>1, <2>1
<1>9. QED BY <1>3, <1>4, <1>5, <1>6, <1>7, <1>8 DEF DbNext

\* From the SELECT ... FOR UPDATE of recordClaimedRunnerResult to its COMMIT no
\* call ends, recovers or claims the job: what it checked still holds then.
THEOREM DbLockedRowStable == DbSpec => LockedRowStable
<1>1. InitDb => TypeOKDb /\ LockedRun
  BY InitType DEF InitDb, LockedRun
<1>2. TypeOKDb /\ LockedRun /\ [DbNext]_dbVars => (TypeOKDb /\ LockedRun)'
  BY StepType, LockedStep
<1>3. TypeOKDb /\ LockedRun /\ [DbNext]_dbVars
        => [\A j \in locked : j \in locked' =>
              UNCHANGED << status[j], leaseOwner[j], fence[j], attempts[j] >>]_dbVars
  BY LockedStep
<1>4. QED BY <1>1, <1>2, <1>3, PTL DEF DbSpec, LockedRowStable

(***************************************************************************)
(* Turns                                                                   *)
(***************************************************************************)

IsServed(a) == \E j \in Jobs : /\ AccountOf[j] = a
                             /\ status[j] # "running" /\ status'[j] = "running"

\* The tenants that NULLS FIRST, account_id still puts before a new tenant a.
NewBefore(a) == {b \in Accounts : dispatched[b] = 0 /\ b < a}

\* A step gives a slot to no tenant but the one that queue_claim serves.
LEMMA OnlyClaimBegins ==
  ASSUME TypeOKDb, [DbNext]_dbVars
  PROVE  \/ dispatched' = dispatched /\ \A a : ~IsServed(a)
         \/ \E w \in WorkerIds, j \in Jobs :
              Claim(w, j) /\ \A a : IsServed(a) => a = AccountOf[j]
<1>1. CASE \E w \in WorkerIds, j \in Jobs : Claim(w, j)
  <2>1. PICK w \in WorkerIds, j \in Jobs : Claim(w, j)
    BY <1>1
  <2>2. status' = [status EXCEPT ![j] = "running"]
    BY <2>1 DEF Claim, SetStatus
  <2>3. \A a : IsServed(a) => a = AccountOf[j]
    BY <2>2 DEF IsServed, TypeOKDb
  <2>4. QED BY <2>1, <2>3
<1>2. CASE ~ \E w \in WorkerIds, j \in Jobs : Claim(w, j)
  <2>1. dispatched' = dispatched
    BY <1>2 DEF DbNext, dbVars, Enqueue, LeaseAges, BackoffElapses, Publish, Heartbeat,
                Complete, Fail, RecordBegin, RecordCommit, RecordAbort, Reap, ReapJobs,
                Reconcile
  <2>2. \A j \in Jobs : fence'[j] = fence[j]
    BY <1>2 DEF DbNext, dbVars, Enqueue, LeaseAges, BackoffElapses, Publish, Heartbeat,
                Complete, Fail, RecordBegin, RecordCommit, RecordAbort, Reap, ReapJobs,
                Reconcile
  <2>3. ASSUME NEW j \in Jobs, status[j] # "running", status'[j] = "running" PROVE FALSE
    <3>1. JobClaimed(j)
      BY <2>3, RowMoves DEF JobMoves, JobStays, JobQueued, JobSucceeds, JobFails,
                            JobRecovered, JobPublished
    <3>2. QED BY <2>2, <3>1 DEF JobClaimed, TypeOKDb
  <2>4. QED BY <2>1, <2>3 DEF IsServed
<1>3. QED BY <1>1, <1>2

\* A claim stamps its tenant with an instant, which is not NULL, and no other.
LEMMA ClaimStamps ==
  ASSUME TypeOKDb, NEW w \in WorkerIds, NEW j \in Jobs, Claim(w, j)
  PROVE  /\ dispatched'[AccountOf[j]] # 0
         /\ \A b \in Accounts : b # AccountOf[j] => dispatched'[b] = dispatched[b]
<1>1. PICK now \in Instants : dispatched' = [dispatched EXCEPT ![AccountOf[j]] = now]
  BY DEF Claim
<1>2. now # 0
  BY InstantsAssumption
<1>3. QED BY <1>1, <1>2, AccountOfAssumption DEF TypeOKDb

\* New tenants take turns, whatever the clocks of the callers read: while a
\* tenant that was never dispatched has a claimable job and a free slot, a claim
\* serves it, or another new tenant with a smaller id, which is then new no more.
\* So the claims that pass it by are no more than those tenants, however many
\* jobs anybody else has queued.  (Tenants that were dispatched before have no
\* such turns: p_now is the clock of the calling host.)
THEOREM DbNewTenantsTakeTurns ==
  DbSpec => [][\A a \in Accounts : dispatched[a] = 0 /\ Dispatchable(a) =>
                 /\ NewBefore(a)' \subseteq NewBefore(a)
                 /\ \A b \in Accounts \ {a} :
                      IsServed(b) => b \in NewBefore(a) \ NewBefore(a)']_dbVars
<1> DEFINE turns == \A a \in Accounts : dispatched[a] = 0 /\ Dispatchable(a) =>
                      /\ NewBefore(a)' \subseteq NewBefore(a)
                      /\ \A b \in Accounts \ {a} :
                           IsServed(b) => b \in NewBefore(a) \ NewBefore(a)'
<1>1. InitDb => TypeOKDb
  BY InitType
<1>2. TypeOKDb /\ [DbNext]_dbVars => TypeOKDb'
  BY StepType
<1>3. TypeOKDb /\ [DbNext]_dbVars => [turns]_dbVars
  <2> SUFFICES ASSUME TypeOKDb, [DbNext]_dbVars, NEW a \in Accounts,
                      dispatched[a] = 0, Dispatchable(a)
               PROVE  /\ NewBefore(a)' \subseteq NewBefore(a)
                      /\ \A b \in Accounts \ {a} :
                           IsServed(b) => b \in NewBefore(a) \ NewBefore(a)'
    OBVIOUS
  <2>1. CASE dispatched' = dispatched /\ \A c : ~IsServed(c)
    BY <2>1 DEF NewBefore
  <2>2. CASE \E w \in WorkerIds, j \in Jobs :
               Claim(w, j) /\ \A c : IsServed(c) => c = AccountOf[j]
    <3>1. PICK w \in WorkerIds, j \in Jobs :
               Claim(w, j) /\ \A c : IsServed(c) => c = AccountOf[j]
      BY <2>2
    <3>2. AccountOf[j] \in Accounts
      BY AccountOfAssumption
    <3>3. /\ dispatched'[AccountOf[j]] # 0
          /\ \A b \in Accounts : b # AccountOf[j] => dispatched'[b] = dispatched[b]
      BY <3>1, ClaimStamps
    <3>4. NewBefore(a)' \subseteq NewBefore(a) /\ AccountOf[j] \notin NewBefore(a)'
      BY <3>3 DEF NewBefore
    <3>5. ASSUME NEW b \in Accounts \ {a}, IsServed(b)
          PROVE  b \in NewBefore(a) \ NewBefore(a)'
      <4>1. b = AccountOf[j] /\ ServedBefore(b, a)
        BY <3>1, <3>2, <3>5 DEF Claim, NextTenant
      <4>2. ~(dispatched[b] < 0)
        <5>1. dispatched[b] \in Nat
          <6>1. dispatched \in [Accounts -> Instants \cup {0}]
            BY DEF TypeOKDb
          <6>2. b \in Accounts
            OBVIOUS
          <6>3. dispatched[b] \in Instants \cup {0}
            BY <6>1, <6>2
          <6>4. 0 \in Nat
            OBVIOUS
          <6>5. QED BY <6>3, <6>4, InstantsAssumption
        <5>2. \A n \in Nat : ~(n < 0)
          OBVIOUS
        <5>3. QED BY <5>1, <5>2
      <4>3. b \in NewBefore(a)
        BY <4>1, <4>2 DEF ServedBefore, NewBefore
      <4>4. QED BY <3>4, <4>1, <4>3
    <3>6. QED BY <3>4, <3>5
  <2>3. QED BY <2>1, <2>2, OnlyClaimBegins
<1>4. QED BY <1>1, <1>2, <1>3, PTL DEF DbSpec

=============================================================================
