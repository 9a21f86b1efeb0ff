------------------------------ MODULE JobQueue ------------------------------
(***************************************************************************)
(* The job queue with the processes that use it: the API that enqueues     *)
(* (tenant-assessment.ts), the workers of apps/worker-control running      *)
(* runExecutionCycle (service.ts), the reaper and the reconciler.          *)
(*                                                                         *)
(* A worker runs one cycle at a time.  Its calls of queue_complete and     *)
(* queue_fail travel in calls: a call that the worker gave up on, or whose *)
(* worker died, may still be executed by the server later.                 *)
(***************************************************************************)
EXTENDS QueueControl

CONSTANTS
  NoJob,
  MaxCalls      \* bound on the calls in flight at once

ASSUME NoJobAssumption == NoJob \notin Jobs
ASSUME MaxCallsAssumption == MaxCalls \in Nat \ {0}

VARIABLES
  pc,       \* where each worker is in runExecutionCycle
  task,     \* the job of its claim
  token,    \* the fencing token of its claim
  calls     \* calls sent and not yet executed: <<operation, worker, job, fence>>

workerVars == << pc, task, token >>
vars == << dbVars, workerVars, calls >>

Label == {"idle", "claimed", "executing", "leaseLost", "executed", "recording",
          "recorded", "completing", "failing", "ending"}
Call == {"complete", "fail"} \X WorkerIds \X Jobs \X Nat

TypeOK ==
  /\ TypeOKDb
  /\ pc \in [WorkerIds -> Label]
  /\ task \in [WorkerIds -> Jobs \cup {NoJob}]
  /\ token \in [WorkerIds -> Nat]
  /\ calls \subseteq Call

Init ==
  /\ InitDb
  /\ pc = [w \in WorkerIds |-> "idle"]
  /\ task = [w \in WorkerIds |-> NoJob]
  /\ token = [w \in WorkerIds |-> 0]
  /\ calls = {}

-----------------------------------------------------------------------------
(***************************************************************************)
(* A worker's cycle                                                        *)
(***************************************************************************)

Goto(w, label) ==
  /\ pc' = [pc EXCEPT ![w] = label]
  /\ UNCHANGED << task, token >>

\* The cycle returns; the loop of runWorkerLoop starts the next one.
Return(w) ==
  /\ pc' = [pc EXCEPT ![w] = "idle"]
  /\ task' = [task EXCEPT ![w] = NoJob]
  /\ token' = [token EXCEPT ![w] = 0]

HasLease(w) == HoldsLease(w, task[w], token[w])

ClaimJob(w) ==
  /\ pc[w] = "idle"
  /\ \E j \in Jobs :
       /\ Claim(w, j)
       /\ pc' = [pc EXCEPT ![w] = "claimed"]
       /\ task' = [task EXCEPT ![w] = j]
       /\ token' = [token EXCEPT ![w] = fence'[j]]
  /\ UNCHANGED calls

\* The claim commits and the worker never hears of it.
ClaimReplyLost(w) ==
  /\ pc[w] = "idle"
  /\ \E j \in Jobs : Claim(w, j)
  /\ UNCHANGED << workerVars, calls >>

\* loadClaimedJob finds the row still held and its lease not over.
LoadJob(w) ==
  /\ pc[w] = "claimed"
  /\ HasLease(w) /\ LeaseNotOver(task[w])
  /\ Goto(w, "executing")
  /\ UNCHANGED << dbVars, calls >>

RenewLease(w) ==
  /\ pc[w] = "executing"
  /\ Heartbeat(w, task[w], token[w])
  /\ UNCHANGED << workerVars, calls >>

\* The heartbeat returned null or threw: leaseLost, and the abort signal.
HeartbeatLost(w) ==
  /\ pc[w] = "executing"
  /\ Goto(w, "leaseLost")
  /\ UNCHANGED << dbVars, calls >>

ExecuteDone(w) ==
  /\ pc[w] = "executing"
  /\ Goto(w, "executed")
  /\ UNCHANGED << dbVars, calls >>

\* The early returns that leave the job row as it is: loadClaimedJob or
\* recordResult found no row with a lease, or the lease was lost.
Abandon(w) ==
  /\ \/ /\ pc[w] \in {"claimed", "executed"}
        /\ ~(HasLease(w) /\ lease[task[w]] = "live")
     \/ pc[w] = "leaseLost"
  /\ Return(w)
  /\ UNCHANGED << dbVars, calls >>

\* An exception reaches the catch clause of the cycle.
Throw(w) ==
  /\ pc[w] \in {"claimed", "executing", "leaseLost", "executed", "completing"}
  /\ Goto(w, "failing")
  /\ UNCHANGED << dbVars, calls >>

RecordOpens(w) ==
  /\ pc[w] = "executed"
  /\ RecordBegin(w, task[w], token[w])
  /\ Goto(w, "recording")
  /\ UNCHANGED calls

\* The transaction commits; its reply may be lost.
RecordCommits(w) ==
  /\ pc[w] = "recording"
  /\ RecordCommit(task[w], token[w])
  /\ Goto(w, "recorded") \/ Goto(w, "failing")
  /\ UNCHANGED calls

RecordAborts(w) ==
  /\ pc[w] = "recording"
  /\ RecordAbort(task[w])
  /\ Goto(w, "failing")
  /\ UNCHANGED calls

SendComplete(w) ==
  /\ pc[w] = "recorded"
  /\ Cardinality(calls) < MaxCalls
  /\ calls' = calls \cup {<<"complete", w, task[w], token[w]>>}
  /\ Goto(w, "completing")
  /\ UNCHANGED dbVars

SendFail(w) ==
  /\ pc[w] = "failing"
  /\ Cardinality(calls) < MaxCalls
  /\ calls' = calls \cup {<<"fail", w, task[w], token[w]>>}
  /\ Goto(w, "ending")
  /\ UNCHANGED dbVars

\* failJob itself threw; runWorkerLoop swallows it.
GiveUp(w) ==
  /\ pc[w] = "ending"
  /\ Return(w)
  /\ UNCHANGED << dbVars, calls >>

\* The process dies.  The server rolls an open transaction back.
Crash(w) ==
  /\ pc[w] # "idle"
  /\ Return(w)
  /\ IF pc[w] = "recording" THEN RecordAbort(task[w]) ELSE UNCHANGED dbVars
  /\ UNCHANGED calls

-----------------------------------------------------------------------------
(***************************************************************************)
(* The server executes a call in flight                                    *)
(***************************************************************************)

Awaits(w, c) ==
  /\ pc[w] = IF c[1] = "complete" THEN "completing" ELSE "ending"
  /\ <<w, task[w], token[w]>> = <<c[2], c[3], c[4]>>

\* The reply arrives, or nobody is there to receive it.
Reply(c) ==
  \/ Awaits(c[2], c) /\ Return(c[2])
  \/ UNCHANGED workerVars

ServeComplete(c) ==
  /\ c[1] = "complete"
  /\ Complete(c[2], c[3], c[4])
  /\ calls' = calls \ {c}
  /\ Reply(c)

ServeFail(c) ==
  /\ c[1] = "fail"
  /\ Fail(c[2], c[3], c[4])
  /\ calls' = calls \ {c}
  /\ Reply(c)

\* Variant: a call that matches no row gives a slot back all the same.
ServeStaleReleasing(c) ==
  /\ ~HoldsLease(c[2], c[3], c[4])
  /\ calls' = calls \ {c}
  /\ Reply(c)
  /\ ReleaseSlots({c[3]})
  /\ UNCHANGED << assessment, status, leaseOwner, lease, fence, attempts, due,
                  dispatched, executions, events, locked >>

\* The fencing predicate matches no row: the function returns NULL.
ServeStale(c) ==
  /\ ~HoldsLease(c[2], c[3], c[4])
  /\ calls' = calls \ {c}
  /\ Reply(c)
  /\ UNCHANGED dbVars

\* The trigger's UPDATE is refused and the transaction rolls back.
ServeRefused(c) ==
  /\ c[1] = "fail"
  /\ HoldsLease(c[2], c[3], c[4])
  /\ c[3] \notin locked
  /\ ~Permitted("failed")
  /\ calls' = calls \ {c}
  /\ Reply(c)
  /\ UNCHANGED dbVars

\* The connection breaks before the call reaches the server.
CallLost(c) ==
  /\ calls' = calls \ {c}
  /\ UNCHANGED << dbVars, workerVars >>

Serve(c) == ServeComplete(c) \/ ServeFail(c) \/ ServeStale(c) \/ ServeRefused(c)

-----------------------------------------------------------------------------
WorkerProgress(w) ==
  \/ ClaimJob(w) \/ LoadJob(w) \/ ExecuteDone(w) \/ Abandon(w) \/ Throw(w)
  \/ RecordOpens(w) \/ RecordCommits(w) \/ RecordAborts(w)
  \/ SendComplete(w) \/ SendFail(w) \/ GiveUp(w)

WorkerTrouble(w) ==
  ClaimReplyLost(w) \/ HeartbeatLost(w) \/ Crash(w)

Background == << workerVars, calls >>

QueueStep(j) ==
  /\ Enqueue(j) \/ LeaseAges(j) \/ BackoffElapses(j) \/ Publish(j)
  /\ UNCHANGED Background

Maintenance ==
  /\ Reap \/ Reconcile
  /\ UNCHANGED Background

Next ==
  \/ \E w \in WorkerIds : WorkerProgress(w) \/ RenewLease(w) \/ WorkerTrouble(w)
  \/ \E c \in calls : Serve(c) \/ CallLost(c)
  \/ \E j \in Jobs : QueueStep(j)
  \/ Maintenance

Spec == Init /\ [][Next]_vars

\* What the shipped processes do by themselves: the worker's loop never stops
\* calling runExecutionCycle, the runner is bounded by its own time limit, the
\* server executes what it receives and clocks advance.  Nobody has to reap.
Fairness ==
  /\ \A w \in WorkerIds : WF_vars(WorkerProgress(w))
  /\ WF_vars(\E c \in calls : Serve(c))
  /\ \A j \in Jobs : WF_vars(LeaseAges(j) /\ UNCHANGED Background)
  /\ \A j \in Jobs : WF_vars(BackoffElapses(j) /\ UNCHANGED Background)

FairSpec == Spec /\ Fairness

\* The same with somebody who calls queue_reap again and again, which nothing in
\* the repository does: runQueueReaper has no caller.
FairSpecWithReaper == FairSpec /\ WF_vars(Reap /\ UNCHANGED Background)

-----------------------------------------------------------------------------
(***************************************************************************)
(* Safety                                                                  *)
(***************************************************************************)

\* A job is succeeded only if the runner result of the very claim that
\* completed it is on record: what readSucceededRunnerResult will look for.
SucceededWasRecorded ==
  \A j \in Jobs : status[j] = "succeeded" => <<j, fence[j]>> \in executions

\* No two workers act under the same claim of a job, and none under a claim
\* that the job has not granted yet.
ClaimsExclusive ==
  \A v, w \in WorkerIds :
    pc[v] # "idle" =>
      /\ token[v] \in 1..fence[task[v]]
      /\ v # w => <<task[v], token[v]>> # <<task[w], token[w]>>

-----------------------------------------------------------------------------
(***************************************************************************)
(* What a step may never do                                                *)
(***************************************************************************)

\* A late queue_complete or queue_fail with the token of an earlier claim changes
\* nothing of its job, though it comes from a worker that holds the job again, or
\* from one that is dead.
StaleCallsHarmless ==
  [][\A c \in calls : c \notin calls' /\ c[4] # fence[c[3]]
       => UNCHANGED << JobRow(c[3]), executions >>]_vars

-----------------------------------------------------------------------------
(***************************************************************************)
(* Liveness                                                                *)
(***************************************************************************)

UnreapedLease == \E j \in Jobs : status[j] = "running" /\ lease[j] = "over"

\* Under FairSpec: every job that waits for a worker comes to an end, whatever
\* crashes and however late the calls are, or a slot is taken for good by a
\* lease that is over and that nobody reaps.  Nothing else stops the queue.
QueuedJobFinishes ==
  \A j \in Jobs :
    status[j] \in Claimable ~> (status[j] \in Terminal \/ []UnreapedLease)

\* "The reaper changes expired `running` jobs to `stale_recovered` ... exhausted
\* attempts become `failed`" (contracts/queue.md): if somebody runs it
\* (FairSpecWithReaper), an expired lease does not hold its job for ever.
ExpiredLeaseRecovered ==
  \A j \in Jobs : (status[j] = "running" /\ lease[j] = "over") ~> (lease[j] # "over")

=============================================================================
