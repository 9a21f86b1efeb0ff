--------------------------- MODULE JobQueue_proofs ---------------------------
(***************************************************************************)
(* Theorems about the workers of JobQueue: they use the queue only through *)
(* its functions (so what QueueControl_proofs shows of every caller holds  *)
(* of them), no two of them act under one claim, and a job succeeds only   *)
(* with its result on record.                                              *)
(***************************************************************************)
EXTENDS JobQueue, QueueControl_proofs

(***************************************************************************)
(* The inductive invariant: ClaimsExclusive needs to know that a busy      *)
(* worker has a job and an idle one has none, and that no call carries a   *)
(* token that its job has not given out.                                   *)
(***************************************************************************)
BusyWorkersHaveJobs ==
  \A w \in WorkerIds : IF pc[w] = "idle" THEN task[w] = NoJob ELSE task[w] \in Jobs

CallsGranted == \A c \in calls : c[4] <= fence[c[3]]

WorkerInv == TypeOK /\ BusyWorkersHaveJobs /\ ClaimsExclusive /\ CallsGranted

\* No operation of the database takes a fencing token back.
LEMMA FenceGrows ==
  ASSUME TypeOKDb, [DbNext]_dbVars, NEW j \in Jobs
  PROVE  fence[j] \in Nat /\ fence'[j] \in Nat /\ fence[j] <= fence'[j]
<1>1. fence[j] \in Nat /\ fence'[j] \in Nat
  BY StepType DEF TypeOKDb
<1>2. CASE \E w \in WorkerIds, i \in Jobs : Claim(w, i)
  <2>1. PICK w \in WorkerIds, i \in Jobs : fence' = [fence EXCEPT ![i] = @ + 1]
    BY <1>2 DEF Claim, TakeLease
  <2>2. QED BY <1>1, <2>1 DEF TypeOKDb
<1>3. CASE ~ \E w \in WorkerIds, i \in Jobs : Claim(w, i)
  <2>1. UNCHANGED fence
    BY <1>3 DEF DbNext, dbVars, Enqueue, LeaseAges, BackoffElapses, Publish, Heartbeat,
                Complete, Fail, RecordBegin, RecordCommit, RecordAbort, Reap, ReapJobs,
                Reconcile
  <2>2. QED BY <1>1, <2>1
<1>4. QED BY <1>2, <1>3

\* A busy worker presents a token that its job has granted.
LEMMA TokenGranted ==
  ASSUME WorkerInv, NEW w \in WorkerIds, pc[w] # "idle"
  PROVE  task[w] \in Jobs /\ token[w] \in 0..fence[task[w]]
<1>1. task[w] \in Jobs
  BY DEF WorkerInv, BusyWorkersHaveJobs
<1>2. token[w] \in 1..fence[task[w]] /\ fence[task[w]] \in Nat
  BY <1>1 DEF WorkerInv, ClaimsExclusive, TypeOK, TypeOKDb
<1>3. QED BY <1>1, <1>2

\* So does every call in flight.
LEMMA CallGranted ==
  ASSUME WorkerInv, NEW c \in calls
  PROVE  c[2] \in WorkerIds /\ c[3] \in Jobs /\ c[4] \in 0..fence[c[3]]
<1>1. c \in Call
  BY DEF WorkerInv, TypeOK
<1>2. c[2] \in WorkerIds /\ c[3] \in Jobs /\ c[4] \in Nat
  BY <1>1 DEF Call
<1>3. fence[c[3]] \in Nat /\ c[4] <= fence[c[3]]
  BY <1>2 DEF WorkerInv, TypeOK, TypeOKDb, CallsGranted
<1>4. QED BY <1>2, <1>3

\* What a worker does to the database is an operation of the database.
LEMMA WorkerSimulates ==
  ASSUME WorkerInv, NEW w \in WorkerIds,
         WorkerProgress(w) \/ RenewLease(w) \/ WorkerTrouble(w)
  PROVE  [DbNext]_dbVars
<1>1. CASE ClaimJob(w) \/ ClaimReplyLost(w)
  BY <1>1 DEF ClaimJob, ClaimReplyLost, DbNext
<1>2. CASE LoadJob(w) \/ ExecuteDone(w) \/ Abandon(w) \/ Throw(w) \/ SendComplete(w)
           \/ SendFail(w) \/ GiveUp(w) \/ HeartbeatLost(w)
  BY <1>2 DEF LoadJob, ExecuteDone, Abandon, Throw, SendComplete, SendFail, GiveUp,
              HeartbeatLost
<1>3. CASE RenewLease(w) \/ RecordOpens(w)
  <2>1. task[w] \in Jobs /\ token[w] \in 0..fence[task[w]]
    BY <1>3, TokenGranted DEF RenewLease, RecordOpens
  <2>2. Heartbeat(w, task[w], token[w]) \/ RecordBegin(w, task[w], token[w])
    BY <1>3 DEF RenewLease, RecordOpens
  <2>3. QED BY <2>1, <2>2 DEF DbNext
<1>4. CASE RecordCommits(w)
  <2>1. task[w] \in Jobs /\ token[w] \in 0..fence[task[w]]
    BY <1>4, TokenGranted DEF RecordCommits
  <2>2. RecordCommit(task[w], token[w])
    BY <1>4 DEF RecordCommits
  <2>3. QED BY <2>1, <2>2 DEF DbNext
<1>5. CASE RecordAborts(w) \/ Crash(w)
  <2>1. task[w] \in Jobs
    BY <1>5, TokenGranted DEF RecordAborts, Crash
  <2>2. RecordAbort(task[w]) \/ UNCHANGED dbVars
    BY <1>5 DEF RecordAborts, Crash
  <2>3. QED BY <2>1, <2>2 DEF DbNext
<1>6. QED BY <1>1, <1>2, <1>3, <1>4, <1>5 DEF WorkerProgress, WorkerTrouble

\* Every step of the system is an operation of the database or leaves it alone.
LEMMA StepSimulates == WorkerInv /\ [Next]_vars => [DbNext]_dbVars
<1> SUFFICES ASSUME WorkerInv, [Next]_vars PROVE [DbNext]_dbVars
  OBVIOUS
<1>1. CASE \E w \in WorkerIds : WorkerProgress(w) \/ RenewLease(w) \/ WorkerTrouble(w)
  BY <1>1, WorkerSimulates
<1>2. CASE \E c \in calls : Serve(c) \/ CallLost(c)
  <2>1. PICK c \in calls : Serve(c) \/ CallLost(c)
    BY <1>2
  <2>2. c[2] \in WorkerIds /\ c[3] \in Jobs /\ c[4] \in 0..fence[c[3]]
    BY CallGranted
  <2>3. Complete(c[2], c[3], c[4]) \/ Fail(c[2], c[3], c[4]) \/ UNCHANGED dbVars
    BY <2>1 DEF Serve, ServeComplete, ServeFail, ServeStale, ServeRefused, CallLost
  <2>4. QED BY <2>2, <2>3 DEF DbNext
<1>3. CASE \E j \in Jobs : QueueStep(j)
  BY <1>3 DEF QueueStep, DbNext
<1>4. CASE Maintenance
  BY <1>4 DEF Maintenance, DbNext
<1>5. CASE UNCHANGED vars
  BY <1>5 DEF vars
<1>6. QED BY <1>1, <1>2, <1>3, <1>4, <1>5 DEF Next

(***************************************************************************)
(* The four ways in which a step treats the workers                        *)
(***************************************************************************)

\* A worker goes on with the job that it has, and may send a call about it.
GoesOn ==
  \E w \in WorkerIds, label \in Label \ {"idle"} :
    /\ pc[w] # "idle"
    /\ Goto(w, label)
    /\ calls' \subseteq calls \cup {<<op, w, task[w], token[w]>> : op \in {"complete", "fail"}}

\* A worker's cycle is over.
Returns == \E w \in WorkerIds : Return(w) /\ calls' \subseteq calls

\* A worker begins with a job.
Begins == \E w \in WorkerIds, j \in Jobs :
  /\ Claim(w, j)
  /\ pc' = [pc EXCEPT ![w] = "claimed"]
  /\ task' = [task EXCEPT ![w] = j]
  /\ token' = [token EXCEPT ![w] = fence'[j]]
  /\ UNCHANGED calls

\* No worker moves.
Rests == UNCHANGED workerVars /\ calls' \subseteq calls

\* Every step treats the workers in one of the four ways.
LEMMA Shapes == WorkerInv /\ [Next]_vars => GoesOn \/ Returns \/ Begins \/ Rests
<1> SUFFICES ASSUME WorkerInv, [Next]_vars PROVE GoesOn \/ Returns \/ Begins \/ Rests
  OBVIOUS
<1>1. CASE \E w \in WorkerIds : WorkerProgress(w) \/ RenewLease(w) \/ WorkerTrouble(w)
  <2>1. PICK w \in WorkerIds : WorkerProgress(w) \/ RenewLease(w) \/ WorkerTrouble(w)
    BY <1>1
  <2>2. CASE ClaimJob(w)
    BY <2>2 DEF ClaimJob, Begins
  <2>3. CASE ClaimReplyLost(w) \/ RenewLease(w)
    BY <2>3 DEF ClaimReplyLost, RenewLease, Rests
  <2>4. CASE LoadJob(w) \/ ExecuteDone(w) \/ Throw(w) \/ HeartbeatLost(w)
    BY <2>4 DEF LoadJob, ExecuteDone, Throw, HeartbeatLost, GoesOn, Label
  <2>5. CASE RecordOpens(w) \/ RecordCommits(w) \/ RecordAborts(w)
    BY <2>5 DEF RecordOpens, RecordCommits, RecordAborts, GoesOn, Label
  <2>6. CASE SendComplete(w) \/ SendFail(w)
    BY <2>6 DEF SendComplete, SendFail, GoesOn, Label
  <2>7. CASE Abandon(w) \/ GiveUp(w) \/ Crash(w)
    BY <2>7 DEF Abandon, GiveUp, Crash, Returns
  <2>8. QED BY <2>1, <2>2, <2>3, <2>4, <2>5, <2>6, <2>7 DEF WorkerProgress, WorkerTrouble
<1>2. CASE \E c \in calls : Serve(c) \/ CallLost(c)
  <2>1. PICK c \in calls : Serve(c) \/ CallLost(c)
    BY <1>2
  <2>2. c[2] \in WorkerIds
    BY CallGranted
  <2>3. CASE CallLost(c)
    BY <2>3 DEF CallLost, Rests
  <2>4. CASE Serve(c)
    <3>1. Reply(c) /\ calls' \subseteq calls
      BY <2>4 DEF Serve, ServeComplete, ServeFail, ServeStale, ServeRefused
    <3>2. QED BY <2>2, <3>1 DEF Reply, Returns, Rests
  <2>5. QED BY <2>1, <2>3, <2>4
<1>3. CASE \E j \in Jobs : QueueStep(j)
  BY <1>3 DEF QueueStep, Background, Rests
<1>4. CASE Maintenance
  BY <1>4 DEF Maintenance, Background, Rests
<1>5. CASE UNCHANGED vars
  BY <1>5 DEF vars, Rests
<1>6. QED BY <1>1, <1>2, <1>3, <1>4, <1>5 DEF Next

\* Types, from the database's and the worker's part of a step.
LEMMA WorkerTypes ==
  ASSUME WorkerInv, [Next]_vars
  PROVE  TypeOK'
<1>1. TypeOKDb'
  BY StepSimulates, StepType DEF WorkerInv, TypeOK
<1>2. CASE GoesOn
  <2>1. PICK w \in WorkerIds, label \in Label \ {"idle"} :
           /\ pc[w] # "idle"
           /\ Goto(w, label)
           /\ calls' \subseteq calls \cup {<<op, w, task[w], token[w]>> : op \in {"complete", "fail"}}
    BY <1>2 DEF GoesOn
  <2>2. task[w] \in Jobs /\ token[w] \in Nat
    BY <2>1, TokenGranted DEF WorkerInv, TypeOK
  <2>3. {<<op, w, task[w], token[w]>> : op \in {"complete", "fail"}} \subseteq Call
    BY <2>2 DEF Call
  <2>4. calls' \subseteq Call
    BY <2>1, <2>3 DEF WorkerInv, TypeOK
  <2>5. QED BY <1>1, <2>1, <2>4 DEF Goto, WorkerInv, TypeOK
<1>3. CASE Returns
  BY <1>1, <1>3 DEF Returns, Return, Label, WorkerInv, TypeOK
<1>4. CASE Begins
  <2>1. PICK w \in WorkerIds, j \in Jobs :
           /\ pc' = [pc EXCEPT ![w] = "claimed"]
           /\ task' = [task EXCEPT ![w] = j]
           /\ token' = [token EXCEPT ![w] = fence'[j]]
           /\ UNCHANGED calls
    BY <1>4 DEF Begins
  <2>2. fence'[j] \in Nat
    BY <1>1 DEF TypeOKDb
  <2>3. QED BY <1>1, <2>1, <2>2 DEF Label, WorkerInv, TypeOK
<1>5. CASE Rests
  BY <1>1, <1>5 DEF Rests, workerVars, WorkerInv, TypeOK
<1>6. QED BY <1>2, <1>3, <1>4, <1>5, Shapes

\* Tokens stay exclusive: a worker that begins gets one larger than any before.
LEMMA WorkerStep == WorkerInv /\ [Next]_vars => WorkerInv'
<1> SUFFICES ASSUME WorkerInv, [Next]_vars PROVE WorkerInv'
  OBVIOUS
<1>1. TypeOK /\ TypeOK'
  BY WorkerTypes DEF WorkerInv
<1>2. \A j \in Jobs : fence[j] \in Nat /\ fence'[j] \in Nat /\ fence[j] <= fence'[j]
  BY <1>1, StepSimulates, FenceGrows DEF TypeOK
<1>3. \A w \in WorkerIds : pc[w] # "idle" =>
        task[w] \in Jobs /\ token[w] \in 1..fence[task[w]]
  BY DEF WorkerInv, BusyWorkersHaveJobs, ClaimsExclusive
<1>4. \A v, w \in WorkerIds : pc[v] # "idle" /\ v # w => <<task[v], token[v]>> # <<task[w], token[w]>>
  BY DEF WorkerInv, ClaimsExclusive
<1>5. \A c \in calls : c[3] \in Jobs /\ c[4] \in Nat /\ c[4] <= fence'[c[3]]
  <2> TAKE c \in calls
  <2>1. c[3] \in Jobs /\ c[4] \in 0..fence[c[3]]
    BY CallGranted
  <2>2. QED BY <1>2, <2>1
<1>6. CASE GoesOn
  <2>1. PICK w \in WorkerIds, label \in Label \ {"idle"} :
           /\ pc[w] # "idle"
           /\ Goto(w, label)
           /\ calls' \subseteq calls \cup {<<op, w, task[w], token[w]>> : op \in {"complete", "fail"}}
    BY <1>6 DEF GoesOn
  <2>2. task' = task /\ token' = token /\ \A v \in WorkerIds : pc'[v] = "idle" <=> pc[v] = "idle"
    BY <1>1, <2>1 DEF Goto, TypeOK
  <2>3. \A v \in WorkerIds : pc'[v] # "idle" =>
          task'[v] \in Jobs /\ token'[v] \in 1..fence'[task'[v]]
    BY <1>2, <1>3, <2>2
  <2>4. BusyWorkersHaveJobs' /\ ClaimsExclusive'
    BY <1>4, <2>2, <2>3 DEF WorkerInv, BusyWorkersHaveJobs, ClaimsExclusive
  <2>5. token[w] <= fence'[task[w]]
    BY <1>2, <1>3, <2>1
  <2>6. CallsGranted'
    BY <1>5, <2>1, <2>5 DEF CallsGranted
  <2>7. QED BY <1>1, <2>4, <2>6 DEF WorkerInv
<1>7. CASE Returns
  <2>1. PICK w \in WorkerIds : Return(w) /\ calls' \subseteq calls
    BY <1>7 DEF Returns
  <2>2. pc'[w] = "idle" /\ task'[w] = NoJob
    BY <1>1, <2>1 DEF Return, TypeOK
  <2>3. \A v \in WorkerIds \ {w} : pc'[v] = pc[v] /\ task'[v] = task[v] /\ token'[v] = token[v]
    BY <1>1, <2>1 DEF Return, TypeOK
  <2>4. \A v \in WorkerIds : pc'[v] # "idle" =>
          task'[v] \in Jobs /\ token'[v] \in 1..fence'[task'[v]]
    BY <1>2, <1>3, <2>2, <2>3
  <2>5. ASSUME NEW v \in WorkerIds, NEW u \in WorkerIds, pc'[v] # "idle", v # u
        PROVE  <<task'[v], token'[v]>> # <<task'[u], token'[u]>>
    <3>1. CASE u = w
      BY <2>2, <2>4, <2>5, <3>1, NoJobAssumption
    <3>2. CASE u # w
      BY <1>4, <2>2, <2>3, <2>5, <3>2
    <3>3. QED BY <3>1, <3>2
  <2>6. BusyWorkersHaveJobs' /\ ClaimsExclusive'
    BY <2>2, <2>3, <2>4, <2>5 DEF WorkerInv, BusyWorkersHaveJobs, ClaimsExclusive
  <2>7. CallsGranted'
    BY <1>5, <2>1 DEF CallsGranted
  <2>8. QED BY <1>1, <2>6, <2>7 DEF WorkerInv
<1>8. CASE Begins
  <2>1. PICK w \in WorkerIds, j \in Jobs :
           /\ Claim(w, j)
           /\ pc' = [pc EXCEPT ![w] = "claimed"]
           /\ task' = [task EXCEPT ![w] = j]
           /\ token' = [token EXCEPT ![w] = fence'[j]]
           /\ UNCHANGED calls
    BY <1>8 DEF Begins
  <2>2. fence'[j] = fence[j] + 1
    BY <1>1, <2>1 DEF Claim, TakeLease, TypeOK, TypeOKDb
  <2>3. task'[w] = j /\ token'[w] = fence'[j]
    BY <1>1, <2>1 DEF TypeOK
  <2>4. \A v \in WorkerIds \ {w} : pc'[v] = pc[v] /\ task'[v] = task[v] /\ token'[v] = token[v]
    BY <1>1, <2>1 DEF TypeOK
  <2>5. \A v \in WorkerIds : pc'[v] # "idle" =>
          task'[v] \in Jobs /\ token'[v] \in 1..fence'[task'[v]]
    <3>1. j \in Jobs /\ fence'[j] \in 1..fence'[j]
      BY <1>2, <2>2
    <3>2. QED BY <1>2, <1>3, <2>3, <2>4, <3>1
  <2>6. \A v \in WorkerIds \ {w} : <<task[v], token[v]>> # <<j, fence'[j]>>
    <3> SUFFICES ASSUME NEW v \in WorkerIds \ {w}, task[v] = j
                 PROVE  token[v] # fence'[j]
      OBVIOUS
    <3>1. pc[v] # "idle"
      BY NoJobAssumption DEF WorkerInv, BusyWorkersHaveJobs
    <3>2. token[v] \in 1..fence[j] /\ fence[j] \in Nat
      BY <1>2, <1>3, <3>1
    <3>3. QED BY <2>2, <3>2
  <2>7. ASSUME NEW v \in WorkerIds, NEW u \in WorkerIds, pc'[v] # "idle", v # u
        PROVE  <<task'[v], token'[v]>> # <<task'[u], token'[u]>>
    <3>1. CASE v = w
      BY <2>3, <2>4, <2>6, <2>7, <3>1
    <3>2. CASE u = w
      BY <2>3, <2>4, <2>6, <2>7, <3>2
    <3>3. CASE v # w /\ u # w
      BY <1>4, <2>4, <2>7, <3>3
    <3>4. QED BY <3>1, <3>2, <3>3
  <2>8. pc'[w] # "idle"
    BY <1>1, <2>1 DEF TypeOK
  <2>9. BusyWorkersHaveJobs' /\ ClaimsExclusive'
    BY <2>3, <2>4, <2>5, <2>7, <2>8 DEF WorkerInv, BusyWorkersHaveJobs, ClaimsExclusive
  <2>10. CallsGranted'
    BY <1>5, <2>1 DEF CallsGranted
  <2>11. QED BY <1>1, <2>9, <2>10 DEF WorkerInv
<1>9. CASE Rests
  <2>1. UNCHANGED << pc, task, token >> /\ calls' \subseteq calls
    BY <1>9 DEF Rests, workerVars
  <2>2. \A v \in WorkerIds : pc'[v] # "idle" =>
          task'[v] \in Jobs /\ token'[v] \in 1..fence'[task'[v]]
    BY <1>2, <1>3, <2>1
  <2>3. BusyWorkersHaveJobs' /\ ClaimsExclusive'
    BY <1>4, <2>1, <2>2 DEF WorkerInv, BusyWorkersHaveJobs, ClaimsExclusive
  <2>4. CallsGranted'
    BY <1>5, <2>1 DEF CallsGranted
  <2>5. QED BY <1>1, <2>3, <2>4 DEF WorkerInv
<1>10. QED BY <1>6, <1>7, <1>8, <1>9, Shapes

\* It holds of a system that has done nothing yet.
LEMMA WorkerInit == Init => WorkerInv
<1> SUFFICES ASSUME Init PROVE WorkerInv
  OBVIOUS
<1>1. TypeOK
  BY InitType DEF Init, TypeOK, Label
<1>2. BusyWorkersHaveJobs /\ ClaimsExclusive /\ CallsGranted
  BY DEF Init, BusyWorkersHaveJobs, ClaimsExclusive, CallsGranted
<1>3. QED BY <1>1, <1>2 DEF WorkerInv

\* So it holds always.
LEMMA WorkerInvariant == Spec => []WorkerInv
  BY WorkerInit, WorkerStep, PTL DEF Spec

\* The workers, their retries, crashes and late calls, do to the database only
\* what the specification of its functions allows.
THEOREM JobQueueImplementsDb == Spec => DbSpec
<1>1. Init => InitDb
  BY DEF Init
<1>2. WorkerInv /\ [Next]_vars => [DbNext]_dbVars
  BY StepSimulates
<1>3. QED BY <1>1, <1>2, WorkerInvariant, PTL DEF Spec, DbSpec

\* No two workers ever act under the same claim of a job.
THEOREM WorkersExclusive == Spec => []ClaimsExclusive
<1>1. WorkerInv => ClaimsExclusive
  BY DEF WorkerInv
<1>2. QED BY <1>1, WorkerInvariant, PTL

(***************************************************************************)
(* A job that succeeded has the result of its last claim on record         *)
(***************************************************************************)

\* The inductive invariant: a worker that says it has recorded, and a call to
\* complete that was sent, are about a claim whose result is on record.
RecordedInv ==
  /\ \A w \in WorkerIds : pc[w] \in {"recorded", "completing"} =>
       <<task[w], token[w]>> \in executions
  /\ \A c \in calls : c[1] = "complete" => <<c[3], c[4]>> \in executions
  /\ SucceededWasRecorded

\* Results are never deleted.
LEMMA ExecutionsGrow == [DbNext]_dbVars => executions \subseteq executions'
  BY DEF DbNext, dbVars, Enqueue, LeaseAges, BackoffElapses, Publish, Claim, Heartbeat,
         Complete, Fail, RecordBegin, RecordCommit, RecordAbort, Reap, ReapJobs, Reconcile

\* The operations of the database other than queue_complete.
NotCompleting ==
  \/ \E j \in Jobs : Enqueue(j) \/ LeaseAges(j) \/ BackoffElapses(j) \/ Publish(j)
  \/ \E w \in WorkerIds, j \in Jobs : Claim(w, j)
  \/ \E w, j, f : Heartbeat(w, j, f) \/ Fail(w, j, f) \/ RecordBegin(w, j, f)
  \/ \E j, f : RecordCommit(j, f)
  \/ \E j : RecordAbort(j)
  \/ Reap
  \/ Reconcile
  \/ UNCHANGED dbVars

\* None of them makes a job succeed, or claims one that has.
LEMMA OnlyCompleteSucceeds ==
  ASSUME TypeOKDb, NotCompleting, NEW j \in Jobs, status'[j] = "succeeded"
  PROVE  status[j] = "succeeded" /\ fence'[j] = fence[j]
<1>1. CASE \E i \in Jobs : Enqueue(i)
  BY <1>1 DEF Enqueue, TypeOKDb
<1>2. CASE \E i \in Jobs : LeaseAges(i) \/ BackoffElapses(i) \/ Publish(i)
  BY <1>2 DEF LeaseAges, BackoffElapses, Publish
<1>3. CASE \E w \in WorkerIds, i \in Jobs : Claim(w, i)
  <2>1. PICK i \in Jobs : /\ status' = [status EXCEPT ![i] = "running"]
                          /\ fence' = [fence EXCEPT ![i] = @ + 1]
    BY <1>3 DEF Claim, TakeLease, SetStatus
  <2>2. QED BY <2>1 DEF TypeOKDb
<1>4. CASE \E w, i, f : Fail(w, i, f)
  <2>1. PICK i : status' = [status EXCEPT ![i] = "failed"] /\ fence' = fence
    BY <1>4 DEF Fail, SetStatus
  <2>2. QED BY <2>1 DEF TypeOKDb
<1>5. CASE \E w, i, f : Heartbeat(w, i, f) \/ RecordBegin(w, i, f)
  BY <1>5 DEF Heartbeat, RecordBegin
<1>6. CASE (\E i, f : RecordCommit(i, f)) \/ (\E i : RecordAbort(i)) \/ Reconcile \/ UNCHANGED dbVars
  BY <1>6 DEF RecordCommit, RecordAbort, Reconcile, dbVars
<1>7. CASE Reap
  <2>1. PICK batch : status' = ReapedStatus(batch) /\ fence' = fence
    BY <1>7 DEF Reap, ReapJobs, SetStatus
  <2>2. QED BY <2>1 DEF ReapedStatus
<1>8. QED BY <1>1, <1>2, <1>3, <1>4, <1>5, <1>6, <1>7 DEF NotCompleting

\* A step completes a job only by serving a call to complete it.
LEMMA CompletesByCall ==
  ASSUME [Next]_vars
  PROVE  NotCompleting \/ \E c \in calls : ServeComplete(c)
<1>1. CASE \E w \in WorkerIds : WorkerProgress(w) \/ RenewLease(w) \/ WorkerTrouble(w)
  <2>1. PICK w \in WorkerIds : WorkerProgress(w) \/ RenewLease(w) \/ WorkerTrouble(w)
    BY <1>1
  <2>2. CASE ClaimJob(w) \/ ClaimReplyLost(w)
    BY <2>2 DEF ClaimJob, ClaimReplyLost, NotCompleting
  <2>3. CASE LoadJob(w) \/ ExecuteDone(w) \/ Abandon(w) \/ Throw(w) \/ SendComplete(w)
             \/ SendFail(w) \/ GiveUp(w) \/ HeartbeatLost(w)
    BY <2>3 DEF LoadJob, ExecuteDone, Abandon, Throw, SendComplete, SendFail, GiveUp,
                HeartbeatLost, NotCompleting
  <2>4. CASE RenewLease(w) \/ RecordOpens(w) \/ RecordCommits(w) \/ RecordAborts(w) \/ Crash(w)
    BY <2>4 DEF RenewLease, RecordOpens, RecordCommits, RecordAborts, Crash, NotCompleting
  <2>5. QED BY <2>1, <2>2, <2>3, <2>4 DEF WorkerProgress, WorkerTrouble
<1>2. CASE \E c \in calls : Serve(c) \/ CallLost(c)
  BY <1>2 DEF Serve, ServeFail, ServeStale, ServeRefused, CallLost, NotCompleting
<1>3. CASE \E j \in Jobs : QueueStep(j)
  BY <1>3 DEF QueueStep, NotCompleting
<1>4. CASE Maintenance
  BY <1>4 DEF Maintenance, NotCompleting
<1>5. CASE UNCHANGED vars
  BY <1>5 DEF vars, NotCompleting
<1>6. QED BY <1>1, <1>2, <1>3, <1>4, <1>5 DEF Next

\* A job that succeeds was completed by a call, and what the call is about is
\* on record.
LEMMA SuccessStep ==
  ASSUME WorkerInv, RecordedInv, [Next]_vars
  PROVE  SucceededWasRecorded'
<1> SUFFICES ASSUME NEW j \in Jobs, status'[j] = "succeeded"
             PROVE  <<j, fence'[j]>> \in executions'
  BY DEF SucceededWasRecorded
<1>1. executions \subseteq executions' /\ TypeOKDb
  BY StepSimulates, ExecutionsGrow DEF WorkerInv, TypeOK
<1>2. CASE NotCompleting
  BY <1>1, <1>2, OnlyCompleteSucceeds DEF RecordedInv, SucceededWasRecorded
<1>3. CASE \E c \in calls : ServeComplete(c)
  <2>1. PICK c \in calls : ServeComplete(c)
    BY <1>3
  <2>2. /\ c[1] = "complete" /\ fence[c[3]] = c[4] /\ fence' = fence
        /\ status' = [status EXCEPT ![c[3]] = "succeeded"]
    BY <2>1 DEF ServeComplete, Complete, HoldsLease, SetStatus
  <2>3. CASE j = c[3]
    BY <1>1, <2>2, <2>3 DEF RecordedInv
  <2>4. CASE j # c[3]
    BY <1>1, <2>2, <2>4 DEF RecordedInv, SucceededWasRecorded, TypeOKDb
  <2>5. QED BY <2>3, <2>4
<1>4. QED BY <1>2, <1>3, CompletesByCall

\* What workers say and send about recorded results stays true.
LEMMA RecordedStep ==
  ASSUME WorkerInv, RecordedInv, [Next]_vars
  PROVE  /\ \A w \in WorkerIds : pc'[w] \in {"recorded", "completing"} =>
              <<task'[w], token'[w]>> \in executions'
         /\ \A c \in calls' : c[1] = "complete" => <<c[3], c[4]>> \in executions'
<1> DEFINE Said(w) == pc[w] \in {"recorded", "completing"} => <<task[w], token[w]>> \in executions
           Sent(c) == c[1] = "complete" => <<c[3], c[4]>> \in executions
<1>1. executions \subseteq executions' /\ TypeOK
  BY StepSimulates, ExecutionsGrow DEF WorkerInv
<1>2. (\A w \in WorkerIds : Said(w)) /\ (\A c \in calls : Sent(c))
  BY DEF RecordedInv
<1>3. ASSUME NEW w \in WorkerIds, RecordCommits(w)
      PROVE  (\A v \in WorkerIds : Said(v)') /\ (\A c \in calls' : Sent(c)')
  <2>1. <<task[w], token[w]>> \in executions'
    BY <1>3 DEF RecordCommits, RecordCommit
  <2>2. \A v \in WorkerIds \ {w} : pc'[v] = pc[v] /\ task' = task /\ token' = token
    BY <1>1, <1>3 DEF RecordCommits, Goto, TypeOK
  <2>3. task' = task /\ token' = token /\ calls' = calls
    BY <1>3 DEF RecordCommits, Goto
  <2>4. QED BY <1>1, <1>2, <2>1, <2>2, <2>3
<1>4. ASSUME NEW w \in WorkerIds, SendComplete(w)
      PROVE  (\A v \in WorkerIds : Said(v)') /\ (\A c \in calls' : Sent(c)')
  <2>1. <<task[w], token[w]>> \in executions
    BY <1>2, <1>4 DEF SendComplete
  <2>2. \A v \in WorkerIds \ {w} : pc'[v] = pc[v]
    BY <1>1, <1>4 DEF SendComplete, Goto, TypeOK
  <2>3. task' = task /\ token' = token
        /\ calls' = calls \cup {<<"complete", w, task[w], token[w]>>}
    BY <1>4 DEF SendComplete, Goto
  <2>4. \A v \in WorkerIds : Said(v)'
    BY <1>1, <1>2, <2>1, <2>2, <2>3
  <2>5. \A c \in calls' : Sent(c)'
    BY <1>1, <1>2, <2>1, <2>3
  <2>6. QED BY <2>4, <2>5
<1>5. ASSUME NEW w \in WorkerIds, NEW label \in Label \ {"recorded", "completing"}, Goto(w, label),
             calls' \subseteq calls \cup {<<"fail", w, task[w], token[w]>>}
      PROVE  (\A v \in WorkerIds : Said(v)') /\ (\A c \in calls' : Sent(c)')
  <2>1. pc'[w] = label /\ \A v \in WorkerIds \ {w} : pc'[v] = pc[v]
    BY <1>1, <1>5 DEF Goto, TypeOK
  <2>2. task' = task /\ token' = token
    BY <1>5 DEF Goto
  <2>3. \A v \in WorkerIds : Said(v)'
    BY <1>1, <1>2, <2>1, <2>2
  <2>4. \A c \in calls' : Sent(c)'
    BY <1>1, <1>2, <1>5
  <2>5. QED BY <2>3, <2>4
<1>6. CASE Returns
  <2>1. PICK w \in WorkerIds : Return(w) /\ calls' \subseteq calls
    BY <1>6 DEF Returns
  <2>2. pc'[w] = "idle" /\ \A v \in WorkerIds \ {w} :
          pc'[v] = pc[v] /\ task'[v] = task[v] /\ token'[v] = token[v]
    BY <1>1, <2>1 DEF Return, TypeOK
  <2>3. QED BY <1>1, <1>2, <2>1, <2>2
<1>7. CASE Begins
  <2>1. PICK w \in WorkerIds, j \in Jobs :
           /\ pc' = [pc EXCEPT ![w] = "claimed"]
           /\ task' = [task EXCEPT ![w] = j]
           /\ token' = [token EXCEPT ![w] = fence'[j]]
           /\ UNCHANGED calls
    BY <1>7 DEF Begins
  <2>2. pc'[w] = "claimed" /\ \A v \in WorkerIds \ {w} :
          pc'[v] = pc[v] /\ task'[v] = task[v] /\ token'[v] = token[v]
    BY <1>1, <2>1 DEF TypeOK
  <2>3. QED BY <1>1, <1>2, <2>1, <2>2
<1>8. CASE Rests
  BY <1>1, <1>2, <1>8 DEF Rests, workerVars
<1>9. CASE \E w \in WorkerIds : WorkerProgress(w) \/ RenewLease(w) \/ WorkerTrouble(w)
  <2>1. PICK w \in WorkerIds : WorkerProgress(w) \/ RenewLease(w) \/ WorkerTrouble(w)
    BY <1>9
  <2>2. CASE RecordCommits(w)
    BY <1>3, <2>2
  <2>3. CASE SendComplete(w)
    BY <1>4, <2>3
  <2>4. CASE LoadJob(w) \/ ExecuteDone(w) \/ Throw(w) \/ HeartbeatLost(w) \/ RecordOpens(w)
             \/ RecordAborts(w) \/ SendFail(w)
    <3>1. \E label \in Label \ {"recorded", "completing"} :
            Goto(w, label) /\ calls' \subseteq calls \cup {<<"fail", w, task[w], token[w]>>}
      BY <2>4 DEF LoadJob, ExecuteDone, Throw, HeartbeatLost, RecordOpens, RecordAborts,
                  SendFail, Label
    <3>2. QED BY <1>5, <3>1
  <2>5. CASE ClaimJob(w)
    BY <1>7, <2>5 DEF ClaimJob, Begins
  <2>6. CASE ClaimReplyLost(w) \/ RenewLease(w)
    BY <1>8, <2>6 DEF ClaimReplyLost, RenewLease, Rests
  <2>7. CASE Abandon(w) \/ GiveUp(w) \/ Crash(w)
    BY <1>6, <2>7 DEF Abandon, GiveUp, Crash, Returns
  <2>8. QED BY <2>1, <2>2, <2>3, <2>4, <2>5, <2>6, <2>7 DEF WorkerProgress, WorkerTrouble
<1>10. CASE ~ \E w \in WorkerIds : WorkerProgress(w) \/ RenewLease(w) \/ WorkerTrouble(w)
  <2>1. CASE \E c \in calls : Serve(c) \/ CallLost(c)
    <3>1. PICK c \in calls : Serve(c) \/ CallLost(c)
      BY <2>1
    <3>2. (Reply(c) \/ UNCHANGED workerVars) /\ calls' \subseteq calls /\ c[2] \in WorkerIds
      BY <3>1, CallGranted
         DEF Serve, ServeComplete, ServeFail, ServeStale, ServeRefused, CallLost
    <3>3. QED BY <1>6, <1>8, <3>2 DEF Reply, Returns, Rests
  <2>2. CASE (\E j \in Jobs : QueueStep(j)) \/ Maintenance \/ UNCHANGED vars
    BY <1>8, <2>2 DEF QueueStep, Maintenance, Background, vars, Rests
  <2>3. QED BY <1>10, <2>1, <2>2 DEF Next
<1>11. QED BY <1>9, <1>10

\* "recordResult, then completeJob": a job that succeeded has the runner result
\* of its last claim on record, with any number of workers and late calls.
THEOREM SuccessIsRecorded == Spec => []SucceededWasRecorded
<1>1. Init => RecordedInv
  BY DEF Init, InitDb, RecordedInv, SucceededWasRecorded
<1>2. WorkerInv /\ RecordedInv /\ [Next]_vars => RecordedInv'
  BY SuccessStep, RecordedStep DEF RecordedInv
<1>3. RecordedInv => SucceededWasRecorded
  BY DEF RecordedInv
<1>4. QED BY <1>1, <1>2, <1>3, WorkerInvariant, PTL DEF Spec

(***************************************************************************)
(* What the queue functions guarantee to any caller they guarantee here    *)
(***************************************************************************)

\* With these workers too, the assessment a customer sees follows its job,
\* claims are paid for by attempts, and a finished job has one outbox event.
THEOREM JobsFollowed ==
  Spec => [](AssessmentFollowsJob /\ AttemptsAccountForClaims /\ OneFinishEvent)
BY JobQueueImplementsDb, DbAssessmentFollowsJob, DbAttemptsAccountForClaims,
   DbOneFinishEvent, PTL

\* ... the counters are exact and the limits respected while nobody reconciles,
\* and never above the running jobs when somebody does ...
THEOREM CapacityCounted ==
  Spec => [](CountersExact /\ CapacityRespected /\ NeverOvercounted)
BY JobQueueImplementsDb, DbCountersExact, DbCapacityRespected, DbNeverOvercounted, PTL

\* ... and the row that a worker's recording transaction has locked stays as it
\* was when the worker checked it, whatever the other workers, the reaper and
\* the late calls do.
THEOREM RecordingUndisturbed == Spec => LockedRowStable
BY JobQueueImplementsDb, DbLockedRowStable

(***************************************************************************)
(* Late calls                                                              *)
(***************************************************************************)

\* A call leaves the network by being served or lost, and in no other way.
LEMMA CallsLeave ==
  ASSUME [Next]_vars, NEW c \in calls, c \notin calls'
  PROVE  Serve(c) \/ CallLost(c)
<1>1. CASE \E w \in WorkerIds : WorkerProgress(w) \/ RenewLease(w) \/ WorkerTrouble(w)
  <2>1. calls \subseteq calls'
    BY <1>1 DEF WorkerProgress, WorkerTrouble, ClaimJob, ClaimReplyLost, LoadJob, RenewLease,
                HeartbeatLost, ExecuteDone, Abandon, Throw, RecordOpens, RecordCommits,
                RecordAborts, SendComplete, SendFail, GiveUp, Crash
  <2>2. QED BY <2>1
<1>2. CASE \E d \in calls : Serve(d) \/ CallLost(d)
  <2>1. PICK d \in calls : Serve(d) \/ CallLost(d)
    BY <1>2
  <2>2. calls' = calls \ {d}
    BY <2>1 DEF Serve, ServeComplete, ServeFail, ServeStale, ServeRefused, CallLost
  <2>3. QED BY <2>1, <2>2
<1>3. CASE (\E j \in Jobs : QueueStep(j)) \/ Maintenance \/ UNCHANGED vars
  BY <1>3 DEF QueueStep, Maintenance, Background, vars
<1>4. QED BY <1>1, <1>2, <1>3 DEF Next

\* A late queue_complete or queue_fail with the token of an earlier claim changes
\* nothing of its job, though its worker may hold the job again: the fencing
\* predicate compares the token.  (Those are the calls that JobQueue lets travel;
\* a late heartbeat is one of the steps that DbSpec allows to any caller.)
THEOREM StaleCallsRefused == Spec => StaleCallsHarmless
<1> DEFINE harmless == \A c \in calls : c \notin calls' /\ c[4] # fence[c[3]]
                         => UNCHANGED << JobRow(c[3]), executions >>
<1>1. [Next]_vars => [harmless]_vars
  <2> SUFFICES ASSUME [Next]_vars, NEW c \in calls, c \notin calls', c[4] # fence[c[3]]
               PROVE  UNCHANGED << JobRow(c[3]), executions >>
    OBVIOUS
  <2>1. Serve(c) \/ CallLost(c)
    BY CallsLeave
  <2>2. ~ServeComplete(c) /\ ~ServeFail(c) /\ ~ServeRefused(c)
    BY DEF ServeComplete, ServeFail, ServeRefused, Complete, Fail, HoldsLease
  <2>3. UNCHANGED dbVars
    BY <2>1, <2>2 DEF Serve, ServeStale, CallLost
  <2>4. QED BY <2>3 DEF dbVars, JobRow
<1>2. QED BY <1>1, PTL DEF Spec, StaleCallsHarmless

=============================================================================
