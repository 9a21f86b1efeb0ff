# TLA+ models of touchmyapi

touchmyapi runs authorised security assessments for several tenants. A customer
drafts an assessment, the API puts it into a PostgreSQL job queue, a worker
claims the job and runs it, a second cycle of the worker publishes findings and
reports from a transactional outbox, and everything that matters is appended to
an audit chain. Users belong to accounts with roles, and act through rotating
sessions.

This directory models the parts of that in which something can go wrong between
two steps: SQL functions whose transactions interleave, workers that die or lose
replies, leases that end, events delivered twice, sessions revoked while they are
being used, requests that share a pool of connections, answers that reach the
browser in another order. The modules are checked with TLC on small instances; for what matters
most there are TLAPS proofs for every value of the constants.

Paths below are relative to the repository, `migrations/` means
`packages/db/migrations/`.

## 1. Inventory

### The job queue: `migrations/0018_queue_schema.sql`, `0027_passive_delivery.sql`

State: `job` (status, lease owner and end, fencing token, attempts,
available_at), `assessment.status`, the counters `queue_global_state` and
`queue_tenant_state` (running_count against concurrency_limit,
last_dispatched_at), `runner_execution`, `outbox_event`.

Operations: the SECURITY DEFINER functions `queue_enqueue`, `queue_claim`,
`queue_heartbeat`, `queue_complete`, `queue_fail`, `queue_reap`,
`queue_reconcile`, and the trigger `queue_assessment_transition`, which writes the
assessment and inserts the finish event whenever a job's status changes.

Hard: leases end by two different clocks (`new Date()` of a caller,
`clock_timestamp()` of the server); calls that were given up on arrive later;
`FOR UPDATE SKIP LOCKED` makes the reaper and the reconciler overlook rows; a
trigger that is refused takes the whole batch of its statement with it.

Correct if: counters equal what runs, limits hold, a job succeeds only with the
result of the very claim that completed it, a finished job never changes, each
finish is announced once, assessment and job agree, and whatever is queued ends
unless nobody recovers a dead worker's job.

### The worker's execution cycle: `apps/worker-control/src/service.ts`, `runtime.ts`, `packages/db/src/worker-delivery.ts`

State: where the cycle is, the claim it works under (job and fencing token), the
calls under way. Operations: claim, load, heartbeat beside execute, record the
result in a tenant transaction, complete, or fail in the catch clause.

Hard: the heartbeat runs concurrently with the execution and may end it; the
recording transaction checks the lease before it writes; `failJob` runs after any
exception, also after a completion whose reply was lost.

### The outbox and the delivery cycle: `migrations/0018`, `service.ts`, `worker-delivery.ts`, `packages/reporting/src`

State: `outbox_event` (status, lease, fencing token, attempts), object storage,
`report`, `notification`, the assessment, the account's active entitlement.
Operations: `outbox_claim`, `outbox_heartbeat` (which nobody calls), `outbox_ack`,
`outbox_fail`, `outbox_reap`; `runDeliveryCycle` with `prepareReports`,
`publishSucceededJob`, `publishTerminalJob`, `deleteReports`.

Hard: storage and database cannot commit together; a batch of 25 is worked
through under one lease; a delivery is repeated after it took effect.

Correct if: acknowledged means published, published happens once, deliveries are
bounded, a settled event stays settled, reports the customer sees can be read.

### Memberships, invitations and sessions: `packages/db/src/auth-session.ts`, `migrations/0006`, `0014`, `0016`, `0019`, `0024`

State: `account_membership`, `account_invitation`, `session` with its families.
Operations: `auth_complete_provider_login`, `auth_create_invitation`,
`auth_accept_invitation`, `auth_update_membership_secure`, `auth_switch_account`,
`auth_rotate_session`, `auth_revoke_session`.

Hard: READ COMMITTED, so each statement sees another state; rows are locked one by
one; a session changes while a call that it authorised waits.

Correct if: an account keeps an active owner, a removed member has no live
session, a family has one live session and none after logout, an invitation is
used once.

### The audit chain: `packages/db/src/audit.ts`, `system-audit-session.ts`, `migrations/0007`-`0010`

State: `audit_event` with `prev_event_id` and `chain_seq`, one locking row per
account (`audit_account_state`) and one for the system. Operations:
`appendAuditEvent` and `appendSystemAuditEvent` within the transaction of the work
that they record, and the same statements in the login and membership functions.

Hard: tail and insert are two statements; numbers are given before commit;
references to the account make an INSERT wait for a login.

Correct if: each chain is unbroken at every moment, only grows at its end, and its
locks cannot make writers wait for each other for ever.

### The tenant boundary: `packages/db/src/tenant-session.ts`, `tenant-internal.ts`, `connection-internal.ts`

State: the pool of connections, each with its transaction, `app.tenant` and current
role; the stage that each call of `withTenant` has reached. Operations: reserve,
begin, inspect the login in the catalogs, bind the tenant, switch the role, inspect
again, run the callback, reset both, commit or roll back, discard, release.

Hard: each of some fifteen statements may be refused or may lose the connection,
and the connection is used by another tenant next; `finally` clauses throw too.

Correct if: a callback's statements run in its own transaction, tenant and role,
a free connection carries nothing, every connection comes back, and a login that
could leave the runtime roles is refused.

### Intake and delivery routes: `apps/api/src/assessments.ts`, `delivery.ts`, their stores, `packages/db/src/tenant-assessment.ts`, `tenant-delivery.ts`, `packages/policy/src`

State: the drafts with their attestation, the jobs by target key, the audit
events, what each open transaction has written and locked. Operations: create, list
and queue a draft; read a delivery, reports and notifications; mark one as read;
issue a download URL. Queueing is a transaction that reads a snapshot, the
resolution of names and the policy decision outside of any, and a second
transaction that locks, enqueues and audits.

Hard: the decision is made between two transactions; a transaction may fail after
each of its statements, its COMMIT included; two requests may be about one draft or
one target; a membership may change meanwhile.

The policy engine (`scope.ts`, `limits.ts`, `entitlement.ts`, `engine.ts`) is pure:
from the target, the addresses it resolves to, the scope, the ceilings of four
authorities, the attestation and the playbook it computes a set of reasons, and
allows what has none.

Correct if: what is answered "ok" is committed and on the audit chain, a draft is
dispatched once, two active jobs are not for one target as it was written up to its
first slash, and every job is for a public target inside the attested scope.

### The console: `apps/web/src/App.tsx`, `packages/ui/api-client.ts`, `apps/api/src/auth.ts`

State: in the browser the session cookie and the login cookie; in the tab the
account, the register, the selection, the results, `resultsGeneration`, two busy
flags and the handlers under way; on the server the sessions. Operations: load,
refresh (by hand or by a timer), select, switch account, accept an invitation,
change a member, submit or queue an assessment, log out, log in.

Hard: handlers are async and overlap; `GET /auth/session` and a switch replace the
cookie, and their answers come in any order or never; closures hold the selection
of an earlier render.

Correct if: the cookie follows the rotation, an older refresh never replaces newer
results, the boot screen and the busy state of the workspace end, and the newest
reading of results gives their controls back.

### The rest

| Part | What it does | Here |
| --- | --- | --- |
| Reports, analysis, playbooks (`packages/reporting`, `analysis`, `playbooks`) | bytes from one manifest | an object exists or not |
| Identity providers (`github-oauth-adapter.ts`, `oidc-adapter.ts`) | the exchange of a code for an identity | one outcome of the callback route |
| Contracts, secrets, admin console, migrations' static grants, scripts | shapes, sequential functions, a local stand-in, deployment | not modelled; see section 8 |

How they interact: the console calls the API, whose sessions are those of Access;
each route's store calls `withTenant`. The API and the worker share nothing but the
database. The API enqueues; the worker polls (`runWorkerLoop`) and alternates a delivery cycle with
an execution cycle. The job's trigger inserts the outbox event that the delivery
cycle claims. All of them append to the audit chain in their own transactions.

## 2. Modules

```
 QueueControl  ---- queue functions and trigger      QueueControl_proofs
      ^ EXTENDS
 JobQueue      ---- + workers, calls in flight       JobQueue_proofs   MCJobQueue

 Outbox        ---- outbox functions
      ^ EXTENDS
 Delivery      ---- + delivery cycle, storage        Delivery_proofs   MCDelivery

 Access        ---- memberships and sessions         Access_proofs     MCAccess

 AuditLedger   ---- what the audit trail promises
      ^ INSTANCE
 AuditChain    ---- its writers                      AuditChain_proofs MCAuditChain

 Principal     ---- what the catalogs may hold
      ^ EXTENDS
 TenantSession ---- withTenant over a pool           TenantSession_proofs
      ^ EXTENDS            Scope <- Limits <- Policy: the policy engine
 CustomerApi   ---- + Policy, the routes             CustomerApi_proofs MCCustomerApi

 AuthRoutes    ---- cookies and sessions
      ^ EXTENDS
 Console       ---- + one tab, other windows         Console_proofs    MCConsole
```

Two modules serve twice. `QueueControl` and `Outbox` describe what a database
function does, as an operator with the caller's arguments; `DbNext` and
`OutboxNext` let anybody call them in any order with any token that was ever
given out. `DbSpec` and `OutboxSpec` are therefore the abstract specifications of
the two tables: whatever is proved of them holds for every client. `JobQueue` and
`Delivery` compose the same operators with the processes that call them, and are
shown to implement them. `AuditLedger` is an abstract specification of another
kind: it knows only what a reader can see and `AuditChain` refines it.
`TenantSession` is in the same position as `QueueControl`: `SessionSpec` lets
anybody call `withTenant` at any time with any account and a callback of any length,
and `CustomerApi`, each of whose steps is one of its actions or none, implements it.

Definitions introduced as a "Variant" belong to no action. Each is the definition
below it with one slip (a dropped predicate, a limit off by one, an unlocked read)
and is there to show that a property does notice it.

### Correspondence to the code

*QueueControl.* One operator per function: `Enqueue`, `Claim`, `Heartbeat`,
`Complete`, `Fail`, `Reap`, `Reconcile`. Each is one step, because all but
`queue_enqueue` begin by locking the global row, and `queue_enqueue` locks its
draft and inserts a row under a unique key. `SetStatus` is `UPDATE job SET status` with the trigger behind it, so the
assessment and the finish event change in the same step, or nothing does.
`RecordBegin` and `RecordCommit` are the two ends of
`recordClaimedRunnerResult`'s transaction, which holds the job's row (`locked`)
without the global lock: other functions wait for the row or skip it, as their SQL
says. Time is `lease`: "live", then "disputed" (over for some clocks), then "over".
`dispatched` is `last_dispatched_at`: a claim sets it to any of `Instants`, for p_now
is the clock of the host that calls, read before the call waits for the global row
(`queue-control.ts:34`), and need not be later than the instants of other claims.
An assessment and its job are one element of `Jobs`, because `queue_enqueue` turns
a draft into queued and nothing makes it a draft again.

*JobQueue.* `pc` is the position in `runExecutionCycle`; `task` and `token` are its
claim. `calls` holds calls of `queue_complete` and `queue_fail` that were sent: the
server may execute one at any later time, also when its sender has given up or
died, and the reply may be lost. A claim's reply can be lost too
(`ClaimReplyLost`). `Crash` rolls an open transaction back.

*Outbox.* As QueueControl, one operator per function; `Append` is the trigger's or
`queue_enqueue`'s INSERT.

*Delivery.* One action per await of `runDeliveryCycle`, each with the outcomes that
it can have: a `put` that threw may have stored its object, a commit's reply may be
lost, a delete may fail silently. An event stands for its job and assessment, which
the properties of JobQueue justify (section 5).

*Access.* One action per statement that can wait for a lock, since READ COMMITTED
takes a new snapshot for each; `held` are the locks kept to the end of the
transaction. Tests that PostgreSQL repeats on a row it had to wait for are repeated
in the action that gets the lock, and those that it does not repeat are not.

*AuditChain.* One action per statement of an append: lock the state row, read the
tail, insert (which takes a number and is visible to nobody else), wait for the
account's row as the foreign key demands, commit or abort.

*Principal, TenantSession.* `stage` is the next statement of a call; a step is a
statement that was answered, `StatementFails` one that the server refused (an open
transaction is then aborted and answers nothing but its end), `ConnectionLost` a
connection that broke. `AfterError` is where the `catch` and `finally` clauses lead.
The settings are LOCAL, so `EndTransaction` takes them back. The four queries on the
catalogs that `assertSafePrincipal` and `assertSwitchedPrincipal` make are the two
sets of reasons of Principal; `ReachableRoles` is the recursive query.

*Scope, Limits, Policy.* Texts are records of what their parser tells apart: labels
of a host, octets or groups of an address, segments of a path, marks for what is
refused. `CompileScope`, `Authorize` and the rest are operators that follow the order
of the code's checks where an answer depends on it. A fingerprint is the record that
it is computed from.

*CustomerApi.* Each place for a request has a call of `withTenant`. `mine` is what an
open transaction has written and nobody else sees, `locks` what it has locked; a
commit applies, a rollback forgets. `Refused` is a lock that is not granted within
`lock_timeout` or the unique index on the keys of all jobs. The key is the target's
text in lower case up to its first slash: host, dots, port and, as `spelling`, what
else is written there (a query without a slash, a backslash, a host in
percent-encoding); a key of more than 512 characters, which `queue_enqueue` answers
with NULL, is not among the inputs. `Decide` is all that happens
between the two transactions of `queueAssessment`; `Verdict` tabulates the engine's
answer for every draft, clock and resolution. The worker is one step (`Completed`)
and the membership routes are another (`MemberChanges`), for JobQueue, Delivery and
Access are about these. Clocks of the API and the database may differ.

*AuthRoutes, Console.* A route is answered in one step, with the cookie that it sets,
or 404 when the account of its URL has no such assessment or delivery;
the answer then travels on its own. A handler of the tab is a slot with the call it
awaits; what runs up to the next `await` is one step, and a handler's closure is what
it keeps in `task`. `stray` says that an answer with a new cookie never reached the
browser.

## 3. Runs

Every run is exhaustive for its constants. No state constraint is used: the bounds
are constants that guards of the modules name.

| Run | Instance | Asks |
| --- | --- | --- |
| `job_queue` | 2 workers, 2 jobs of one tenant, limits 1 and 2, 2 claims per job, at most 2 calls in flight, a reaper, every column granted | With crashes, lost replies and late calls: are counters exact, limits kept, results on record, events unique, claims exclusive and paid for by attempts, late calls of earlier claims harmless, and do workers do no more than `DbSpec` allows? |
| `job_queue_retry` | 1 worker, 2 jobs, 2 claims per job, 1 call in flight, the column grants of the migrations, fairness of the shipped processes, a reaper and a reconciler with batches of 1 that may run at any time and need not | Are assessments in agreement with their jobs also when the trigger is refused, locked rows stable, is capacity never withheld by a counter; does every job that waits finish, unless an expired lease that nobody reaps keeps the slot? |
| `delivery` | 2 consumers, a delivery and a terminal event, 2 report kinds, 2 deliveries, a plan that changes | Is acknowledged published, once; are deliveries exclusive and bounded; does the cycle implement `OutboxSpec`? |
| `delivery_live` | 1 consumer, an event of each kind, fairness of the shipped processes, a reaper that may run and need not | Does every event settle that no consumer has left? |
| `access` | 2 users, 2 accounts, 4 session rows, 2 invitations, 2 connections, 3 calls | Do owners, sessions and families survive every interleaving of two connections? |
| `audit_chain` | 1 account and the system, 3 connections, 5 numbers | Is the committed trail whole and append-only; do waiting circles contain a login? |
| `customer_api` | 2 requests at a time, 2 connections, 2 accounts, 3 catalogs, 15 scenarios of up to three requests, 9 inputs, 3 resolutions, 2 clocks, 1 fault, 1 change, fairness | Does no tenant meet another's session; is what is answered committed, audited and allowed; are drafts and targets dispatched once; is every request answered? |
| `console` | 1 tab with 2 handlers, 1 other window, 2 accounts, 2 handlers started, 7 tokens, 1 fault, fairness | Does the cookie follow the rotation, do results never go back, do the boot screen and `busy` end, does the newest reading of results reset `resultsBusy`? |

Why these bounds are enough for what they look for. A race here is between a claim
and its recovery, so two claims of a job (`MaxAttempts` 2) and two workers give an
old claim, a new one, the same worker holding both in turn, and a job that is
exhausted. Two jobs of one tenant compete for its one slot: one waits while the other
runs, is lost or is recovered. Only the tenant's limit (1) ever binds in `job_queue`,
and no batch of the reaper has two jobs; for the global limit and for batches of any
size there are the proofs (`DbCapacityRespected`, `DbCountersExact`). `MaxCalls` is how
many calls of `queue_complete` and `queue_fail` are under way at once: 2 in `job_queue`,
enough for a late call of an old claim beside the current one, 1 in `job_queue_retry`,
where a late call may still meet any later state of its job, and 8, which is never
reached, in the other runs. `Instants` has one element: with one tenant the order of
dispatch does not matter. With two deliveries of an event there is one that
fails or is lost in every way and one after it. Three calls over two connections
are what it takes for one call to end, and its effects to be used, while another is
still under way. In `audit_chain`, three connections allow one that
holds, one that waits and one that comes in between; `MaxSeq` 5 leaves room for a
transaction of two events, a rollback and two more events. In `customer_api` the
scenarios pair the requests that can meet (two for one draft, two for one target, a
delivery beside a mark, a download beside an enqueue), and with two connections one
can be lost while the other works; one fault may be any statement of either, and
what follows it is never another fault but the other request. The inputs have one of
each kind that the engine tells apart: inside and outside of the scope, a wildcard, a
bare URL, a trailing dot, a local name, an odd port, a query without a slash, a
category without playbook. In
`console` two handlers that overlap make every order of two answers, `MaxTokens`
leaves each of them a rotation and a switch, and one fault is a lost, failed or
refused call; the safety properties were also checked with three handlers started and
eight tokens (1,416,415 states). `Events` and `Jobs` are
numbers because the SQL orders by id; workers, consumers and connections are model
values, and symmetric where no liveness is checked.

`CHECK_DEADLOCK FALSE` in all runs: the systems do stop, when all jobs are done,
all requests answered, all calls or numbers used up.

The policy engine has no run of its own: `PolicyAssumption`, which TLC evaluates before
`customer_api`, compares its answers with the inputs and resolutions that are lawful by
their construction, which do not use the engine's operators, and `JobsWereAllowed` does
so for what is queued in the end.

### Disagreements

Four runs check one statement of the repository's own documents and fail.

* `target_reuse`. contracts/queue.md says that one *active* job per target is
  allowed. `job.dedupe_key` is unique over all jobs, so a target that has been
  assessed once can never be queued again.
* `failure_grant`. queue.md says that the reaper recovers expired leases and fails
  exhausted jobs. `queue_control` may update `status` and `updated_at` of
  `assessment`; since 0027 the trigger writes `failure_reason` too when a job fails.
  Every `queue_fail` is refused, and a `queue_reap` whose batch contains an
  exhausted job is rolled back as a whole, again and again. The run supposes somebody
  who does call it again and again (`FairSpecWithReaper`), and still fails. `job_queue`
  gives the grant (`FullGrant`), to see what the rest of the code guarantees once it is
  there; `job_queue_retry` does without.
* `reconcile_drift`. queue.md says that `queue_reconcile` repairs the counters. It
  counts with SKIP LOCKED, and misses a running job whose result is being recorded.
* `delivery_plan_change`. queue.md says that consumers are idempotent. If the reply
  of a committed publication is lost, the worker deletes the published objects; if
  the plan has lapsed at the next delivery they are not generated again, the event
  is acknowledged, and the report rows have no objects.

More was met that no run expresses as a failure. Nothing in the repository calls
`queue_reap` or `outbox_reap` (`runWorkerLoop`, `runtime.ts:216-230`, runs the two
cycles and nothing else; `runQueueReaper` has no caller), so the job of a dead worker
keeps its tenant's slot for ever, and the batch of a dead consumer is never delivered.
Tenants are served in the order of the clocks of the hosts that claimed for them: one
whose claims come from a clock that is behind is served again before the others.
A login locks its
account FOR UPDATE and then waits for the audit state row, while a download, a
recorded result or a membership update holds that row and its INSERT waits for the
account: PostgreSQL aborts one of them, or `lock_timeout` does. `DeadlockNeedsLogin`
states exactly this. When the deliveries of an event are used up, its assessment
stays "analyzing" for ever. And the listing of members
(`0025_auth_membership_contact.sql:43-51`) joins `user` on the account too, so that
members whose own account is another one are not listed.

In the intake: a target written as a URL with an empty scope can never be queued,
since its text is compiled as a rule and a rule has no scheme (the answer is 503). An
entitlement accepted by a database clock ahead of the API's is refused as invalid, 503
too. The dedupe key keeps a written port, a trailing dot and a query that no slash precedes,
so that one host has several keys: www.acme.com and www.acme.com?x=1 may be under
examination at once (the run has both). A trailing dot is denied anyway, because the
attested target and the host differ. If `DISCARD TEMP` fails after a commit, the request fails although its
work is done.

In the console, `docs/reviews/2026-08-24-passive-delivery-v1.md:17` says that it
"discards stale account requests", and that holds of results only. After a switch, an
older refresh may still replace accounts, members and register by those of the earlier
account; a selection made during a refresh is taken back by it, and one made later by
the timer's, whose closure is that of the register's last change. `resultsBusy`, which disables Refresh results, Mark read and Download, can stay true
for ever: a newer refresh fails before it reaches the results, or an older refresh
reaches them when a newer reading has ended, sets the flag and finds itself stale in
its `finally` (`App.tsx:317-319`). `ConsoleSettles` is therefore about the boot screen
and `busy` only, and `NewestResultsRelease` about readings that are not overtaken. A
refresh that
ends after a logout fills the tab again; and the answer of a switch that overlaps a
logout restores a cookie that lives, since a switch moves the session's hash in place
(a rotation does not). A lost answer of a rotation leaves the browser with a dead
cookie, two tabs that boot on one cookie get one 401, and two logins that overlap both
fail, as they share one login cookie. `GET /accounts` answers a dead session with an
empty list. Marking a notification as read sends GET (`api-client.ts:252-260`) where
the API registers POST (`delivery.ts:143`). The model has
all of these but the second tab and the last, and no property that is checked says
otherwise.

## 4. Fairness

`FairSpec` of CustomerApi assumes, for each request as a whole, that it goes on: node
runs what is ready, `statement_timeout` and `lock_timeout` end every wait on the
server, and a reservation is served when a connection is free. It says nothing of how
a step ends, and two requests may wait for each other's locks until one is refused.
`Fairness` of Console assumes that a call is answered or fails and that the event loop
runs what waits for it; not that a user, a timer or the assessments do anything.

`Fairness` (JobQueue) and `DeliveryFairness` assume:

* that a worker goes on with its cycle (`runWorkerLoop` is an endless loop that
  swallows exceptions, the runner has a time limit, lock and statement timeouts end
  every wait), as one weak fairness condition for all its steps, not one for
  each: nothing says that any step succeeds, or that a worker does not crash
  again and again;
* that the server executes a call in flight;
* that clocks advance (`LeaseAges`, `BackoffElapses`, and their like in Outbox).

They do not assume that anybody calls `queue_reap`, `queue_reconcile` or `outbox_reap`,
which no process of the repository does: these are steps that may be taken at any time
and need not be. So `QueuedJobFinishes` says of the shipped system what is true of it:
every job that waits, first or again, is finished in the end, or from some time on
there is always a running job whose lease is over. The second does happen, after a
crash, a lost reply, or a failure that the trigger refuses; the property says that
nothing else can stop the queue, neither a counter, nor a late call, nor a backoff, nor
a refused trigger. Likewise `EveryEventSettles`: an event that stays is one that a
consumer claimed and left, and the others do not wait for it. Only `failure_grant` is
checked with a reaper that runs again and again (`FairSpecWithReaper`), since that is
what queue.md speaks of.

That the jobs that workers do not leave finish, although attempts fail, follows from
the bound on attempts, not from fairness.

## 5. Proofs

The proofs hold for all constants that satisfy the named assumptions (limits and
attempts are positive, sentinel values are none of the things they stand beside,
sets of jobs and accounts are finite and ordered). Each is an inductive invariant:
`Init => IInv`, `IInv /\ [Next]_vars => IInv'`, `IInv => property`.

*QueueControl_proofs.* `DbTypeCorrect`, `DbCountersExact`, `DbCapacityRespected` of
`DbSpec`. The counters are exact by induction on themselves: each operator that
moves a job into or out of "running" changes both counters by the size of what it
moved, which for `Reap` needs the cardinality of a batch of several jobs, account by
account. Capacity then follows from the guard of `Claim`, since what it compares
with the limit is the number that runs. `DbAssessmentFollowsJob`,
`DbAttemptsAccountForClaims` and `DbOneFinishEvent` need no more than `TypeOKDb`
beside themselves, because of one lemma, `RowMoves`: in any step a job stays or makes
one of seven moves, and each of these takes its assessment, its attempts and its event
along. `DbNeverOvercounted` needs no exact counters: the reconciler may miss rows but
counts none twice, and what other functions add and take off they add and take off in
both. `DbLockedRowStable` follows from the row lock. `DbNewTenantsTakeTurns` says what
the dispatch order guarantees whatever the callers' clocks read: while a tenant that was
never served has a claimable job and a free slot, a claim serves it or another new
tenant with a smaller id, which is new no more; nobody who was served before comes
first. It holds because an instant is never NULL (`InstantsAssumption`). Between tenants
that were served before nothing is guaranteed, and nothing is stated.

*JobQueue_proofs.* `JobQueueImplementsDb`: `Spec => DbSpec`, so that everything
proved about the functions holds of the system. The step of the proof that needs an
invariant is that every token that a worker or a call carries was given out.
`WorkersExclusive` (`ClaimsExclusive`) and `SuccessIsRecorded`
(`SucceededWasRecorded`) need to know more: that a call of `queue_complete` carries
a token under which a result was recorded, and that a worker past `RecordCommits`
holds such a token. With `JobQueueImplementsDb` what is proved of the functions is
repeated for the system: `JobsFollowed`, `CapacityCounted`, `RecordingUndisturbed`.
`StaleCallsRefused` (`StaleCallsHarmless`) goes through all steps, since a late call
of `queue_complete` or `queue_fail` may meet a job in any state. Heartbeats are served
at once in JobQueue; that one with an old token changes nothing is the guard of
`Heartbeat`, which `DbSpec` lets anybody call with any token.

*Delivery_proofs.* Of `OutboxSpec`: `OutboxTypeCorrect`, `OutboxDeliveriesBounded` and
`OutboxSettledIsFinal`. Of `DeliverySpec`: `CycleImplementsOutbox`: `DeliverySpec => OutboxSpec`, and with it
`CycleKeepsOutbox` for any number of consumers. The refinement needs that a token that
a consumer presents was given to it; `ClaimsGranted` says so, that no claim is with
two consumers, and that the last one is with the consumer that the row names
(`ClaimsStayExclusive`). `AckAfterPublication` and `PublicationCountsOnce` are about
the world outside of the outbox: `StepsFit` says that a consumer that is about to
acknowledge has seen the effect (a committed publication, or an assessment that an
earlier delivery completed), `AssessmentFits` that an assessment under delivery is
analyzing or completed and so cannot be completed twice, and `ProcessedEffected`
carries it to the events that are processed.

*Access_proofs.* `AccessTypeCorrect` and `OwnerAlways`: an account always has an
active owner. That owners are counted by one statement and demoted by another is
safe because of the rows locked before. The invariant says that an update holds the
row of its target from its lock to its commit (`TargetHeld`), that of two updates of
one account that take an owner away the later one has found the other's target among
the owners it locked (`OwnersFound`), and that what its count showed, another active
owner, stays true until it commits (`OwnerRemains`).
The four theorems about sessions, `LogoutIsFinal`, `RotationsShareFamily`,
`RemovalsEndSessions` and `RoleChangesRevoke`, share a second invariant, `SessInv`. Each
of the functions reads the sessions in one statement and ends them in a later one, so
what has to be shown is that what was read is still all there is: `LogoutFound` (a
logout that holds its family's lock has found every row of it; a rotation cannot add
one) and `SessionsFound` (an update of a member holds his row, and a rotation, a switch
or a login that would add a live session has to wait for it). `FamilyOpen` and
`LoggedOutKnown` say that a family bears the name of a session that is on record, so
that no login reopens one.

*AuditChain_proofs.* `AuditTypeCorrect`, `AuditChainLinked`,
`AuditImplementsLedger`, `AuditDeadlockNeedsLogin`. The invariant says that only the
holder of a chain's state row has uncommitted events in it (`Serialized`), that
these come after all that are committed (`PendingLast`), and that the tail it has
read is still the last (`TailCurrent`); and that nobody but a login has the account
exclusively (`LoginsExclusive`).

*TenantSession_proofs.* `SessionInvariant`, `SessionTenantBound` and
`SessionConfined` of `SessionSpec`. The invariant says of each stage what the
connection carries (`Serving`, `Prepared`), that the login was found safe before
anything was bound to it (`Inspected`), and of each connection that it is free and
clean or that its holder knows of it (`ConnectionOk`). A step of one call touches only
its own variables and its own connection, and no two calls have one, so `LocalStep`
reduces each action to the call that takes it. `SafeLogin` shows that an empty set of
reasons leaves the login nothing but runtime roles; it needs nothing of how
`ReachableRoles` is computed, only that both checks use it.

*CustomerApi_proofs.* `ApiUsesSessions`: `Spec => SessionSpec`, from the invariant that
every request names an account (`RequestsAssumption` says so of those that come), and
with it `ApiTenantBound` for any number of requests.
What the routes promise rests on one invariant, `ApiInv`, which TLC has checked on the
instance of `customer_api` too. It has two halves. `TablesInv` is about what is
committed: a row is a draft as it was created, a job that was permitted for that draft,
or a completed one with its notification (`RowsOk`); no two jobs, finished ones
included, have one key; an
assessment has at most one "queued" event; a lock has one owner, which is open.
`CallInv` is about each request: what its transaction has written is the next version
of a row, under the locks that keep the row as it is (`Drafting`, `Queueing`,
`Marking`), what its callback has read is still so (`CallbackOk`), the decision is about
the draft in the table (`DecisionOk`), and what it is going to answer is in its
transaction (`Awaited`) and, after the commit, in the tables (`Kept`).
`UndisturbedKeeps` is the lemma that makes this work for any number of requests: a
request notices nothing of another's step as long as rows only grow (`Grows`) and those
that it relies on stay (`Relies`). That a commit disturbs nobody is then a question of
locks: a draft that is being queued is written by nobody else (the lock of its row), and
no other job with its key appears before it commits (the lock of its key). The rest is
in four shapes of steps, each with its lemma: one that writes nothing (`QuietKeeps`), a
statement (`StatementKeeps`), a commit (`CommitAllKeeps`) and any other end
(`EndsKeeps`). `ApiJobsAllowed` has `PolicySound` as a hypothesis, that the engine
permits a draft only for lawful targets and public addresses: `Lawful` and `Public` are
lists made by hand, against which TLC checks the engine (`PolicyAssumption`, evaluated
for the inputs of `MCCustomerApi`).

`ApiJobsExaminable` needs no such hypothesis. It states what the lists stand for in the
policy's own terms (`Examinable`: inside the attested scope, a public host, a web port,
no forbidden address), for every input and every sequence of addresses. Beneath the same
invariant it rests on the engine's lemmas: an allowed request gathers no code
(`AllowedHasNoCode`), a list of checks that reports no code holds none that fails
(`FirstCodeOk`, from the least index of a set of them), so each resolved address passed
(`ResolvedOk`) and the normalized host did (`UrlOk`), and a name that is written anew is
read as a name again (`ReadAgainIsNoIp`). That `IsForbiddenAddress` forbids the right
addresses is its definition, which is read, not proved.

The last five theorems are about `Authorize` itself, for every request that anyone could
put to it, while the store only makes passive ones of a free plan: what it allows is
entitled (`AllowedIsEntitled`) and attested by the user for this target and scope
(`AllowedIsAttested`); if it is active, the target's origin was proved and the plan is a
verified one (`AllowedActiveIsVerified`); it runs the published playbook and no other
action (`AllowedRunsPlaybook`); and no limit exceeds a ceiling of any authority, what was
asked, or what the plan gives (`AllowedWithinCeilings`, which rests on
`MinOfPositive`: the least of a set of positive numbers is in it). Each parser has a lemma that
says what it has found when it reports no code (`EntitlementOk`, `AttestationOk`,
`VerificationOk`, `PlaybookOk`, `LimitsOk`). Of a time nothing is assumed, not even that
it is a number, so that "not in the future" is stated as the negation that the code
tests.

*Console_proofs.* `JarFollows` (`JarFollowsRotation`) and `ResultsForward`
(`ResultsNeverGoBack`), for any number of handlers, windows, accounts and answers. Both
invariants were checked by TLC too, on the instance of `console` and on the larger one of
section 3.
`JarInv` is about where a token can be. A login has at most one live session
(`OneLive`); a token in an answer on its way is in no request, in no other answer and not
yet in the jar, and its session is the live one of its login unless that is over
(`Fresh`); and `JarOk` is the property. It is inductive because a rotation can only start
from a live token: then no answer on its way belongs to that login, so the new token is
the only one, and whoever else has sent the old one comes too late. An older answer that
arrives after a newer one would break it; `Fresh` is why there is none. Each handler is
of one of seven shapes (it starts, goes on, is done, stores a cookie and goes on or is
done, loses its answer, or logs in) and each route of two (with a new token or without),
each with its lemma. `CountInv` goes along: the tokens issued and those due (`Dues`,
`DuesTwice`, `DueLogins`) are at most one, two for each handler started and one for each
window. So the model never runs out of tokens (`TokensSuffice`), which
`RoundsAssumption` is for: the bound hides nothing.
`ResultsInv` is about the refreshes: one handler at most has the current generation, and
what it has read is neither newer than what there is nor older than what is shown
(`ReadingOk`). An answer that is lost or overtaken changes nothing of that, and
`GotResults` shows only what the current one has read.

Delivery takes an event for its job: a job has at most one finish event
(`DbOneFinishEvent`), after which no queue function touches the job, since each of them
asks for a running or waiting one.

Beside the limits, these assumptions say what the program starts from:
`FirstAssumption` and `FirstSessionsAssumption` (Access: an account has an owner, a live
session is its family's only one and belongs to a member), `RequestsAssumption`
(CustomerApi: a request has the fields that its route validates) and
`ScenariosAssumption` (CustomerApi: the rows at first are ones that the program itself
could have written); `RoundsAssumption` (Console: there are tokens enough for the handlers
and logins); `ResolutionsAssumption` says that a resolution is a sequence.

## 6. Only model-checked

Liveness (`QueuedJobFinishes`, `EveryEventSettles`, `EveryRequestAnswered`,
`ConsoleSettles`, `NewestResultsRelease`), which TLAPS cannot prove.
`TargetFreeWhenInactive`, which uses ENABLED. What the policy engine allows is proved;
that it refuses nothing else, and with which codes, is neither proved nor checked beyond
what the runs of `CustomerApi` need in order to have jobs.

Two tenants at once, and several running jobs of one, are beyond the runs of the queue
(with them the instance of `job_queue` has 1.6 million states and passes, but in more
than five minutes); the proofs cover them. That new tenants take turns is only proved
(`DbNewTenantsTakeTurns`), not run, and so is `JobsAreExaminable`, of which the run of
`JobsWereAllowed` has the instance.

## 7. Plan

1. QueueControl and JobQueue; `DbSpec`. *Done.*
2. Outbox and Delivery; `OutboxSpec`. *Done.*
3. Access. *Done.*
4. AuditLedger and AuditChain. *Done.*
5. The tenant boundary, the policy engine and the intake; `SessionSpec`. *Done.*
6. The console with its cookies. *Done.*
7. Proofs. *Done* for the queue, the outbox, the delivery cycle, Access, AuditChain,
   TenantSession, CustomerApi with the policy engine, and Console: every safety
   and action property of a passing run.
8. Lock order: all transactions as sequences of locks (global, tenant, job,
   assessment, audit state, account), to show that the circle with the login is
   the only one. `docs/superpowers/specs/2026-08-22-multiuser-queue-admin-design.md:78`
   promises that the order prevents deadlocks. Of it `audit_chain` has the last two.

## 8. Not modelled

Within the modelled parts: the order of one tenant's jobs by priority and age is
left open (`Claim` takes any); bounds of arguments, UUIDs, messages and reasons are
left out; sessions expire nowhere (a session that expires is one that is not used);
locks of `account` and `audit_account_state` rows in Access only delay and are left
out there, while AuditChain is about nothing else; a statement that fails appears as `Abort`,
`Throws` or `Throw`.

In TenantSession a call is not nested in another (the code refuses that), the
callback awaits its statements, as all callers do, and the SQL firewall
(`tenant-session.ts:148-388`), which has no caller, is left out, as are capabilities
kept beyond their callback and `setIaEnabled`. In CustomerApi a
row is a draft with its attestation, job and notification, for they are written
together; the lists return nothing that a property tells apart, and `shapeDelivery`,
which hides fields by plan, is left out. In Policy the texts' lexical forms, `NFC`
normalisation and percent-encoding are marks or already done. In Console the slots are
alike and the first free one is taken; the tab starts loaded, with everything answered;
logins begin when the tab shows that nobody is signed in; downloads, marking as read and
all presentation are left out.

Not at all: the contracts' schemas, the credential encryption, report rendering and
request signing, the passive analysis, the exchange with the identity providers, the
admin console, which shows a local stand-in, the local stand-ins themselves, grants
other than those of `assessment` and of the catalogs in Principal, scripts. They are
sequential functions or text, without state that outlives a call; unit tests reach
what a model of them would say. The runner itself is outside: it is a step that may
end in any way at any time.
