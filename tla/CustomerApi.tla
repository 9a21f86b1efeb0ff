---------------------------- MODULE CustomerApi ----------------------------
(***************************************************************************)
(* The assessment and delivery routes of the customer API (apps/api:       *)
(* assessments.ts, delivery.ts and their PostgreSQL stores) with the       *)
(* tenant capabilities they call (packages/db: tenant-assessment.ts,       *)
(* tenant-delivery.ts) and the policy decision between two transactions.   *)
(*                                                                         *)
(* Each element of Calls is a place for one request at a time.  A request  *)
(* makes one or two calls of withTenant, whose steps are those of          *)
(* TenantSession; what a callback writes is its own until it commits.      *)
(***************************************************************************)
EXTENDS TenantSession, Policy

CONSTANTS
  Users,
  Ids,           \* assessments that may be created
  Scenarios,     \* bound: [rows, requests], what is there and what is asked
  Inputs,        \* bodies of create requests
  Resolutions,   \* sequences of addresses the resolver may give
  Clocks,        \* the API's clock when drafts were accepted at time 1
  MaxChanges,    \* bound: changes of a membership, and jobs that are carried out
  Members,       \* what a session may stand for
  InitialMembers,
  Lawful,        \* the inputs whose target is public and inside their own scope
  Public         \* the resolutions that give nothing but public addresses

ASSUME MembersAssumption == InitialMembers \subseteq [Users -> Members]
ASSUME ChangesAssumption == MaxChanges \in Nat
ASSUME ResolutionsAssumption == \A s \in Resolutions : s \in Seq(ToSet(s))

VARIABLES
  member,    \* what resolveSession tells of the session of a user
  row,       \* public.assessment with its attestation, job and notification
  audits,    \* the audit events of the assessments
  req,       \* the request that each place serves
  mine,      \* what its open transaction has written
  locks,     \* pairs <<resource, call>>
  asked,     \* the requests that are still to come
  changes

tables == << row, audits >>
vars == << sessionVars, member, tables, req, mine, locks, asked, changes >>

NoRow == [v |-> "none"]
NoAnswer == "none"
Kinds == {"create", "queue", "list", "delivery", "mark", "reports", "download"}
NoWrites == [rows |-> [a \in {} |-> NoRow], audits |-> {}]
NoRequest == [kind |-> "none", user |-> "none", account |-> NoTenant, id |-> 0,
              input |-> NoRow, step |-> "idle", seen |-> NoRow, found |-> FALSE,
              shown |-> FALSE, addresses |-> <<>>, answer |-> NoAnswer, number |-> 0]

-----------------------------------------------------------------------------
(***************************************************************************)
(* Drafts.  A target is a written URL whose scheme may be missing.  Its    *)
(* spelling is what the text before its first slash says beyond the host,  *)
(* the dots and the port: a query or a path begun by a backslash when no   *)
(* slash precedes them, or a host in percent-encoding; else "plain".       *)
(***************************************************************************)
Row(t, user, input) ==
  [v |-> "row", account |-> t, user |-> user, input |-> input, status |-> "draft",
   acceptedAt |-> 1, notice |-> "none", resolved |-> <<>>]

(* new URL(...).toString() drops the port of the scheme, keeps a dot at the end
   of the host and writes a backslash as a slash. *)
ExternalUrl(target) ==
  LET scheme == IF target.scheme = "none" THEN "https" ELSE target.scheme
  IN [scheme |-> scheme, host |-> target.host, port |-> PortOf(scheme, target.port),
      path |-> target.path, query |-> target.query, marks |-> target.marks \ {"backslash"}]

UrlThrows(target) == \/ {"malformed", "credentials"} \cap target.marks # {}
                     \/ ExternalUrl(target).scheme \notin {"http", "https"}

(* The target's text read as a rule. *)
TargetRule(target) ==
  [form |-> "text", host |-> target.host, port |-> target.port, path |-> target.path,
   wildcard |-> FALSE, starred |-> FALSE,
   marks |-> target.marks
               \cup (IF target.scheme = "none" THEN {} ELSE {"scheme"})
               \cup (IF target.query = "none" THEN {} ELSE {"query"})]

Compiled(input) ==
  CompileScope([inclusions |-> IF input.scope = <<>> THEN <<TargetRule(input.target)>>
                               ELSE input.scope,
                exclusions |-> <<>>])

(* Variant: the scheme is kept. *)
TargetKeyAsWritten(t, input) ==
  [account |-> t, host |-> input.target.host, port |-> input.target.port,
   spelling |-> input.target.spelling, scheme |-> input.target.scheme]

(* queueAssessment's key: the text in lower case up to the first slash after the
   scheme, with whatever it says there. *)
TargetKey(t, input) ==
  [account |-> t, host |-> input.target.host, port |-> input.target.port,
   spelling |-> input.target.spelling]

ServerCeilings == [a \in Authorities |->
                     [k \in CeilingKeys |-> IF k = "credits" THEN 1 ELSE CanonicalLimits[k]]]

Context(r, id, clock) ==
  CreatePolicyContext([accountId |-> r.account, assessmentId |-> id, userId |-> r.user,
                       evaluatedAt |-> clock], Compiled(r.input).value)

Entitlement(r, id, clock) ==
  CreatePolicyEntitlement([plan |-> "free_unverified", source |-> "baseline",
                           sourceId |-> "null", grantedAt |-> r.acceptedAt,
                           expiresAt |-> Never], Context(r, id, clock))

(* What the store asks the policy engine about a snapshot. *)
PolicyRequest(r, id, clock, addresses) ==
  LET context == Context(r, id, clock)
      scope == Compiled(r.input).value
  IN [extra |-> {}, context |-> context, action |-> "passive_external",
      targetCategory |-> r.input.category, scope |-> scope,
      target |-> [candidate |-> ExternalUrl(r.input.target), addresses |-> addresses,
                  malformed |-> FALSE],
      entitlement |-> Entitlement(r, id, clock).value,
      limits |-> [sources |-> ServerCeilings, egress |-> "scope_target", requested |-> {}],
      attestation |-> [version |-> "terms@1", playbook |-> "surface-public-posture@1.0.0",
                       accountId |-> r.account, assessmentId |-> id, userId |-> r.user,
                       target |-> ExternalUrl(r.input.target),
                       scopeFingerprint |-> context.scopeFingerprint,
                       acceptedAt |-> r.acceptedAt],
      verification |-> NoFact, playbook |-> SurfacePublicPosture]

Decision(r, id, clock, addresses) == Authorize(PolicyRequest(r, id, clock, addresses))

(* What throws before the engine is asked. *)
CannotAsk(r, id, clock) == \/ UrlThrows(r.input.target)
                           \/ ~Compiled(r.input).ok
                           \/ ~Entitlement(r, id, clock).ok

(* How the attempt to queue a draft goes on, for every draft and whatever the
   clock and the resolver say. *)
Drafts == {Row(t, u, i) : t \in Tenants, u \in Users, i \in Inputs}

Questions ==
  {<<r, id, clock, addresses>> :
     r \in Drafts, id \in Ids, clock \in Clocks, addresses \in Resolutions}

Verdict ==
  [q \in Questions |->
     IF CannotAsk(q[1], q[2], q[3]) THEN "unavailable"
     ELSE IF Decision(q[1], q[2], q[3], q[4]).allowed THEN "allowed" ELSE "denied"]

(* With some reading of the clock the draft may be queued for these addresses. *)
Permitted(r, id, addresses) ==
  /\ addresses \in Resolutions
  /\ \E clock \in Clocks : Verdict[<<r, id, clock, addresses>>] = "allowed"

-----------------------------------------------------------------------------
(***************************************************************************)
(* What there is at first, and what is asked                               *)
(***************************************************************************)
Assessments ==
  [v : {"row"}, account : Tenants, user : Users, input : Inputs,
   status : {"draft", "queued", "completed"}, acceptedAt : {1},
   notice : {"none", "unread", "read"}, resolved : Resolutions \cup {<<>>}]

Status(r) == IF r = NoRow THEN "none" ELSE r.status
HasJob(r) == Status(r) \in {"queued", "completed"}

(* The draft that a row was created as. *)
Origin(r) == Row(r.account, r.user, r.input)

(* A request has the fields that its route validates. *)
ASSUME RequestsAssumption ==
  \A s \in Scenarios : \A r \in s.requests :
    /\ DOMAIN r = {"number", "kind", "user", "account", "id", "input"}
    /\ r.kind \in Kinds /\ r.user \in Users /\ r.account \in Tenants
    /\ r.kind = "create" => r.input \in Inputs
    /\ r.kind \in {"queue", "delivery", "mark", "download"} => r.id \in Ids

(* The rows at first are the program's own: drafts, jobs that were allowed, for
   different targets, and completed assessments with their notification. *)
ASSUME ScenariosAssumption ==
  \A s \in Scenarios :
    /\ s.rows \in [Ids -> Assessments \cup {NoRow}]
    /\ \A a \in Ids : s.rows[a] # NoRow =>
         LET r == s.rows[a] IN
         /\ r.status = "completed" <=> r.notice # "none"
         /\ r.status = "draft" => r = Origin(r)
         /\ r.status # "draft" => Permitted(Origin(r), a, r.resolved)
    /\ \A a, b \in Ids :
         a # b /\ HasJob(s.rows[a]) /\ HasJob(s.rows[b])
           => TargetKey(s.rows[a].account, s.rows[a].input)
                # TargetKey(s.rows[b].account, s.rows[b].input)

-----------------------------------------------------------------------------
(***************************************************************************)
(* Requests                                                                *)
(***************************************************************************)
Update(c, changed) ==
  req' = [req EXCEPT ![c] = [f \in DOMAIN req[c] |-> IF f \in DOMAIN changed THEN changed[f]
                                                    ELSE req[c][f]]]

CapabilityFor(kind) == CASE kind \in {"create", "queue"} -> "assessment:create"
                         [] kind = "mark" -> "account:read"
                         [] OTHER -> "assessment:read"

FirstStep(kind) == CASE kind = "create" -> "insert"
                     [] kind = "queue" -> "snapshot"
                     [] kind = "delivery" -> "status"
                     [] kind = "mark" -> "mark"
                     [] kind = "download" -> "key"
                     [] OTHER -> "read"

Free(c) == req[c].kind = "none" \/ req[c].answer # NoAnswer

(* sessionForAccount and activeSession, the capability, the plan. *)
Admission(m, kind, t) ==
  FirstCode(<< <<m.account # t, "active_account_required">>,
               <<~CanMembershipCapability(m.role, m.status, CapabilityFor(kind)),
                 "membership_required">>,
               <<kind = "download" /\ ~RightsForPlan(m.plan).reports, "plan_required">>,
               <<kind = "reports" /\ ~RightsForPlan(m.plan).reports, "empty">> >>)

Receive(c) ==
  /\ Free(c)
  /\ \E r \in asked :
       LET code == Admission(member[r.user], r.kind, r.account)
           new == [f \in DOMAIN NoRequest |-> IF f \in DOMAIN r THEN r[f] ELSE NoRequest[f]]
       IN /\ asked' = asked \ {r}
          /\ IF code = "ok"
             THEN /\ req' = [req EXCEPT ![c] = [new EXCEPT !.step = FirstStep(r.kind)]]
                  /\ Call(c, r.account)
             ELSE /\ req' = [req EXCEPT ![c] = [new EXCEPT !.answer = code]]
                  /\ UNCHANGED sessionVars
  /\ UNCHANGED << member, tables, mine, locks, changes >>

-----------------------------------------------------------------------------
(***************************************************************************)
(* What a callback may see and take                                        *)
(***************************************************************************)
Frame == UNCHANGED << member, tables, asked, changes >>

Doing(c, kind, step) == /\ req[c].kind = kind
                        /\ req[c].step = step
                        /\ Statement(c)

(* Row security and the WHERE clause; a transaction sees what it wrote. *)
Sees(c, a) == IF a \in DOMAIN mine[c].rows THEN mine[c].rows[a]
              ELSE IF row[a] # NoRow /\ row[a].account = tenant[on[c]]
                        /\ row[a].account = account[c]
              THEN row[a] ELSE NoRow

Available(resource, c) == \A l \in locks : l[1] = resource => l[2] = c

(* Variant: nothing is locked. *)
LockNothing(resource, c) == UNCHANGED locks

Lock(resource, c) == /\ Available(resource, c)
                     /\ locks' = locks \cup {<<resource, c>>}

Write(c, a, r) ==
  LET rows == mine[c].rows IN
  mine' = [mine EXCEPT ![c] =
             [rows |-> [b \in DOMAIN rows \cup {a} |-> IF b = a THEN r ELSE rows[b]],
              audits |-> mine[c].audits]]

(* appendAuditEvent: the account's chain is locked until the transaction ends. *)
Event(c, event, a) == [event |-> event, account |-> account[c], id |-> a,
                       number |-> req[c].number]

AppendEvent(c, event, a) ==
  /\ Lock(<<"audit", account[c]>>, c)
  /\ mine' = [mine EXCEPT ![c].audits = @ \cup {Event(c, event, a)}]

(* The resource that the next statement has to wait for. *)
Wanted(c) ==
  CASE req[c].step = "lock" -> <<"row", req[c].id>>
    [] req[c].step = "enqueue" -> <<"key", TargetKey(account[c], req[c].seen.input)>>
    [] req[c].step = "mark" -> <<"notice", req[c].id>>
    [] req[c].step = "audit" -> <<"audit", account[c]>>
    [] OTHER -> <<"none", 0>>

-----------------------------------------------------------------------------
(***************************************************************************)
(* The statements of the callbacks                                         *)
(***************************************************************************)

(* createAssessment: the identifier is new, and any new one will do. *)
Insert(c) ==
  /\ Doing(c, "create", "insert")
  /\ req[c].input.category = "surface"
  /\ LET fresh == {a \in Ids : row[a] = NoRow /\ \A d \in Calls : a \notin DOMAIN mine[d].rows}
         new == CHOOSE a \in fresh : TRUE
     IN /\ fresh # {}
        /\ Write(c, new, Row(account[c], req[c].user, req[c].input))
        /\ Update(c, [step |-> "audit", id |-> new])
  /\ UNCHANGED locks
  /\ Frame

(* Only the passive playbook's category is available. *)
InsertThrows(c) ==
  /\ req[c].kind = "create" /\ req[c].step = "insert"
  /\ req[c].input.category # "surface"
  /\ Throw(c)
  /\ UNCHANGED << req, mine, locks >>
  /\ Frame

DraftAudited(c) ==
  /\ Doing(c, "create", "audit")
  /\ AppendEvent(c, "draft_created", req[c].id)
  /\ Update(c, [step |-> "return", found |-> TRUE])
  /\ Frame

Snapshot(c) ==
  /\ Doing(c, "queue", "snapshot")
  /\ Update(c, [step |-> "decide", seen |-> Sees(c, req[c].id)])
  /\ UNCHANGED << mine, locks >>
  /\ Frame

(* SELECT ... FOR UPDATE finds the row as it is when the lock is granted. *)
LockDraft(c) ==
  /\ Doing(c, "queue", "lock")
  /\ Lock(<<"row", req[c].id>>, c)
  /\ IF Status(Sees(c, req[c].id)) = "draft"
     THEN Update(c, [step |-> "enqueue", seen |-> Sees(c, req[c].id)])
     ELSE Update(c, [step |-> "return", seen |-> NoRow])
  /\ UNCHANGED mine
  /\ Frame

(* The unique index on the keys of all jobs, finished ones included. *)
Occupied(t, input) ==
  \E a \in Ids : /\ HasJob(row[a])
                 /\ TargetKey(row[a].account, row[a].input) = TargetKey(t, input)

(* queue_enqueue asks for the row and for its status once more. *)
Enqueue(c) ==
  /\ Doing(c, "queue", "enqueue")
  /\ ~Occupied(account[c], req[c].seen.input)
  /\ Available(<<"row", req[c].id>>, c)
  /\ Lock(<<"key", TargetKey(account[c], req[c].seen.input)>>, c)
  /\ IF Status(Sees(c, req[c].id)) = "draft"
     THEN /\ Write(c, req[c].id, [req[c].seen EXCEPT !.status = "queued",
                                                   !.resolved = req[c].addresses])
          /\ Update(c, [step |-> "audit"])
     ELSE UNCHANGED mine /\ Update(c, [step |-> "return"])
  /\ Frame

DispatchAudited(c) ==
  /\ Doing(c, "queue", "audit")
  /\ AppendEvent(c, "queued", req[c].id)
  /\ Update(c, [step |-> "return", found |-> TRUE])
  /\ Frame

(* The lists: one SELECT. *)
ReadList(c) ==
  /\ req[c].kind \in {"list", "reports"}
  /\ Doing(c, req[c].kind, "read")
  /\ Update(c, [step |-> "return", found |-> TRUE])
  /\ UNCHANGED << mine, locks >>
  /\ Frame

(* readTenantAssessmentDelivery: the status, then the findings. *)
ReadStatus(c) ==
  /\ Doing(c, "delivery", "status")
  /\ LET r == Sees(c, req[c].id)
     IN Update(c, [step |-> IF r = NoRow THEN "return" ELSE "findings", seen |-> r])
  /\ UNCHANGED << mine, locks >>
  /\ Frame

(* Variant: the findings are read before the status. *)
ReadStatusLast(c) ==
  /\ Doing(c, "delivery", "findings")
  /\ Update(c, [step |-> "return", found |-> TRUE, seen |-> Sees(c, req[c].id),
                shown |-> Status(req[c].seen) = "completed"])
  /\ UNCHANGED << mine, locks >>
  /\ Frame

ReadFindings(c) ==
  /\ Doing(c, "delivery", "findings")
  /\ Update(c, [step |-> "return", found |-> TRUE,
                shown |-> Status(Sees(c, req[c].id)) = "completed"])
  /\ UNCHANGED << mine, locks >>
  /\ Frame

MarkRead(c) ==
  /\ Doing(c, "mark", "mark")
  /\ Lock(<<"notice", req[c].id>>, c)
  /\ LET r == Sees(c, req[c].id)
     IN IF r # NoRow /\ r.notice # "none"
        THEN /\ Write(c, req[c].id, [r EXCEPT !.notice = "read"])
             /\ Update(c, [step |-> "return", found |-> TRUE])
        ELSE UNCHANGED mine /\ Update(c, [step |-> "return"])
  /\ Frame

(* A report is there when the assessment is completed. *)
ReadKey(c) ==
  /\ Doing(c, "download", "key")
  /\ Update(c, [step |-> IF Status(Sees(c, req[c].id)) = "completed" THEN "url" ELSE "return"])
  /\ UNCHANGED << mine, locks >>
  /\ Frame

(* The object store signs a URL, or fails. *)
CreateUrl(c) ==
  /\ req[c].kind = "download" /\ req[c].step = "url"
  /\ \/ Statement(c) /\ Update(c, [step |-> "audit"])
     \/ Throw(c) /\ UNCHANGED req
  /\ UNCHANGED << mine, locks >>
  /\ Frame

DownloadAudited(c) ==
  /\ Doing(c, "download", "audit")
  /\ AppendEvent(c, "download_issued", req[c].id)
  /\ Update(c, [step |-> "return", found |-> TRUE])
  /\ Frame

CallbackReturns(c) ==
  /\ req[c].step \in {"return", "decide"}
  /\ Return(c)
  /\ UNCHANGED << req, mine, locks >>
  /\ Frame

(* A lock that somebody else keeps too long, a key that another job has. *)
CallbackRefused(c) ==
  /\ \/ ~Available(Wanted(c), c)
     \/ req[c].step = "enqueue" /\ Occupied(account[c], req[c].seen.input)
  /\ Refused(c)
  /\ UNCHANGED << req, mine, locks >>
  /\ Frame

Callback(c) ==
  /\ At(c, "callback")
  /\ \/ Insert(c) \/ InsertThrows(c) \/ DraftAudited(c)
     \/ Snapshot(c) \/ LockDraft(c) \/ Enqueue(c) \/ DispatchAudited(c)
     \/ ReadList(c) \/ ReadStatus(c) \/ ReadFindings(c) \/ MarkRead(c)
     \/ ReadKey(c) \/ CreateUrl(c) \/ DownloadAudited(c)
     \/ CallbackReturns(c) \/ CallbackRefused(c)

-----------------------------------------------------------------------------
(***************************************************************************)
(* The ends of the transaction                                             *)
(***************************************************************************)
Apply(c) ==
  /\ row' = [a \in Ids |-> IF a \in DOMAIN mine[c].rows THEN mine[c].rows[a] ELSE row[a]]
  /\ audits' = audits \cup mine[c].audits

LetGo(c) ==
  /\ mine' = [mine EXCEPT ![c] = NoWrites]
  /\ locks' = {l \in locks : l[2] # c}

Carry(c) ==
  /\ Prepare(c) \/ Restore(c) \/ Close(c)
  /\ UNCHANGED << req, mine, locks >>
  /\ Frame

CommitWrites(c) ==
  /\ Commit(c)
  /\ Apply(c)
  /\ LetGo(c)
  /\ UNCHANGED << member, req, asked, changes >>

RollbackWrites(c) ==
  /\ Rollback(c)
  /\ LetGo(c)
  /\ UNCHANGED req
  /\ Frame

(* An aborted transaction keeps its locks until it is rolled back. *)
StatementFault(c) ==
  /\ Fault
  /\ StatementFails(c)
  /\ IF At(c, "commit") THEN LetGo(c) ELSE UNCHANGED << mine, locks >>
  /\ UNCHANGED req
  /\ Frame

ConnectionFault(c) ==
  /\ Fault
  /\ ConnectionLost(c)
  /\ LetGo(c)
  /\ UNCHANGED req
  /\ Frame

(* The COMMIT was carried out and its answer is lost. *)
CommitReplyLost(c) ==
  /\ Fault
  /\ At(c, "commit")
  /\ ConnectionLost(c)
  /\ Apply(c)
  /\ LetGo(c)
  /\ UNCHANGED << member, req, asked, changes >>

-----------------------------------------------------------------------------
(***************************************************************************)
(* After a call of withTenant                                              *)
(***************************************************************************)
Back(c) == /\ At(c, "idle")
           /\ ~Free(c)

Failed(c) ==
  /\ Back(c)
  /\ outcome[c] = "error"
  /\ Update(c, [answer |-> "unavailable"])
  /\ UNCHANGED << sessionVars, mine, locks >>
  /\ Frame

(* Variant: the names are resolved once more after the decision. *)
DecideThenResolve(c) ==
  /\ Back(c)
  /\ outcome[c] = "value"
  /\ req[c].step = "decide"
  /\ IF Status(req[c].seen) # "draft"
     THEN Update(c, [answer |-> "not_found"]) /\ UNCHANGED sessionVars
     ELSE \E clock \in Clocks, decided, addresses \in Resolutions :
            LET verdict == Verdict[<<req[c].seen, req[c].id, clock, decided>>]
            IN IF verdict = "allowed"
               THEN Update(c, [step |-> "lock", addresses |-> addresses]) /\ Call(c, req[c].account)
               ELSE Update(c, [answer |-> verdict]) /\ UNCHANGED sessionVars
  /\ UNCHANGED << mine, locks >>
  /\ Frame

(* The names are resolved while no transaction is open; the resolver may fail. *)
Decide(c) ==
  /\ Back(c)
  /\ outcome[c] = "value"
  /\ req[c].step = "decide"
  /\ IF Status(req[c].seen) # "draft"
     THEN Update(c, [answer |-> "not_found"]) /\ UNCHANGED sessionVars
     ELSE \E clock \in Clocks, addresses \in Resolutions :
            LET verdict == Verdict[<<req[c].seen, req[c].id, clock, addresses>>]
            IN IF verdict = "allowed"
               THEN Update(c, [step |-> "lock", addresses |-> addresses]) /\ Call(c, req[c].account)
               ELSE Update(c, [answer |-> verdict]) /\ UNCHANGED sessionVars
  /\ UNCHANGED << mine, locks >>
  /\ Frame

ResolverFails(c) ==
  /\ Back(c)
  /\ outcome[c] = "value"
  /\ req[c].step = "decide"
  /\ Status(req[c].seen) = "draft"
  /\ Update(c, [answer |-> "unavailable"])
  /\ UNCHANGED << sessionVars, mine, locks >>
  /\ Frame

Answer(c) ==
  /\ Back(c)
  /\ outcome[c] = "value"
  /\ req[c].step = "return"
  /\ Update(c, [answer |-> IF req[c].found THEN "ok" ELSE "not_found"])
  /\ UNCHANGED << sessionVars, mine, locks >>
  /\ Frame

-----------------------------------------------------------------------------
(***************************************************************************)
(* Others                                                                  *)
(***************************************************************************)

(* The worker completes a job: findings, report and notification are published
   with the status (Delivery). *)
Completed(a) ==
  /\ Status(row[a]) = "queued"
  /\ changes < MaxChanges
  /\ changes' = changes + 1
  /\ row' = [row EXCEPT ![a] = [@ EXCEPT !.status = "completed", !.notice = "unread"]]
  /\ UNCHANGED << sessionVars, member, audits, req, mine, locks, asked >>

(* A membership, a plan or the active account of a session changes (Access).
   Only requests that are still to come can tell. *)
MemberChanges(u) ==
  /\ asked # {}
  /\ changes < MaxChanges
  /\ changes' = changes + 1
  /\ \E m \in Members \ {member[u]} : member' = [member EXCEPT ![u] = m]
  /\ UNCHANGED << sessionVars, tables, req, mine, locks, asked >>

Decided(c) == Back(c) /\ (Failed(c) \/ Decide(c) \/ ResolverFails(c) \/ Answer(c))

Init ==
  /\ InitSession
  /\ member \in InitialMembers
  /\ \E s \in Scenarios : row = s.rows /\ asked = s.requests
  /\ audits = {}
  /\ req = [c \in Calls |-> NoRequest]
  /\ mine = [c \in Calls |-> NoWrites]
  /\ locks = {}
  /\ changes = 0

Progress(c) ==
  \/ Carry(c) \/ Callback(c) \/ CommitWrites(c) \/ RollbackWrites(c) \/ Decided(c)

Next ==
  \/ \E c \in Calls :
       Receive(c) \/ Progress(c) \/ StatementFault(c) \/ ConnectionFault(c) \/ CommitReplyLost(c)
  \/ \E a \in Ids : Completed(a)
  \/ \E u \in Users : MemberChanges(u)

Spec == Init /\ [][Next]_vars

(* Node runs what is ready, the server answers or refuses within its timeouts,
   and a reservation is served when a connection is free. *)
FairSpec == Spec /\ \A c \in Calls : WF_vars(Progress(c))

-----------------------------------------------------------------------------
(***************************************************************************)
(* Safety                                                                  *)
(***************************************************************************)

(* Every variable has the values its comment says. *)
TypeOK ==
  /\ TypeOKSession
  /\ member \in [Users -> Members]
  /\ \A a \in Ids : Status(row[a]) \in {"none", "draft", "queued", "completed"}
  /\ \A c \in Calls : /\ req[c].kind \in Kinds \cup {"none"}
                      /\ mine[c] # NoWrites => stage[c] \in InTransaction \cup {"rollback"}
  /\ \A l \in locks : stage[l[2]] \in InTransaction \cup {"rollback"}
  /\ \E s \in Scenarios : asked \subseteq s.requests
  /\ changes \in 0..MaxChanges

Audited(event, a) == {e \in audits : e.event = event /\ e.id = a}

(* A caller who is told that his request was carried out can rely on it: what it
   wrote is committed, and a download URL that left the server is on record. *)
AnsweredMeansCommitted ==
  \A c \in Calls :
    req[c].answer = "ok" =>
      CASE req[c].kind = "create" ->
             \E e \in Audited("draft_created", req[c].id) : e.number = req[c].number
        [] req[c].kind = "queue" ->
             /\ Status(row[req[c].id]) \in {"queued", "completed"}
             /\ \E e \in Audited("queued", req[c].id) : e.number = req[c].number
        [] req[c].kind = "mark" -> row[req[c].id].notice = "read"
        [] req[c].kind = "download" ->
             \E e \in Audited("download_issued", req[c].id) : e.number = req[c].number
        [] OTHER -> TRUE

(* However often and by however many requests an assessment is queued, it is
   dispatched once, and its chain says so once, under its account. *)
JobsAudited ==
  \A a \in Ids :
    /\ Cardinality(Audited("queued", a)) <= 1
    /\ Audited("queued", a) # {} => Status(row[a]) \in {"queued", "completed"}
    /\ \A e \in audits : e.id = a => row[a] # NoRow /\ e.account = row[a].account

(* The policy engine allows a draft only for a public target inside the scope that
   its author attested, and for public addresses. *)
PolicySound ==
  \A t \in Tenants, u \in Users, i \in Inputs, a \in Ids, addresses \in Resolutions :
    Permitted(Row(t, u, i), a, addresses) => i \in Lawful /\ addresses \in Public

(* What a draft may be queued for, in the terms of the policy: a web target on a
   public host inside the scope that its author attested and, when the host is a
   name, addresses of which none is forbidden. *)
Examinable(r, addresses) ==
  LET scope == Compiled(r.input)
      target == NormalizeExternalUrl(ExternalUrl(r.input.target))
      host == target.value.host.host
  IN /\ r.input.category = "surface"
     /\ scope.ok
     /\ Within(scope.value, target)
     /\ ~IsForbiddenAddress(host)
     /\ target.value.port \in {80, 443}
     /\ IsName(host) =>
          /\ addresses # <<>>
          /\ \A i \in DOMAIN addresses :
               IsIp(addresses[i]) /\ ~IsForbiddenAddress(addresses[i])

JobsAreExaminable ==
  \A a \in Ids :
    Status(row[a]) \in {"queued", "completed"} => Examinable(row[a], row[a].resolved)

(* A job is for a public target inside the scope that its author attested, which
   resolved to public addresses only, whatever was asked. *)
JobsWereAllowed ==
  \A a \in Ids :
    Status(row[a]) \in {"queued", "completed"} =>
      /\ row[a].input \in Lawful
      /\ row[a].resolved \in Public

(* Two jobs that are active at once in an account are not for one host and port
   spelled alike before the first slash, though the drafts differ in scheme,
   path, scope or anything else.  Spelled differently the same host and port may
   have two: www.acme.com and www.acme.com?x=1 are two keys. *)
OneActiveJobPerTarget ==
  \A a, b \in Ids :
    a # b /\ Status(row[a]) = "queued" /\ Status(row[b]) = "queued"
          /\ row[a].account = row[b].account
      => LET first == row[a].input.target
             second == row[b].input.target
         IN <<first.host, first.port, first.spelling>>
              # <<second.host, second.port, second.spelling>>

(* A delivery that says "completed" comes with the findings. *)
CompletedShowsFindings ==
  \A c \in Calls :
    req[c].kind = "delivery" /\ req[c].answer = "ok" /\ req[c].seen.status = "completed"
      => req[c].shown

(***************************************************************************)
(* Liveness, under FairSpec                                                *)
(***************************************************************************)

(* Every request is answered, whatever fails and however few connections the
   pool has. *)
EveryRequestAnswered == \A c \in Calls : ~Free(c) ~> Free(c)
=============================================================================
