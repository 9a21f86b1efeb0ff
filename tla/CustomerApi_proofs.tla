------------------------- MODULE CustomerApi_proofs -------------------------
(***************************************************************************)
(* The routes of the customer API, for every number of requests, pool,     *)
(* account, assessment and resolution.  They use withTenant as             *)
(* TenantSession allows, so what is proved of every session holds of every *)
(* request; and what they promise holds, by one inductive invariant that   *)
(* says what an open transaction has written, seen and locked.             *)
(***************************************************************************)
EXTENDS CustomerApi, TenantSession_proofs, FiniteSetTheorems, WellFoundedInduction

\* A request that is being served names an account.
Named(r) == /\ {"account", "kind"} \subseteq DOMAIN r
            /\ r.kind # "none" => r.account \in Tenants

ReqInv ==
  /\ req = [c \in Calls |-> req[c]]
  /\ \A c \in Calls : Named(req[c])
  /\ \A r \in asked : "account" \in DOMAIN r /\ r.account \in Tenants

LEMMA ReqInit == Init => ReqInv
BY RequestsAssumption DEF Init, ReqInv, Named, NoRequest

\* What a request learns never changes who asks for what.
LEMMA UpdateKeeps ==
  ASSUME ReqInv, NEW c \in Calls, NEW changed, Update(c, changed),
         DOMAIN changed \cap {"account", "kind"} = {}, UNCHANGED asked
  PROVE  ReqInv'
<1>1. req' = [req EXCEPT ![c] = req'[c]] /\ req'[c] = [f \in DOMAIN req[c] |-> req'[c][f]]
  BY DEF Update, ReqInv
<1>2. Named(req'[c])
  BY DEF Update, ReqInv, Named
<1>3. QED BY <1>1, <1>2 DEF ReqInv

LEMMA ReceiveKeeps ==
  ASSUME ReqInv, NEW c \in Calls, Receive(c)
  PROVE  ReqInv' /\ [SessionNext]_sessionVars
<1> DEFINE New(r) == [f \in DOMAIN NoRequest |-> IF f \in DOMAIN r THEN r[f] ELSE NoRequest[f]]
<1>1. PICK r \in asked :
        /\ asked' = asked \ {r}
        /\ \/ /\ req' = [req EXCEPT ![c] = [New(r) EXCEPT !.step = FirstStep(r.kind)]]
              /\ Call(c, r.account)
           \/ /\ \E code : req' = [req EXCEPT ![c] = [New(r) EXCEPT !.answer = code]]
              /\ UNCHANGED sessionVars
  BY DEF Receive
<1>2. r.account \in Tenants /\ "account" \in DOMAIN r
  BY DEF ReqInv
<1>3. {"account", "kind"} \subseteq DOMAIN New(r) /\ New(r).account = r.account
  BY <1>2 DEF NoRequest
<1>4. Named(req'[c])
  <2>1. \A s : Named([New(r) EXCEPT !.step = s]) /\ Named([New(r) EXCEPT !.answer = s])
    BY <1>2, <1>3 DEF Named
  <2>2. QED BY <1>1, <2>1 DEF ReqInv
<1>5. ReqInv'
  BY <1>1, <1>4 DEF ReqInv
<1>6. QED BY <1>1, <1>2, <1>5 DEF SessionNext, SessionStep

-----------------------------------------------------------------------------
\* Every other step of a request is a step of its session, or none, and leaves
\* what is asked alone.
Step(c) == (SessionStep(c) \/ UNCHANGED sessionVars) /\ ReqInv'

LEMMA SameRequests ==
  ASSUME ReqInv, UNCHANGED << req, asked >>
  PROVE  ReqInv'
BY DEF ReqInv

LEMMA CallbackKeeps ==
  ASSUME ReqInv, NEW c \in Calls, Callback(c)
  PROVE  Step(c)
<1>1. UNCHANGED asked
  BY DEF Callback, Insert, InsertThrows, DraftAudited, Snapshot, LockDraft, Enqueue,
         DispatchAudited, ReadList, ReadStatus, ReadFindings, MarkRead, ReadKey, CreateUrl,
         DownloadAudited, CallbackReturns, CallbackRefused, Frame
<1>2. CASE InsertThrows(c) \/ CallbackReturns(c) \/ CallbackRefused(c)
  <2>1. UNCHANGED req /\ (Throw(c) \/ Return(c) \/ Refused(c))
    BY <1>2 DEF InsertThrows, CallbackReturns, CallbackRefused
  <2>2. QED BY <2>1, <1>1, SameRequests DEF Step, SessionStep, CallbackStep
<1>3. CASE CreateUrl(c)
  <2>1. CASE Throw(c) /\ UNCHANGED req
    BY <2>1, <1>1, SameRequests DEF Step, SessionStep, CallbackStep
  <2>2. CASE Statement(c) /\ Update(c, [step |-> "audit"])
    BY <2>2, <1>1, UpdateKeeps DEF Step, SessionStep, CallbackStep
  <2>3. QED BY <1>3, <2>1, <2>2 DEF CreateUrl
<1>4. CASE \/ Insert(c) \/ DraftAudited(c) \/ Snapshot(c) \/ LockDraft(c) \/ Enqueue(c)
           \/ DispatchAudited(c) \/ ReadList(c) \/ ReadStatus(c) \/ ReadFindings(c)
           \/ MarkRead(c) \/ ReadKey(c) \/ DownloadAudited(c)
  <2>1. Statement(c)
    BY <1>4 DEF Doing, Insert, DraftAudited, Snapshot, LockDraft, Enqueue, DispatchAudited,
                ReadList, ReadStatus, ReadFindings, MarkRead, ReadKey, DownloadAudited
  <2>2. \E changed : Update(c, changed) /\ DOMAIN changed \cap {"account", "kind"} = {}
    <3>1. CASE Insert(c) \/ DraftAudited(c) \/ Snapshot(c) \/ LockDraft(c)
      BY <3>1 DEF Insert, DraftAudited, Snapshot, LockDraft
    <3>2. CASE Enqueue(c) \/ DispatchAudited(c) \/ ReadList(c) \/ ReadStatus(c)
      BY <3>2 DEF Enqueue, DispatchAudited, ReadList, ReadStatus
    <3>3. CASE ReadFindings(c) \/ MarkRead(c) \/ ReadKey(c) \/ DownloadAudited(c)
      BY <3>3 DEF ReadFindings, MarkRead, ReadKey, DownloadAudited
    <3>4. QED BY <1>4, <3>1, <3>2, <3>3
  <2>3. QED BY <2>1, <2>2, <1>1, UpdateKeeps DEF Step, SessionStep, CallbackStep
<1>5. QED BY <1>2, <1>3, <1>4 DEF Callback

LEMMA DecidedKeeps ==
  ASSUME ReqInv, NEW c \in Calls, Decided(c)
  PROVE  Step(c)
<1>1. UNCHANGED asked /\ ~Free(c)
  BY DEF Decided, Back, Failed, Decide, ResolverFails, Answer, Frame
<1>2. req[c].account \in Tenants
  BY <1>1 DEF Free, ReqInv, Named
<1>3. /\ \E changed : Update(c, changed) /\ DOMAIN changed \cap {"account", "kind"} = {}
      /\ Call(c, req[c].account) \/ UNCHANGED sessionVars
  <2>1. CASE Decide(c)
    <3>1. \/ \E a : Update(c, [answer |-> a]) /\ UNCHANGED sessionVars
          \/ \E a : Update(c, [step |-> "lock", addresses |-> a]) /\ Call(c, req[c].account)
      <4>1. CASE Status(req[c].seen) # "draft"
        BY <2>1, <4>1, Zenon DEF Decide
      <4>2. CASE Status(req[c].seen) = "draft"
        <5>1. PICK clock \in Clocks, addresses \in Resolutions :
                IF Verdict[<<req[c].seen, req[c].id, clock, addresses>>] = "allowed"
                THEN /\ Update(c, [step |-> "lock", addresses |-> addresses])
                     /\ Call(c, req[c].account)
                ELSE /\ Update(c, [answer |-> Verdict[<<req[c].seen, req[c].id, clock, addresses>>]])
                     /\ UNCHANGED sessionVars
          BY <2>1, <4>2, Zenon DEF Decide
        <5>2. QED BY <5>1, Zenon
      <4>3. QED BY <4>1, <4>2
    <3>2. \A a : /\ DOMAIN [answer |-> a] \cap {"account", "kind"} = {}
                 /\ DOMAIN [step |-> "lock", addresses |-> a] \cap {"account", "kind"} = {}
      OBVIOUS
    <3>3. QED BY <3>1, <3>2, Zenon
  <2>2. CASE Failed(c) \/ ResolverFails(c) \/ Answer(c)
    BY <2>2 DEF Failed, ResolverFails, Answer
  <2>3. QED BY <2>1, <2>2 DEF Decided
<1>4. QED BY <1>1, <1>2, <1>3, UpdateKeeps DEF Step, SessionStep

LEMMA ProgressKeeps ==
  ASSUME ReqInv, NEW c \in Calls, Progress(c)
  PROVE  Step(c)
<1>1. CASE Carry(c) \/ CommitWrites(c) \/ RollbackWrites(c)
  BY <1>1, SameRequests
  DEF Carry, CommitWrites, RollbackWrites, Frame, Step, SessionStep, CallStep
<1>2. QED BY <1>1, CallbackKeeps, DecidedKeeps DEF Progress

LEMMA FaultKeeps ==
  ASSUME ReqInv, NEW c \in Calls,
         StatementFault(c) \/ ConnectionFault(c) \/ CommitReplyLost(c)
  PROVE  Step(c)
BY SameRequests
DEF StatementFault, ConnectionFault, CommitReplyLost, Frame, Step, SessionStep, FaultStep

\* Whatever happens is a step of one session, or of none.
LEMMA NextKeeps ==
  ASSUME ReqInv, [Next]_vars
  PROVE  ReqInv' /\ [SessionNext]_sessionVars
<1>1. CASE \E c \in Calls : Receive(c)
  BY <1>1, ReceiveKeeps
<1>2. CASE \E c \in Calls : \/ Progress(c) \/ StatementFault(c) \/ ConnectionFault(c)
                            \/ CommitReplyLost(c)
  BY <1>2, ProgressKeeps, FaultKeeps DEF Step, SessionNext
<1>3. CASE (\E a \in Ids : Completed(a)) \/ (\E u \in Users : MemberChanges(u))
  BY <1>3, SameRequests DEF Completed, MemberChanges
<1>4. CASE UNCHANGED vars
  BY <1>4, SameRequests DEF vars
<1>5. QED BY <1>1, <1>2, <1>3, <1>4 DEF Next

\* However requests interleave, whatever their transactions write and wait for,
\* the API takes the steps of withTenant and no others (assessments.ts,
\* delivery.ts and their stores, through withTenant).
THEOREM ApiUsesSessions == Spec => SessionSpec
<1>1. Init => ReqInv /\ InitSession
  BY ReqInit DEF Init
<1>2. ReqInv /\ [Next]_vars => ReqInv' /\ [SessionNext]_sessionVars
  BY NextKeeps
<1>3. QED BY <1>1, <1>2, PTL DEF Spec, SessionSpec

\* The statements of every route run under the account of their request alone,
\* on a connection that carries nothing of another (withTenant as the stores of
\* the API use it).
THEOREM ApiTenantBound == Spec => []TenantBound
BY ApiUsesSessions, SessionTenantBound, PTL

-----------------------------------------------------------------------------
(***************************************************************************)
(* The invariant of the API: what is known of the tables                   *)
(***************************************************************************)

\* A row is a draft as it was created, a job that was allowed for it, or a job
\* that was carried out and has a notification.
RowOk(r, a) ==
  r # NoRow => /\ r.status = "completed" <=> r.notice # "none"
               /\ r.status = "draft" => r = Origin(r)
               /\ r.status # "draft" => Permitted(Origin(r), a, r.resolved)

RowsOk == /\ row \in [Ids -> Assessments \cup {NoRow}]
          /\ \A a \in Ids : RowOk(row[a], a)

KeyOf(r) == TargetKey(r.account, r.input)

KeysOk == \A a, b \in Ids :
            a # b /\ HasJob(row[a]) /\ HasJob(row[b])
              => KeyOf(row[a]) # KeyOf(row[b])

AuditsOk ==
  /\ \A e \in audits : /\ e.id \in Ids /\ row[e.id] # NoRow /\ e.account = row[e.id].account
                       /\ e.event = "queued" => Status(row[e.id]) \in {"queued", "completed"}
  /\ \A e, f \in audits : e.event = "queued" /\ f.event = "queued" /\ e.id = f.id => e = f

Open(c) == stage[c] \in InTransaction \cup {"rollback"}

\* A lock belongs to one open transaction.
LocksOk ==
  /\ \A l \in locks : l = <<l[1], l[2]>> /\ l[2] \in Calls /\ Open(l[2])
  /\ \A l, m \in locks : l[1] = m[1] => l[2] = m[2]

(***************************************************************************)
(* What is known of a request                                              *)
(***************************************************************************)
Fields == DOMAIN NoRequest

ReqOk(c) ==
  /\ req[c] = [f \in Fields |-> req[c][f]]
  /\ req[c].kind \in Kinds \cup {"none"}
  /\ Free(c) => At(c, "idle")
  /\ ~At(c, "idle") => account[c] \in Tenants
  /\ req[c].found => req[c].step = "return"
  /\ req[c].step = "decide" => req[c].kind = "queue"
  /\ req[c].kind # "none" => req[c].user \in Users /\ req[c].account \in Tenants
  /\ req[c].kind = "create" => req[c].input \in Inputs
  /\ req[c].kind \in {"queue", "delivery", "mark", "download"} => req[c].id \in Ids

\* The steps before anything is written, and the stages of a transaction that
\* may still commit.
Beginning == {"insert", "snapshot", "lock", "status", "mark", "key", "read"}
Early == Setup \cup {"reserve"}
Running == {"callback"} \cup Teardown

There(c, a) == a \in Ids /\ row[a] # NoRow /\ row[a].account = account[c]

\* What a transaction has written is the next version of a row that nobody else
\* can replace meanwhile.
Drafting(c, a) == /\ row[a] = NoRow /\ account[c] \in Tenants
                  /\ mine[c].rows[a] = Row(account[c], req[c].user, req[c].input)

Queueing(c, a) ==
  /\ There(c, a) /\ row[a].status = "draft"
  /\ Permitted(row[a], a, req[c].addresses)
  /\ mine[c].rows[a] = [row[a] EXCEPT !.status = "queued", !.resolved = req[c].addresses]
  /\ <<<<"row", a>>, c>> \in locks
  /\ <<<<"key", KeyOf(row[a])>>, c>> \in locks
  /\ ~Occupied(row[a].account, row[a].input)

Marking(c, a) == /\ There(c, a) /\ row[a].notice # "none"
                 /\ mine[c].rows[a] = [row[a] EXCEPT !.notice = "read"]
                 /\ <<<<"notice", a>>, c>> \in locks

WrittenOk(c, a) == /\ req[c].kind \in {"create", "queue", "mark"}
                   /\ req[c].kind = "create" => Drafting(c, a)
                   /\ req[c].kind = "queue" => Queueing(c, a)
                   /\ req[c].kind = "mark" => Marking(c, a)

EventOk(c, e) ==
  /\ e = Event(c, e.event, req[c].id)
  /\ e.event \in {"draft_created", "queued", "download_issued"}
  /\ e.event = "draft_created" => req[c].kind = "create" /\ req[c].id \in DOMAIN mine[c].rows
  /\ e.event = "queued" => req[c].kind = "queue" /\ req[c].id \in DOMAIN mine[c].rows
  /\ e.event = "download_issued" => req[c].kind = "download" /\ There(c, req[c].id)

WritesOk(c) ==
  /\ mine[c] = [rows |-> mine[c].rows, audits |-> mine[c].audits]
  /\ mine[c].rows = [a \in DOMAIN mine[c].rows |-> mine[c].rows[a]]
  /\ DOMAIN mine[c].rows \subseteq {req[c].id} \cap Ids
  /\ ~Open(c) => mine[c] = NoWrites
  /\ \A a \in DOMAIN mine[c].rows : WrittenOk(c, a)
  /\ \A e \in mine[c].audits : EventOk(c, e)

Disjoint == \A c, d \in Calls : c # d => DOMAIN mine[c].rows \cap DOMAIN mine[d].rows = {}

\* What a callback has done and seen at each of its steps.
CallbackOk(c) ==
  LET r == req[c] IN
  /\ r.kind = "create" /\ r.step = "audit" => r.id \in DOMAIN mine[c].rows
  /\ r.kind = "queue" /\ r.step = "enqueue" =>
       /\ mine[c] = NoWrites
       /\ There(c, r.id) /\ r.seen = row[r.id] /\ row[r.id].status = "draft"
       /\ <<<<"row", r.id>>, c>> \in locks
  /\ r.kind = "queue" /\ r.step = "audit" => r.id \in DOMAIN mine[c].rows
  /\ r.kind = "download" /\ r.step \in {"url", "audit"} => There(c, r.id)
  /\ r.kind = "delivery" /\ r.step = "findings" =>
       /\ r.seen # NoRow
       /\ r.seen.status = "completed" => There(c, r.id) /\ row[r.id].status = "completed"

\* The decision is about the draft that is in the table, whoever has waited how
\* long for what since it was read.
DecisionOk(r) ==
  /\ r.step = "decide" /\ Status(r.seen) = "draft" =>
       row[r.id] # NoRow /\ r.seen = Origin(row[r.id])
  /\ r.step \in {"lock", "enqueue"} =>
       row[r.id] # NoRow /\ Permitted(Origin(row[r.id]), r.id, r.addresses)

StepOk(c) ==
  /\ stage[c] \in Early => req[c].step \in Beginning
  /\ stage[c] \in Early \cup {"callback"} /\ req[c].step \in Beginning => mine[c] = NoWrites
  /\ At(c, "callback") => CallbackOk(c)
  /\ req[c].kind = "queue" => DecisionOk(req[c])

\* What the caller will be told is there, in the transaction or in the tables.
Awaited(c) ==
  LET r == req[c] IN
  /\ r.kind = "create" => Event(c, "draft_created", r.id) \in mine[c].audits
  /\ r.kind = "queue" => Event(c, "queued", r.id) \in mine[c].audits
  /\ r.kind = "mark" => r.id \in DOMAIN mine[c].rows
  /\ r.kind = "download" => Event(c, "download_issued", r.id) \in mine[c].audits
  /\ r.kind = "delivery" /\ r.seen.status = "completed" => r.shown

Happened(event, r) == \E e \in audits : e.event = event /\ e.id = r.id /\ e.number = r.number

Kept(r) ==
  /\ r.kind = "create" => Happened("draft_created", r)
  /\ r.kind = "queue" => Happened("queued", r)
  /\ r.kind = "mark" => row[r.id] # NoRow /\ row[r.id].notice = "read"
  /\ r.kind = "download" => Happened("download_issued", r)
  /\ r.kind = "delivery" /\ r.seen.status = "completed" => r.shown

PromiseOk(c) ==
  /\ outcome[c] = "value" => stage[c] \in {"discard", "release", "idle"}
  /\ req[c].step = "return" /\ req[c].found =>
       /\ stage[c] \in Running => Awaited(c)
       /\ outcome[c] = "value" => Kept(req[c])
  /\ req[c].answer = "ok" => Kept(req[c])

CallInv(c) == ReqOk(c) /\ WritesOk(c) /\ StepOk(c) /\ PromiseOk(c)

TablesInv == /\ RowsOk /\ KeysOk /\ AuditsOk /\ LocksOk /\ Disjoint
             /\ mine = [c \in Calls |-> mine[c]]

ApiInv == SessionInv /\ ReqInv /\ TablesInv /\ \A c \in Calls : CallInv(c)

-----------------------------------------------------------------------------
(***************************************************************************)
(* What the steps of one request leave to the others                       *)
(***************************************************************************)

\* A row keeps what it was created with, and what is queued, completed or read
\* stays so.
Grows(a) ==
  row[a] # NoRow =>
    /\ row'[a] # NoRow /\ row'[a].account = row[a].account
    /\ row'[a].user = row[a].user /\ row'[a].input = row[a].input
    /\ row[a].status \in {"queued", "completed"} => row'[a].status \in {"queued", "completed"}
    /\ row[a].status = "completed" => row'[a].status = "completed"
    /\ row[a].notice = "read" => row'[a].notice = "read"

\* The rows that a request relies on until it commits.
Relies(d, a) == \/ a \in DOMAIN mine[d].rows
                \/ /\ At(d, "callback")
                   /\ req[d].kind = "queue" /\ req[d].step = "enqueue" /\ a = req[d].id

Undisturbed(d) ==
  /\ req'[d] = req[d] /\ mine'[d] = mine[d]
  /\ stage'[d] = stage[d] /\ outcome'[d] = outcome[d] /\ account'[d] = account[d]
  /\ \A l \in locks : l[2] = d => l \in locks'
  /\ audits \subseteq audits'
  /\ \A a \in Ids : Grows(a) /\ (Relies(d, a) => row'[a] = row[a])
  /\ \A a \in DOMAIN mine[d].rows :
       req[d].kind = "queue" => ~Occupied(row[a].account, row[a].input)'

LEMMA UndisturbedWrites ==
  ASSUME RowsOk, LocksOk, NEW d \in Calls, CallInv(d), Undisturbed(d)
  PROVE  WritesOk(d)'
<1> USE DEF CallInv, Undisturbed
<1>1. WritesOk(d) /\ \A l \in locks : l[2] = d => l \in locks'
  OBVIOUS
<1>2. \A a : There(d, a) => There(d, a)'
  BY DEF There, Grows
<1>3. ASSUME NEW a \in DOMAIN mine[d].rows PROVE WrittenOk(d, a)'
  <2>1. WrittenOk(d, a) /\ a \in Ids /\ row'[a] = row[a]
    BY <1>1, <1>3 DEF WritesOk, Relies
  <2>2. \A x : <<x, d>> \in locks => <<x, d>> \in locks'
    BY <1>1
  <2>3. CASE req[d].kind = "create"
    BY <2>1, <2>3 DEF WrittenOk, Drafting
  <2>4. CASE req[d].kind = "mark"
    BY <2>1, <2>2, <2>4, <1>2 DEF WrittenOk, Marking
  <2>5. CASE req[d].kind = "queue"
    <3>1. Queueing(d, a) /\ There(d, a)'
      BY <2>1, <2>5, <1>2 DEF WrittenOk, Queueing
    <3>2. ~Occupied(row[a].account, row[a].input)'
      BY <1>3, <2>5
    <3>3. Queueing(d, a)'
      BY <2>1, <2>2, <3>1, <3>2 DEF Queueing
    <3>4. QED BY <2>1, <2>5, <3>3 DEF WrittenOk
  <2>6. QED BY <2>1, <2>3, <2>4, <2>5 DEF WrittenOk
<1>4. ASSUME NEW e \in mine[d].audits PROVE EventOk(d, e)'
  <2>1. EventOk(d, e)
    BY <1>1, <1>4 DEF WritesOk
  <2>2. QED BY <2>1, <1>2 DEF EventOk, Event
<1>5. Open(d)' <=> Open(d)
  BY DEF Open
<1>6. QED BY <1>1, <1>3, <1>4, <1>5 DEF WritesOk

LEMMA UndisturbedKeeps ==
  ASSUME RowsOk, LocksOk, NEW d \in Calls, CallInv(d), Undisturbed(d)
  PROVE  CallInv(d)'
<1> USE DEF CallInv, Undisturbed
<1>1. WritesOk(d)'
  BY UndisturbedWrites
<1>2. ReqOk(d)'
  BY DEF ReqOk, Free, At
<1>3. \A a : There(d, a) => There(d, a)'
  BY DEF There, Grows
<1>4. StepOk(d)'
  <2>1. At(d, "callback") => CallbackOk(d)'
    <3>1. SUFFICES ASSUME At(d, "callback") PROVE CallbackOk(d)'
      OBVIOUS
    <3>2. CallbackOk(d) /\ \A x : <<x, d>> \in locks => <<x, d>> \in locks'
      BY <3>1 DEF StepOk
    <3>3. req[d].kind = "queue" /\ req[d].step = "enqueue" =>
            req[d].id \in Ids /\ row'[req[d].id] = row[req[d].id]
      BY <3>1, <3>2 DEF Relies, CallbackOk, There
    <3>4. \A a : There(d, a) /\ row[a].status = "completed" => row'[a].status = "completed"
      BY DEF There, Grows
    <3>5. QED BY <3>2, <3>3, <3>4, <1>3 DEF CallbackOk
  <2>2. req[d].kind = "queue" => DecisionOk(req[d])'
    <3>1. SUFFICES ASSUME req[d].kind = "queue" PROVE DecisionOk(req[d])'
      OBVIOUS
    <3>2. DecisionOk(req[d]) /\ req[d].id \in Ids
      BY <3>1 DEF StepOk, ReqOk
    <3>3. row[req[d].id] # NoRow =>
            row'[req[d].id] # NoRow /\ Origin(row'[req[d].id]) = Origin(row[req[d].id])
      BY <3>2 DEF Grows, Origin
    <3>4. QED BY <3>2, <3>3 DEF DecisionOk
  <2>3. QED BY <2>1, <2>2 DEF StepOk, At
<1>5. Kept(req[d]) => Kept(req[d])'
  <2>1. \A event : Happened(event, req[d]) => Happened(event, req[d])'
    BY DEF Happened
  <2>2. req[d].kind = "mark" => req[d].id \in Ids
    BY DEF ReqOk
  <2>3. QED BY <2>1, <2>2 DEF Kept, Grows
<1>6. PromiseOk(d)'
  <2>1. Awaited(d) => Awaited(d)'
    BY DEF Awaited, Event
  <2>2. QED BY <2>1, <1>5 DEF PromiseOk
<1>7. QED BY <1>1, <1>2, <1>4, <1>6

-----------------------------------------------------------------------------
(***************************************************************************)
(* Steps of withTenant that write nothing                                  *)
(***************************************************************************)

\* A step of one call is nothing to the others.
Aside(c) == \A d \in Calls \ {c} :
  stage'[d] = stage[d] /\ outcome'[d] = outcome[d] /\ account'[d] = account[d]

LEMMA SessionAside ==
  ASSUME SessionInv, NEW c \in Calls, SessionStep(c) \/ UNCHANGED sessionVars
  PROVE  Aside(c)
<1> USE DEF Goto, Refuse, EndTransaction, Aside, SessionInv, TypeOKSession, callVars
<1>1. CASE UNCHANGED sessionVars
  BY <1>1 DEF sessionVars
<1>2. CASE \E t \in Tenants : Call(c, t)
  BY <1>2 DEF Call
<1>3. CASE Prepare(c)
  BY <1>3 DEF Prepare, Reserve, Begin, Inspect, Bind, Switch, Recheck
<1>4. CASE Restore(c) \/ Commit(c) \/ Rollback(c) \/ Close(c)
  BY <1>4 DEF Restore, ResetRole, ResetTenant, Commit, Rollback, Close, Discard, Release
<1>5. CASE CallbackStep(c)
  BY <1>5 DEF CallbackStep, Statement, Return, Throw, sessionVars
<1>6. CASE FaultStep(c) \/ Refused(c)
  BY <1>6 DEF FaultStep, Refused, StatementFails, ConnectionLost
<1>7. QED BY <1>1, <1>2, <1>3, <1>4, <1>5, <1>6 DEF SessionStep, CallStep

\* What a step of a call that neither begins nor commits does to its stage.
Moves(c) ==
  /\ ~At(c, "idle")
  /\ account'[c] = account[c]
  /\ Open(c) => Open(c)'
  /\ outcome'[c] = "value" => outcome[c] = "value" /\ stage'[c] \in {"discard", "release", "idle"}
  /\ stage'[c] \in Early => stage[c] \in Early
  /\ stage'[c] = "callback" => stage[c] \in Setup \cup {"callback"}
  /\ stage'[c] \in Teardown => stage[c] \in Running

LEMMA SessionMoves ==
  ASSUME SessionInv, NEW c \in Calls, PromiseOk(c),
         \/ Prepare(c) \/ Restore(c) \/ Close(c) \/ Return(c) \/ Throw(c)
         \/ ~At(c, "commit") /\ StatementFails(c)
  PROVE  Moves(c)
<1> USE DEF Goto, Refuse, SessionInv, TypeOKSession, PromiseOk, Moves, Open, Early, Running,
            InTransaction, Setup, Teardown, At, Answers, callVars
<1>1. CASE Prepare(c)
  BY <1>1 DEF Prepare, Reserve, Begin, Inspect, Bind, Switch, Recheck
<1>2. CASE Restore(c) \/ Close(c)
  BY <1>2 DEF Restore, ResetRole, ResetTenant, Close, Discard, Release
<1>3. CASE Return(c) \/ Throw(c)
  BY <1>3 DEF Return, Throw
<1>4. CASE ~At(c, "commit") /\ StatementFails(c)
  BY <1>4 DEF StatementFails, AfterError
<1>5. QED BY <1>1, <1>2, <1>3, <1>4

Quiet == UNCHANGED << req, mine, locks, tables >>

LEMMA QuietOthers ==
  ASSUME ApiInv, NEW c \in Calls, Aside(c), UNCHANGED << mine, locks, tables >>,
         NEW d \in Calls \ {c}, req'[d] = req[d]
  PROVE  CallInv(d)'
<1>1. Undisturbed(d)
  <2>1. ASSUME NEW a \in DOMAIN mine[d].rows, req[d].kind = "queue"
        PROVE  ~Occupied(row[a].account, row[a].input)'
    <3>1. Queueing(d, a)
      BY <2>1 DEF ApiInv, CallInv, WritesOk, WrittenOk
    <3>2. QED BY <3>1 DEF Queueing, tables, Occupied
  <2>2. QED BY <2>1 DEF Undisturbed, Aside, tables, Grows
<1>2. QED BY <1>1, UndisturbedKeeps DEF ApiInv, TablesInv

LEMMA QuietKeeps ==
  ASSUME ApiInv, NEW c \in Calls, Aside(c), Moves(c), Quiet
  PROVE  TablesInv' /\ \A d \in Calls : CallInv(d)'
<1> USE DEF Quiet, tables
<1>1. CallInv(c) /\ TablesInv
  BY DEF ApiInv
<1>2. TablesInv'
  <2>1. \A d \in Calls : Open(d) => Open(d)'
    BY DEF Moves, Aside, Open
  <2>2. LocksOk'
    BY <1>1, <2>1 DEF TablesInv, LocksOk
  <2>3. QED BY <1>1, <2>2 DEF TablesInv, RowsOk, KeysOk, AuditsOk, Disjoint
<1>3. ReqOk(c)' /\ ~Free(c) /\ ~Free(c)'
  BY <1>1 DEF CallInv, ReqOk, Free, Moves, At
<1>4. WritesOk(c)'
  <2>1. \A a : WrittenOk(c, a) => WrittenOk(c, a)'
    BY DEF WrittenOk, Drafting, Queueing, Marking, There, Occupied, Moves
  <2>2. \A e : EventOk(c, e) => EventOk(c, e)'
    BY DEF EventOk, Event, There, Moves
  <2>3. QED BY <1>1, <2>1, <2>2 DEF CallInv, WritesOk, Moves
<1>5. StepOk(c)'
  <2>1. CallbackOk(c) => CallbackOk(c)'
    BY DEF CallbackOk, There, Moves
  <2>2. DecisionOk(req[c]) => DecisionOk(req[c])'
    BY DEF DecisionOk
  <2>3. stage[c] \in Setup => req[c].step \in Beginning
    BY <1>1 DEF CallInv, StepOk, Early
  <2>4. req[c].step \in Beginning /\ req[c].kind # "mark" => CallbackOk(c)'
    BY DEF CallbackOk, Beginning
  <2>5. req[c].kind = "mark" => CallbackOk(c)'
    BY DEF CallbackOk
  <2>6. QED BY <1>1, <2>1, <2>2, <2>3, <2>4, <2>5 DEF CallInv, StepOk, Moves, At, Early
<1>6. PromiseOk(c)'
  <2>1. Awaited(c) => Awaited(c)'
    BY DEF Awaited, Event, Moves
  <2>2. Kept(req[c]) => Kept(req[c])'
    BY DEF Kept, Happened
  <2>3. stage'[c] \in Running /\ req[c].step = "return" => stage[c] \in Running
    BY <1>1 DEF CallInv, StepOk, Moves, Running, Early, Beginning
  <2>4. QED BY <1>1, <2>1, <2>2, <2>3 DEF CallInv, PromiseOk, Moves
<1>7. QED BY <1>1, <1>2, <1>3, <1>4, <1>5, <1>6, QuietOthers DEF CallInv

-----------------------------------------------------------------------------
(***************************************************************************)
(* The ends of a transaction                                               *)
(***************************************************************************)

\* A call that ends gives its locks back and nobody else's.
LEMMA LetGoLocks ==
  ASSUME LocksOk, NEW c \in Calls, Aside(c), LetGo(c)
  PROVE  LocksOk' /\ \A l \in locks : l[2] # c => l \in locks'
BY DEF LocksOk, LetGo, Aside, Open

LEMMA LetGoDisjoint ==
  ASSUME TablesInv, NEW c \in Calls, LetGo(c)
  PROVE  /\ Disjoint' /\ mine' = [d \in Calls |-> mine'[d]]
         /\ mine'[c] = NoWrites /\ \A d \in Calls \ {c} : mine'[d] = mine[d]
<1>1. mine'[c] = NoWrites /\ \A d \in Calls \ {c} : mine'[d] = mine[d]
  BY DEF TablesInv, LetGo
<1>2. DOMAIN NoWrites.rows = {}
  BY DEF NoWrites
<1>3. QED BY <1>1, <1>2 DEF TablesInv, Disjoint, LetGo

\* After its end a call has nothing to rely on.
Ends(c) ==
  /\ ~At(c, "idle")
  /\ account'[c] = account[c]
  /\ stage'[c] \in {"rollback", "discard", "release"}
  /\ outcome'[c] = "value" => outcome[c] = "value" /\ stage'[c] # "rollback"

LEMMA EndedWrites ==
  ASSUME NEW c \in Calls, ReqOk(c)', mine'[c] = NoWrites
  PROVE  WritesOk(c)'
BY DEF WritesOk, NoWrites

LEMMA EndsKeeps ==
  ASSUME ApiInv, NEW c \in Calls, Aside(c), Ends(c), LetGo(c), UNCHANGED << req, tables >>
  PROVE  TablesInv' /\ \A d \in Calls : CallInv(d)'
<1> USE DEF tables
<1>1. CallInv(c) /\ TablesInv
  BY DEF ApiInv
<1>2. /\ Disjoint' /\ mine' = [d \in Calls |-> mine'[d]]
      /\ mine'[c] = NoWrites /\ \A d \in Calls \ {c} : mine'[d] = mine[d]
  BY <1>1, LetGoDisjoint
<1>3. LocksOk' /\ \A l \in locks : l[2] # c => l \in locks'
  BY <1>1, LetGoLocks DEF TablesInv
<1>4. TablesInv'
  BY <1>1, <1>2, <1>3 DEF TablesInv, RowsOk, KeysOk, AuditsOk
<1>5. ASSUME NEW d \in Calls \ {c} PROVE CallInv(d)'
  <2>1. CallInv(d)
    BY DEF ApiInv
  <2>2. ASSUME NEW a \in DOMAIN mine[d].rows, req[d].kind = "queue"
        PROVE  ~Occupied(row[a].account, row[a].input)'
    <3>1. Queueing(d, a)
      BY <2>1, <2>2 DEF CallInv, WritesOk, WrittenOk
    <3>2. QED BY <3>1 DEF Queueing, Occupied
  <2>3. Undisturbed(d)
    BY <1>2, <1>3, <2>2 DEF Undisturbed, Aside, Grows
  <2>4. QED BY <1>1, <2>1, <2>3, UndisturbedKeeps DEF TablesInv
<1>6. ReqOk(c)'
  BY <1>1 DEF CallInv, ReqOk, Free, Ends, At
<1>7. StepOk(c)'
  <2>1. DecisionOk(req[c]) => DecisionOk(req[c])'
    BY DEF DecisionOk
  <2>2. stage'[c] \notin Early \cup {"callback"}
    BY DEF Ends, Early, Setup
  <2>3. QED BY <1>1, <2>1, <2>2 DEF CallInv, StepOk, At
<1>8. PromiseOk(c)'
  <2>1. stage'[c] \notin Running
    BY DEF Ends, Running, Teardown
  <2>2. Kept(req[c]) => Kept(req[c])'
    BY DEF Kept, Happened
  <2>3. QED BY <1>1, <2>1, <2>2 DEF CallInv, PromiseOk, Ends
<1>9. QED BY <1>2, <1>4, <1>5, <1>6, <1>7, <1>8, EndedWrites DEF CallInv

\* A COMMIT, whether its answer arrives or not.
Committing(c) ==
  /\ At(c, "commit")
  /\ account'[c] = account[c]
  /\ stage'[c] \in {"discard", "rollback"}
  /\ outcome'[c] = "value" => stage'[c] = "discard"

\* What a commit makes of a row.
LEMMA CommitRow ==
  ASSUME ApiInv, NEW c \in Calls, Apply(c), NEW a \in Ids
  PROVE  \/ a \notin DOMAIN mine[c].rows /\ row'[a] = row[a]
         \/ /\ a \in DOMAIN mine[c].rows /\ a = req[c].id /\ row'[a] = mine[c].rows[a]
            /\ WrittenOk(c, a)
BY DEF Apply, ApiInv, CallInv, WritesOk

LEMMA DraftIsNew ==
  ASSUME NEW t \in Tenants, NEW u \in Users, NEW i \in Inputs
  PROVE  /\ Row(t, u, i) \in Assessments /\ Row(t, u, i) # NoRow
         /\ Row(t, u, i).status = "draft" /\ Row(t, u, i).notice = "none"
         /\ Origin(Row(t, u, i)) = Row(t, u, i)
BY DEF Row, Assessments, NoRow, Origin

LEMMA CommitGrows ==
  ASSUME ApiInv, NEW c \in Calls, Apply(c), NEW a \in Ids
  PROVE  row'[a] \in Assessments \cup {NoRow} /\ RowOk(row[a], a)' /\ Grows(a)
<1>1. row[a] \in Assessments \cup {NoRow} /\ RowOk(row[a], a)
  BY DEF ApiInv, TablesInv, RowsOk
<1>2. CASE row'[a] = row[a]
  BY <1>1, <1>2 DEF RowOk, Grows
<1>3. CASE row'[a] = mine[c].rows[a] /\ WrittenOk(c, a)
  <2>1. CASE req[c].kind = "create"
    <3>1. row[a] = NoRow /\ row'[a] = Row(account[c], req[c].user, req[c].input)
      BY <1>3, <2>1 DEF WrittenOk, Drafting
    <3>2. account[c] \in Tenants /\ req[c].user \in Users /\ req[c].input \in Inputs
      BY <1>3, <2>1 DEF WrittenOk, Drafting, ApiInv, CallInv, ReqOk
    <3>3. QED BY <3>1, <3>2, DraftIsNew DEF Grows, RowOk
  <2>2. CASE req[c].kind = "queue"
    <3>1. /\ row[a] # NoRow /\ row[a].status = "draft" /\ row[a] = Origin(row[a])
          /\ Permitted(row[a], a, req[c].addresses)
          /\ row'[a] = [row[a] EXCEPT !.status = "queued", !.resolved = req[c].addresses]
      BY <1>1, <1>3, <2>2 DEF WrittenOk, Queueing, There, RowOk
    <3>2. req[c].addresses \in Resolutions
      BY <3>1 DEF Permitted
    <3>3. /\ row'[a] \in Assessments /\ row'[a] # NoRow
          /\ row'[a].status = "queued" /\ row'[a].notice = row[a].notice
          /\ row'[a].resolved = req[c].addresses
          /\ row'[a].account = row[a].account /\ row'[a].user = row[a].user
          /\ row'[a].input = row[a].input
      BY <1>1, <3>1, <3>2 DEF Assessments, NoRow
    <3>4. Origin(row'[a]) = row[a]
      BY <3>1, <3>3 DEF Origin
    <3>5. row[a].notice = "none"
      BY <1>1, <3>1 DEF RowOk, Assessments
    <3>6. QED BY <3>1, <3>3, <3>4, <3>5 DEF Grows, RowOk
  <2>3. CASE req[c].kind = "mark"
    <3>1. /\ row[a] # NoRow /\ row[a].notice # "none"
          /\ row'[a] = [row[a] EXCEPT !.notice = "read"]
      BY <1>3, <2>3 DEF WrittenOk, Marking, There
    <3>2. row[a].status = "completed"
      BY <1>1, <3>1 DEF RowOk
    <3>3. /\ row'[a] \in Assessments /\ row'[a] # NoRow
          /\ row'[a].status = "completed" /\ row'[a].notice = "read"
          /\ row'[a].resolved = row[a].resolved
          /\ row'[a].account = row[a].account /\ row'[a].user = row[a].user
          /\ row'[a].input = row[a].input
      BY <1>1, <3>1, <3>2 DEF Assessments, NoRow
    <3>4. Origin(row'[a]) = Origin(row[a])
      BY <3>3 DEF Origin
    <3>5. QED BY <1>1, <3>1, <3>2, <3>3, <3>4 DEF Grows, RowOk
  <2>4. QED BY <1>3, <2>1, <2>2, <2>3 DEF WrittenOk
<1>4. QED BY <1>2, <1>3, CommitRow

\* A row that a commit makes a job was queued by it, under the lock of its key.
TakesKey(a) == /\ HasJob(row'[a])
               /\ ~(HasJob(row[a]) /\ KeyOf(row'[a]) = KeyOf(row[a]))

LEMMA CommitQueues ==
  ASSUME ApiInv, NEW c \in Calls, Apply(c), NEW a \in Ids, TakesKey(a)
  PROVE  /\ a \in DOMAIN mine[c].rows /\ a = req[c].id
         /\ req[c].kind = "queue" /\ Queueing(c, a)
         /\ KeyOf(row'[a]) = KeyOf(row[a]) /\ row'[a].account = row[a].account
<1>1. /\ a \in DOMAIN mine[c].rows /\ a = req[c].id
      /\ row'[a] = mine[c].rows[a] /\ WrittenOk(c, a)
  BY CommitRow DEF TakesKey
<1>2. row[a] \in Assessments \cup {NoRow} /\ RowOk(row[a], a)
  BY DEF ApiInv, TablesInv, RowsOk
<1>3. req[c].kind # "create"
  BY <1>1 DEF WrittenOk, Drafting, Row, TakesKey, HasJob, Status, NoRow
<1>4. req[c].kind # "mark"
  <2>1. SUFFICES ASSUME req[c].kind = "mark" PROVE FALSE
    OBVIOUS
  <2>2. /\ row[a] # NoRow /\ row[a].notice # "none"
        /\ row'[a] = [row[a] EXCEPT !.notice = "read"]
    BY <1>1, <2>1 DEF WrittenOk, Marking, There
  <2>3. row[a].status = "completed"
    BY <1>2, <2>2 DEF RowOk
  <2>4. row'[a].account = row[a].account /\ row'[a].input = row[a].input
    BY <1>2, <2>2 DEF Assessments
  <2>5. QED BY <2>2, <2>3, <2>4 DEF TakesKey, HasJob, Status, KeyOf
<1>5. req[c].kind = "queue" /\ Queueing(c, a)
  BY <1>1, <1>3, <1>4 DEF WrittenOk
<1>6. row'[a].account = row[a].account /\ row'[a].input = row[a].input
  BY <1>1, <1>2, <1>5 DEF Queueing, There, Assessments
<1>7. QED BY <1>1, <1>5, <1>6 DEF KeyOf

LEMMA CommitOthers ==
  ASSUME ApiInv, NEW c \in Calls, Aside(c), Apply(c), LetGo(c), UNCHANGED req,
         NEW d \in Calls \ {c}
  PROVE  CallInv(d)'
<1>1. CallInv(d) /\ CallInv(c) /\ TablesInv
  BY DEF ApiInv
<1>2. mine'[d] = mine[d] /\ \A l \in locks : l[2] # c => l \in locks'
  BY <1>1, LetGoDisjoint, LetGoLocks DEF TablesInv
<1>3. ASSUME NEW a \in Ids, Relies(d, a) PROVE row'[a] = row[a]
  <2>1. CASE a \in DOMAIN mine[d].rows
    <3>1. a \notin DOMAIN mine[c].rows
      BY <1>1, <2>1 DEF TablesInv, Disjoint
    <3>2. QED BY <3>1, CommitRow
  <2>2. CASE /\ At(d, "callback") /\ req[d].kind = "queue"
             /\ req[d].step = "enqueue" /\ a = req[d].id
    <3>1. row[a] # NoRow /\ row[a].status = "draft" /\ <<<<"row", a>>, d>> \in locks
      BY <1>1, <2>2 DEF CallInv, StepOk, CallbackOk, There
    <3>2. row[a].notice = "none"
      BY <1>1, <3>1 DEF TablesInv, RowsOk, RowOk, Assessments
    <3>3. ~Drafting(c, a) /\ ~Marking(c, a)
      BY <3>1, <3>2 DEF Drafting, Marking
    <3>4. ~Queueing(c, a)
      <4>1. SUFFICES ASSUME <<<<"row", a>>, c>> \in locks PROVE FALSE
        BY DEF Queueing
      <4>2. QED BY <1>1, <3>1, <4>1 DEF TablesInv, LocksOk
    <3>5. QED BY <3>3, <3>4, CommitRow DEF WrittenOk
  <2>3. QED BY <1>3, <2>1, <2>2 DEF Relies
<1>4. ASSUME NEW b \in DOMAIN mine[d].rows, req[d].kind = "queue"
      PROVE  ~Occupied(row[b].account, row[b].input)'
  <2>1. b \in Ids /\ Queueing(d, b)
    BY <1>1, <1>4 DEF CallInv, WritesOk, WrittenOk
  <2>2. SUFFICES ASSUME NEW a \in Ids, HasJob(row'[a]),
                        KeyOf(row'[a]) = KeyOf(row'[b])
                 PROVE  FALSE
    BY DEF Occupied, KeyOf
  <2>3. row'[b] = row[b]
    BY <1>3, <1>4, <2>1 DEF Relies
  <2>4. TakesKey(a)
    BY <2>1, <2>2, <2>3 DEF Queueing, Occupied, KeyOf, TakesKey
  <2>5. /\ <<<<"key", KeyOf(row[a])>>, c>> \in locks /\ KeyOf(row'[a]) = KeyOf(row[a])
        /\ <<<<"key", KeyOf(row[b])>>, d>> \in locks
    BY <2>1, <2>2, <2>4, CommitQueues DEF Queueing
  <2>6. QED BY <1>1, <2>2, <2>3, <2>5 DEF TablesInv, LocksOk
<1>5. Undisturbed(d)
  BY <1>2, <1>3, <1>4, CommitGrows DEF Undisturbed, Aside, Apply
<1>6. QED BY <1>1, <1>5, UndisturbedKeeps DEF TablesInv

LEMMA CommitKeys ==
  ASSUME ApiInv, NEW c \in Calls, Apply(c)
  PROVE  KeysOk'
<1>1. TablesInv /\ CallInv(c)
  BY DEF ApiInv
<1>2. SUFFICES ASSUME NEW a \in Ids, NEW b \in Ids, a # b, HasJob(row'[a]),
                      HasJob(row'[b]), KeyOf(row'[a]) = KeyOf(row'[b])
               PROVE  FALSE
  BY DEF KeysOk, KeyOf
<1>3. ASSUME NEW x \in Ids, NEW y \in Ids, x # y, TakesKey(x), HasJob(row'[y]),
             KeyOf(row'[x]) = KeyOf(row'[y])
      PROVE  FALSE
  <2>1. x = req[c].id /\ Queueing(c, x) /\ KeyOf(row'[x]) = KeyOf(row[x])
    BY <1>3, CommitQueues
  <2>2. HasJob(row[y]) /\ KeyOf(row'[y]) = KeyOf(row[y])
    BY <1>3, <2>1, CommitQueues DEF TakesKey
  <2>3. QED BY <1>3, <2>1, <2>2 DEF Queueing, Occupied, KeyOf
<1>4. CASE ~TakesKey(a) /\ ~TakesKey(b)
  BY <1>1, <1>2, <1>4 DEF TablesInv, KeysOk, TakesKey
<1>5. QED BY <1>2, <1>3, <1>4

\* The job of a row that was a draft until now is the first that is audited.
LEMMA CommitAudits ==
  ASSUME ApiInv, NEW c \in Calls, Apply(c)
  PROVE  AuditsOk'
<1>1. TablesInv /\ CallInv(c)
  BY DEF ApiInv
<1>2. audits' = audits \cup mine[c].audits
  BY DEF Apply
<1>3. \A e \in mine[c].audits : EventOk(c, e)
  BY <1>1 DEF CallInv, WritesOk
<1>4. ASSUME NEW e \in mine[c].audits
      PROVE  /\ e.id \in Ids /\ row'[e.id] # NoRow /\ e.account = row'[e.id].account
             /\ e.event = "queued" =>
                  Status(row'[e.id]) = "queued" /\ Status(row[e.id]) = "draft"
  <2> DEFINE a == req[c].id
  <2>1. EventOk(c, e) /\ e.id = a /\ e.account = account[c]
    BY <1>3 DEF EventOk, Event
  <2>2. CASE e.event = "download_issued"
    <3>1. There(c, a)
      BY <2>1, <2>2 DEF EventOk
    <3>2. QED BY <2>1, <2>2, <3>1, CommitGrows DEF There, Grows
  <2>3. CASE e.event # "download_issued"
    <3>1. a \in DOMAIN mine[c].rows /\ a \in Ids
      BY <1>1, <2>1, <2>3 DEF EventOk, CallInv, WritesOk
    <3>2. row'[a] = mine[c].rows[a] /\ WrittenOk(c, a)
      BY <3>1, CommitRow
    <3>3. CASE e.event = "draft_created"
      <4>1. row'[a] = Row(account[c], req[c].user, req[c].input)
        BY <2>1, <3>2, <3>3 DEF EventOk, WrittenOk, Drafting
      <4>2. row'[a] # NoRow /\ row'[a].account = account[c]
        BY <4>1 DEF Row, NoRow
      <4>3. QED BY <2>1, <3>1, <3>3, <4>2
    <3>4. CASE e.event = "queued"
      <4>1. Queueing(c, a)
        BY <2>1, <3>2, <3>4 DEF EventOk, WrittenOk
      <4>2. row[a] \in Assessments
        BY <1>1, <3>1, <4>1 DEF Queueing, There, TablesInv, RowsOk
      <4>3. /\ row'[a] = [row[a] EXCEPT !.status = "queued", !.resolved = req[c].addresses]
            /\ row[a].account = account[c] /\ row[a].status = "draft" /\ row[a] # NoRow
        BY <3>2, <4>1, Zenon DEF Queueing, There
      <4>4. row'[a] # NoRow /\ row'[a].account = account[c] /\ row'[a].status = "queued"
        BY <4>2, <4>3 DEF Assessments, NoRow
      <4>5. QED BY <2>1, <3>1, <4>3, <4>4 DEF Status
    <3>5. QED BY <2>1, <2>3, <3>3, <3>4 DEF EventOk
  <2>4. QED BY <2>2, <2>3
<1>5. ASSUME NEW e \in audits
      PROVE  /\ e.id \in Ids /\ row'[e.id] # NoRow /\ e.account = row'[e.id].account
             /\ e.event = "queued" => /\ Status(row[e.id]) \in {"queued", "completed"}
                                      /\ Status(row'[e.id]) \in {"queued", "completed"}
  <2>1. /\ e.id \in Ids /\ row[e.id] # NoRow /\ e.account = row[e.id].account
        /\ e.event = "queued" => Status(row[e.id]) \in {"queued", "completed"}
    BY <1>1 DEF TablesInv, AuditsOk
  <2>2. Grows(e.id)
    BY <2>1, CommitGrows
  <2>3. QED BY <2>1, <2>2 DEF Grows, Status
<1>6. ASSUME NEW e \in audits', NEW f \in audits', e.event = "queued", f.event = "queued",
             e.id = f.id
      PROVE  e = f
  <2>1. CASE e \in audits /\ f \in audits
    BY <1>1, <1>6, <2>1 DEF TablesInv, AuditsOk
  <2>2. CASE e \in mine[c].audits /\ f \in mine[c].audits
    BY <1>3, <1>6, <2>2 DEF EventOk
  <2>3. QED BY <1>2, <1>4, <1>5, <1>6, <2>1, <2>2
<1>7. QED BY <1>2, <1>4, <1>5, <1>6 DEF AuditsOk

LEMMA CommitAllKeeps ==
  ASSUME ApiInv, NEW c \in Calls, Aside(c), Committing(c), Apply(c), LetGo(c), UNCHANGED req
  PROVE  TablesInv' /\ \A d \in Calls : CallInv(d)'
<1>1. CallInv(c) /\ TablesInv
  BY DEF ApiInv
<1>2. /\ Disjoint' /\ mine' = [d \in Calls |-> mine'[d]] /\ mine'[c] = NoWrites
  BY <1>1, LetGoDisjoint
<1>3. LocksOk'
  BY <1>1, LetGoLocks DEF TablesInv
<1>4. RowsOk'
  <2>1. row' = [a \in Ids |-> row'[a]]
    BY DEF Apply
  <2>2. \A a \in Ids : row'[a] \in Assessments \cup {NoRow} /\ RowOk(row[a], a)'
    BY CommitGrows
  <2>3. QED BY <2>1, <2>2 DEF RowsOk
<1>5. TablesInv'
  BY <1>2, <1>3, <1>4, CommitKeys, CommitAudits DEF TablesInv
<1>6. ReqOk(c)'
  BY <1>1 DEF CallInv, ReqOk, Free, Committing, At
<1>7. StepOk(c)'
  <2>1. req[c].kind = "queue" => DecisionOk(req[c])'
    <3>1. SUFFICES ASSUME req[c].kind = "queue" PROVE DecisionOk(req[c])'
      OBVIOUS
    <3>2. DecisionOk(req[c]) /\ req[c].id \in Ids
      BY <1>1, <3>1 DEF CallInv, StepOk, ReqOk
    <3>3. row[req[c].id] # NoRow =>
            row'[req[c].id] # NoRow /\ Origin(row'[req[c].id]) = Origin(row[req[c].id])
      BY <3>2, CommitGrows DEF Grows, Origin
    <3>4. QED BY <3>2, <3>3 DEF DecisionOk
  <2>2. stage'[c] \notin Early \cup {"callback"}
    BY DEF Committing, Early, Setup
  <2>3. QED BY <1>1, <2>1, <2>2 DEF CallInv, StepOk, At
<1>8. PromiseOk(c)'
  <2>1. stage'[c] \notin Running /\ stage[c] \in Running /\ ~Free(c)
    BY <1>1 DEF Committing, Running, Teardown, At, CallInv, ReqOk
  <2>2. req[c].answer # "ok"
    BY <2>1 DEF Free, NoAnswer
  <2>3. Awaited(c) => Kept(req[c])'
    <3>1. \A event : Event(c, event, req[c].id) \in mine[c].audits => Happened(event, req[c])'
      BY DEF Happened, Apply, Event
    <3>2. ASSUME req[c].kind = "mark", req[c].id \in DOMAIN mine[c].rows
          PROVE  row'[req[c].id] # NoRow /\ row'[req[c].id].notice = "read"
      <4> DEFINE a == req[c].id
      <4>1. a \in Ids /\ row'[a] = mine[c].rows[a] /\ WrittenOk(c, a)
        BY <1>1, <3>2, CommitRow DEF CallInv, ReqOk
      <4>2. row[a] # NoRow /\ row'[a] = [row[a] EXCEPT !.notice = "read"]
        BY <3>2, <4>1 DEF WrittenOk, Marking, There
      <4>3. row[a] \in Assessments
        BY <1>1, <4>1, <4>2 DEF TablesInv, RowsOk
      <4>4. QED BY <4>2, <4>3 DEF Assessments, NoRow
    <3>3. QED BY <3>1, <3>2 DEF Awaited, Kept
  <2>4. QED BY <1>1, <2>1, <2>2, <2>3 DEF CallInv, PromiseOk, Committing
<1>9. CallInv(c)'
  BY <1>2, <1>6, <1>7, <1>8, EndedWrites DEF CallInv
<1>10. ASSUME NEW d \in Calls PROVE CallInv(d)'
  <2>1. CASE d = c
    BY <1>9, <2>1
  <2>2. CASE d # c
    BY <2>2, CommitOthers
  <2>3. QED BY <2>1, <2>2
<1>11. QED BY <1>5, <1>10

-----------------------------------------------------------------------------
(***************************************************************************)
(* The statements of a callback                                            *)
(***************************************************************************)

\* In a callback the connection is bound to the account of the call.
LEMMA AtCallback ==
  ASSUME ApiInv, NEW c \in Calls, At(c, "callback")
  PROVE  /\ CallInv(c) /\ TablesInv /\ Open(c)
         /\ tenant[on[c]] = account[c] /\ account[c] \in Tenants
         /\ ~Free(c) /\ req[c].answer # "ok" /\ outcome[c] # "value"
<1>1. CallInv(c) /\ TablesInv
  BY DEF ApiInv
<1>2. tenant[on[c]] = account[c]
  BY InvBound DEF ApiInv, TenantBound, CallbackBound
<1>3. ~Free(c) /\ account[c] \in Tenants
  BY <1>1 DEF CallInv, ReqOk, At
<1>4. QED BY <1>1, <1>2, <1>3 DEF Free, NoAnswer, CallInv, PromiseOk, At, Open, InTransaction

\* Row security shows a row of the call's account as it is in the table.
LEMMA SeesTable ==
  ASSUME ApiInv, NEW c \in Calls, At(c, "callback"), NEW a \in Ids,
         a \notin DOMAIN mine[c].rows
  PROVE  Sees(c, a) = IF There(c, a) THEN row[a] ELSE NoRow
BY AtCallback DEF Sees, There

\* A statement changes what its request has learnt, and nothing else of it.
Learns(c) ==
  /\ At(c, "callback") /\ UNCHANGED << sessionVars, tables >>
  /\ req'[c] = [f \in Fields |-> req'[c][f]]
  /\ req'[c].kind = req[c].kind /\ req'[c].user = req[c].user
  /\ req'[c].account = req[c].account /\ req'[c].input = req[c].input
  /\ req'[c].number = req[c].number /\ req'[c].addresses = req[c].addresses
  /\ req'[c].answer = req[c].answer
  /\ req[c].kind # "create" => req'[c].id = req[c].id
  /\ \A d \in Calls \ {c} : req'[d] = req[d]

LEMMA UpdateFields ==
  ASSUME ReqInv, NEW c \in Calls, ReqOk(c), NEW changed, Update(c, changed),
         DOMAIN changed \subseteq Fields
  PROVE  /\ req'[c] = [f \in Fields |-> req'[c][f]]
         /\ \A f \in DOMAIN changed : req'[c][f] = changed[f]
         /\ \A f \in Fields \ DOMAIN changed : req'[c][f] = req[c][f]
         /\ \A d \in Calls \ {c} : req'[d] = req[d]
<1>1. DOMAIN req[c] = Fields
  BY DEF ReqOk
<1>2. req'[c] = [f \in Fields |-> IF f \in DOMAIN changed THEN changed[f] ELSE req[c][f]]
  BY <1>1 DEF Update, ReqInv
<1>3. QED BY <1>2 DEF Update, ReqInv

LEMMA UpdateLearns ==
  ASSUME ApiInv, NEW c \in Calls, At(c, "callback"), UNCHANGED << sessionVars, tables >>,
         NEW changed, Update(c, changed),
         \/ DOMAIN changed \subseteq {"step", "seen", "found", "shown"}
         \/ req[c].kind = "create" /\ DOMAIN changed \subseteq {"step", "id"}
  PROVE  /\ Learns(c)
         /\ \A f \in DOMAIN changed : req'[c][f] = changed[f]
         /\ \A f \in Fields \ DOMAIN changed : req'[c][f] = req[c][f]
<1>1. Fields = {"kind", "user", "account", "id", "input", "step", "seen", "found", "shown",
                "addresses", "answer", "number"}
  BY DEF Fields, NoRequest
<1>2. /\ req'[c] = [f \in Fields |-> req'[c][f]]
      /\ \A f \in DOMAIN changed : req'[c][f] = changed[f]
      /\ \A f \in Fields \ DOMAIN changed : req'[c][f] = req[c][f]
      /\ \A d \in Calls \ {c} : req'[d] = req[d]
  BY <1>1, UpdateFields DEF ApiInv, CallInv
<1>3. QED BY <1>1, <1>2 DEF Learns

\* What a statement has to show of its own request.
LEMMA LearnsStep ==
  ASSUME ApiInv, NEW c \in Calls, Learns(c), req'[c].step \notin Beginning,
         req'[c].found => req'[c].step = "return",
         req'[c].step = "decide" => req[c].kind = "queue",
         CallbackOk(c)', req[c].kind = "queue" => DecisionOk(req[c])',
         req'[c].found => Awaited(c)'
  PROVE  ReqOk(c)' /\ StepOk(c)' /\ PromiseOk(c)'
<1>1. CallInv(c) /\ req[c].answer # "ok" /\ outcome[c] # "value"
  BY AtCallback DEF Learns
<1>2. stage' = stage /\ outcome' = outcome /\ account' = account /\ stage[c] = "callback"
  BY DEF Learns, sessionVars, callVars, At
<1>3. ReqOk(c)'
  BY <1>1, <1>2 DEF CallInv, ReqOk, Learns, Free, At
<1>4. stage[c] \notin Early
  BY <1>2 DEF Early, Setup
<1>5. QED BY <1>1, <1>2, <1>3, <1>4 DEF StepOk, PromiseOk, Learns, At

LEMMA LearnsWrites ==
  ASSUME ApiInv, NEW c \in Calls, Learns(c), req'[c].id = req[c].id, locks \subseteq locks',
         mine'[c] = [rows |-> mine[c].rows, audits |-> mine'[c].audits],
         \A e \in mine'[c].audits : e \in mine[c].audits \/ EventOk(c, e)'
  PROVE  WritesOk(c)'
<1>1. CallInv(c) /\ WritesOk(c) /\ Open(c)
  BY AtCallback DEF Learns, CallInv
<1>2. stage' = stage /\ account' = account /\ row' = row
  BY DEF Learns, sessionVars, callVars, tables
<1>3. /\ mine'[c].rows = mine[c].rows
      /\ mine'[c] = [rows |-> mine'[c].rows, audits |-> mine'[c].audits]
  OBVIOUS
<1>4. \A a \in DOMAIN mine[c].rows : WrittenOk(c, a) => WrittenOk(c, a)'
  BY <1>2, <1>3 DEF WrittenOk, Drafting, Queueing, Marking, There, Occupied, Learns
<1>5. \A e \in mine'[c].audits : EventOk(c, e)'
  <2>1. \A e : EventOk(c, e) => EventOk(c, e)'
    BY <1>2, <1>3 DEF EventOk, Event, There, Learns
  <2>2. \A e \in mine[c].audits : EventOk(c, e)
    BY <1>1 DEF WritesOk
  <2>3. QED BY <2>1, <2>2
<1>6. QED BY <1>1, <1>2, <1>3, <1>4, <1>5 DEF WritesOk, Open

\* Nothing that a statement does can be noticed by another request before the
\* commit, but that it must wait.
LEMMA StatementKeeps ==
  ASSUME ApiInv, NEW c \in Calls, Learns(c), CallInv(c)',
         mine' = [d \in Calls |-> mine'[d]],
         \A d \in Calls \ {c} : /\ mine'[d] = mine[d]
                                /\ DOMAIN mine'[c].rows \cap DOMAIN mine[d].rows = {},
         locks \subseteq locks',
         \A l \in locks' \ locks : l = <<l[1], c>> /\ Available(l[1], c)
  PROVE  TablesInv' /\ \A d \in Calls : CallInv(d)'
<1>1. TablesInv /\ Open(c)
  BY AtCallback DEF Learns
<1>2. stage' = stage /\ outcome' = outcome /\ account' = account /\ row' = row /\ audits' = audits
  BY DEF Learns, sessionVars, callVars, tables
<1>3. LocksOk'
  <2>1. \A l \in locks' : l = <<l[1], l[2]>> /\ l[2] \in Calls /\ Open(l[2])'
    BY <1>1, <1>2 DEF TablesInv, LocksOk, Open
  <2>2. ASSUME NEW l \in locks', NEW m \in locks', l[1] = m[1] PROVE l[2] = m[2]
    <3>1. CASE l \in locks /\ m \in locks
      BY <1>1, <2>2, <3>1 DEF TablesInv, LocksOk
    <3>2. CASE l \notin locks
      BY <2>2, <3>2 DEF Available
    <3>3. CASE m \notin locks
      BY <2>2, <3>3 DEF Available
    <3>4. QED BY <3>1, <3>2, <3>3
  <2>3. QED BY <2>1, <2>2 DEF LocksOk
<1>4. Disjoint'
  BY <1>1 DEF TablesInv, Disjoint
<1>5. TablesInv'
  BY <1>1, <1>2, <1>3, <1>4 DEF TablesInv, RowsOk, KeysOk, AuditsOk
<1>6. ASSUME NEW d \in Calls \ {c} PROVE CallInv(d)'
  <2>1. CallInv(d)
    BY DEF ApiInv
  <2>2. ASSUME NEW a \in DOMAIN mine[d].rows, req[d].kind = "queue"
        PROVE  ~Occupied(row[a].account, row[a].input)'
    <3>1. Queueing(d, a)
      BY <2>1, <2>2 DEF CallInv, WritesOk, WrittenOk
    <3>2. QED BY <3>1, <1>2 DEF Queueing, Occupied
  <2>3. Undisturbed(d)
    BY <1>2, <2>2 DEF Undisturbed, Learns, Grows
  <2>4. QED BY <1>1, <2>1, <2>3, UndisturbedKeeps DEF TablesInv
<1>7. QED BY <1>5, <1>6

\* A statement that writes nothing.
LEMMA ReadKeeps ==
  ASSUME ApiInv, NEW c \in Calls, Learns(c), req'[c].id = req[c].id,
         req'[c].step \notin Beginning,
         req'[c].found => req'[c].step = "return",
         req'[c].step = "decide" => req[c].kind = "queue",
         CallbackOk(c)', req[c].kind = "queue" => DecisionOk(req[c])',
         req'[c].found => Awaited(c)',
         mine' = mine, locks \subseteq locks',
         \A l \in locks' \ locks : l = <<l[1], c>> /\ Available(l[1], c)
  PROVE  TablesInv' /\ \A d \in Calls : CallInv(d)'
<1>1. ReqOk(c)' /\ StepOk(c)' /\ PromiseOk(c)'
  BY LearnsStep
<1>2. mine'[c] = [rows |-> mine[c].rows, audits |-> mine'[c].audits]
  BY DEF ApiInv, CallInv, WritesOk
<1>3. WritesOk(c)'
  BY <1>2, LearnsWrites
<1>4. TablesInv
  BY DEF ApiInv
<1>5. QED BY <1>1, <1>3, <1>4, StatementKeeps DEF CallInv, TablesInv, Disjoint

\* A statement that ends the work of the callback asks for nothing more.
LEMMA AtReturn ==
  ASSUME NEW c \in Calls, req'[c].step \in {"return", "decide"}
  PROVE  /\ CallbackOk(c)'
         /\ req'[c].step = "return" => DecisionOk(req[c])'
         /\ req'[c].step \notin Beginning
BY DEF CallbackOk, DecisionOk, Beginning

LEMMA AppendKeeps ==
  ASSUME ApiInv, NEW c \in Calls, At(c, "callback"), UNCHANGED << sessionVars, tables >>,
         NEW event, AppendEvent(c, event, req[c].id), EventOk(c, Event(c, event, req[c].id)),
         <<req[c].kind, event>> \in {<<"create", "draft_created">>, <<"queue", "queued">>,
                                     <<"download", "download_issued">>},
         Update(c, [step |-> "return", found |-> TRUE])
  PROVE  TablesInv' /\ \A d \in Calls : CallInv(d)'
<1> DEFINE e == Event(c, event, req[c].id)
<1>1. /\ CallInv(c) /\ TablesInv
      /\ mine[c] = [rows |-> mine[c].rows, audits |-> mine[c].audits]
  BY DEF ApiInv, CallInv, WritesOk
<1>2. /\ Learns(c) /\ req'[c].step = "return" /\ req'[c].found /\ req'[c].id = req[c].id
      /\ req'[c].shown = req[c].shown /\ req'[c].seen = req[c].seen
  <2>1. DOMAIN [step |-> "return", found |-> TRUE] = {"step", "found"}
    OBVIOUS
  <2>2. {"id", "shown", "seen"} \subseteq Fields
    BY DEF Fields, NoRequest
  <2>3. QED BY <2>1, <2>2, UpdateLearns
<1>3. /\ mine' = [d \in Calls |-> mine'[d]]
      /\ mine'[c] = [rows |-> mine[c].rows, audits |-> mine[c].audits \cup {e}]
      /\ \A d \in Calls \ {c} : mine'[d] = mine[d]
  BY <1>1 DEF AppendEvent, TablesInv
<1>4. locks \subseteq locks' /\ \A l \in locks' \ locks : l = <<l[1], c>> /\ Available(l[1], c)
  BY DEF AppendEvent, Lock
<1>5. account' = account
  BY <1>2 DEF Learns, sessionVars, callVars
<1>6. EventOk(c, e)' /\ Event(c, event, req[c].id)' = e /\ e.event = event
  <2>1. There(c, req[c].id) => There(c, req[c].id)'
    BY <1>2, <1>5 DEF There, Learns, tables
  <2>2. e' = e /\ e.event = event
    BY <1>2, <1>5 DEF Event, Learns
  <2>3. Event(c, event, req[c].id)' = e
    BY <2>2
  <2>4. mine'[c].rows = mine[c].rows
    BY <1>3
  <2>5. Event(c, e.event, req[c].id)' = e
    BY <2>2
  <2>6. QED BY <1>2, <2>1, <2>2, <2>3, <2>4, <2>5 DEF EventOk, Learns
<1>7. WritesOk(c)'
  BY <1>2, <1>3, <1>4, <1>6, LearnsWrites
<1>8. Awaited(c)'
  <2>1. e \in mine'[c].audits
    BY <1>3
  <2>2. req'[c].kind = req[c].kind
    BY <1>2 DEF Learns
  <2>3. Event(c, event, req[c].id)' \in mine'[c].audits
    BY <1>6, <2>1
  <2>4. QED BY <2>2, <2>3 DEF Awaited
<1>9. ReqOk(c)' /\ StepOk(c)' /\ PromiseOk(c)'
  BY <1>2, <1>8, AtReturn, LearnsStep
<1>10. CallInv(c)'
  BY <1>7, <1>9 DEF CallInv
<1>11. \A d \in Calls \ {c} : DOMAIN mine'[c].rows \cap DOMAIN mine[d].rows = {}
  BY <1>1, <1>3 DEF TablesInv, Disjoint
<1>12. QED BY <1>2, <1>3, <1>4, <1>10, <1>11, StatementKeeps

\* A statement that writes the one row of its transaction.
LEMMA WriteKeeps ==
  ASSUME ApiInv, NEW c \in Calls, Learns(c), mine[c] = NoWrites, NEW a \in Ids, NEW r,
         Write(c, a, r), req'[c].id = a, WrittenOk(c, a)',
         req'[c].step \notin Beginning \cup {"decide"},
         req'[c].found => req'[c].step = "return",
         CallbackOk(c)', req[c].kind = "queue" => DecisionOk(req[c])',
         req'[c].found => Awaited(c)',
         \A d \in Calls \ {c} : a \notin DOMAIN mine[d].rows,
         locks \subseteq locks',
         \A l \in locks' \ locks : l = <<l[1], c>> /\ Available(l[1], c)
  PROVE  TablesInv' /\ \A d \in Calls : CallInv(d)'
<1>1. TablesInv /\ Open(c) /\ At(c, "callback")
  BY AtCallback DEF Learns
<1>2. /\ mine' = [d \in Calls |-> mine'[d]]
      /\ mine'[c].rows = [b \in {a} |-> r] /\ mine'[c].audits = {}
      /\ mine'[c] = [rows |-> [b \in {a} |-> r], audits |-> {}]
      /\ \A d \in Calls \ {c} : mine'[d] = mine[d]
  <2>1. mine[c].audits = {} /\ DOMAIN mine[c].rows = {}
    BY DEF NoWrites
  <2>2. QED BY <1>1, <2>1 DEF Write, TablesInv
<1>3. ReqOk(c)' /\ StepOk(c)' /\ PromiseOk(c)'
  BY LearnsStep
<1>4. Open(c)'
  BY <1>1 DEF Open, Learns, sessionVars, callVars
<1>5. WritesOk(c)'
  BY <1>2, <1>4 DEF WritesOk
<1>6. \A d \in Calls \ {c} : DOMAIN mine'[c].rows \cap DOMAIN mine[d].rows = {}
  BY <1>2
<1>7. QED BY <1>2, <1>3, <1>5, <1>6, StatementKeeps DEF CallInv

\* What a request wrote: mine'[c].rows[a] after Write.
LEMMA Written ==
  ASSUME ApiInv, NEW c \in Calls, NEW a, NEW r, Write(c, a, r)
  PROVE  mine'[c].rows[a] = r /\ a \in DOMAIN mine'[c].rows
BY DEF Write, ApiInv, TablesInv

\* What the statements of a callback have in common.
LEMMA DoingAt ==
  ASSUME NEW c \in Calls, NEW kind, NEW step, Doing(c, kind, step), Frame
  PROVE  /\ At(c, "callback") /\ UNCHANGED << sessionVars, tables >>
         /\ req[c].kind = kind /\ req[c].step = step
         /\ account' = account /\ row' = row
BY DEF Doing, Statement, Answers, Frame, sessionVars, callVars, tables

LEMMA InsertKeeps ==
  ASSUME ApiInv, NEW c \in Calls, Insert(c)
  PROVE  TablesInv' /\ \A d \in Calls : CallInv(d)'
<1>1. /\ At(c, "callback") /\ UNCHANGED << sessionVars, tables >> /\ UNCHANGED locks
      /\ req[c].kind = "create" /\ req[c].step = "insert" /\ account' = account /\ row' = row
  BY DoingAt DEF Insert
<1>2. PICK a \in Ids : /\ row[a] = NoRow /\ \A d \in Calls : a \notin DOMAIN mine[d].rows
                       /\ Write(c, a, Row(account[c], req[c].user, req[c].input))
                       /\ Update(c, [step |-> "audit", id |-> a])
  <2> DEFINE fresh == {x \in Ids : row[x] = NoRow /\ \A d \in Calls : x \notin DOMAIN mine[d].rows}
             new == CHOOSE x \in fresh : TRUE
  <2>1. /\ fresh # {} /\ Write(c, new, Row(account[c], req[c].user, req[c].input))
        /\ Update(c, [step |-> "audit", id |-> new])
    BY DEF Insert
  <2>2. new \in fresh
    BY <2>1
  <2>3. QED BY <2>1, <2>2
<1>3. /\ Learns(c) /\ req'[c].step = "audit" /\ req'[c].id = a /\ req'[c].found = req[c].found
  <2>1. DOMAIN [step |-> "audit", id |-> a] = {"step", "id"} /\ "found" \in Fields
    BY DEF Fields, NoRequest
  <2>2. QED BY <1>1, <1>2, <2>1, UpdateLearns
<1>4. CallInv(c) /\ account[c] \in Tenants
  BY <1>1, AtCallback
<1>5. mine[c] = NoWrites /\ ~req[c].found
  BY <1>1, <1>4 DEF CallInv, StepOk, ReqOk, At, Beginning
<1>6. mine'[c].rows[a] = Row(account[c], req[c].user, req[c].input) /\ a \in DOMAIN mine'[c].rows
  BY <1>2, Written
<1>7. WrittenOk(c, a)' /\ CallbackOk(c)'
  BY <1>1, <1>2, <1>3, <1>4, <1>6 DEF WrittenOk, Drafting, Learns, CallbackOk
<1>8. QED BY <1>1, <1>2, <1>3, <1>5, <1>7, WriteKeeps DEF Beginning

LEMMA DraftAuditedKeeps ==
  ASSUME ApiInv, NEW c \in Calls, DraftAudited(c)
  PROVE  TablesInv' /\ \A d \in Calls : CallInv(d)'
<1>1. /\ At(c, "callback") /\ UNCHANGED << sessionVars, tables >>
      /\ req[c].kind = "create" /\ req[c].step = "audit"
  BY DoingAt DEF DraftAudited
<1>2. req[c].id \in DOMAIN mine[c].rows
  BY <1>1, AtCallback DEF CallInv, StepOk, CallbackOk
<1>3. EventOk(c, Event(c, "draft_created", req[c].id))
  BY <1>1, <1>2 DEF EventOk, Event
<1>4. QED BY <1>1, <1>3, AppendKeeps DEF DraftAudited

LEMMA DispatchAuditedKeeps ==
  ASSUME ApiInv, NEW c \in Calls, DispatchAudited(c)
  PROVE  TablesInv' /\ \A d \in Calls : CallInv(d)'
<1>1. /\ At(c, "callback") /\ UNCHANGED << sessionVars, tables >>
      /\ req[c].kind = "queue" /\ req[c].step = "audit"
  BY DoingAt DEF DispatchAudited
<1>2. req[c].id \in DOMAIN mine[c].rows
  BY <1>1, AtCallback DEF CallInv, StepOk, CallbackOk
<1>3. EventOk(c, Event(c, "queued", req[c].id))
  BY <1>1, <1>2 DEF EventOk, Event
<1>4. QED BY <1>1, <1>3, AppendKeeps DEF DispatchAudited

LEMMA DownloadAuditedKeeps ==
  ASSUME ApiInv, NEW c \in Calls, DownloadAudited(c)
  PROVE  TablesInv' /\ \A d \in Calls : CallInv(d)'
<1>1. /\ At(c, "callback") /\ UNCHANGED << sessionVars, tables >>
      /\ req[c].kind = "download" /\ req[c].step = "audit"
  BY DoingAt DEF DownloadAudited
<1>2. There(c, req[c].id)
  BY <1>1, AtCallback DEF CallInv, StepOk, CallbackOk
<1>3. EventOk(c, Event(c, "download_issued", req[c].id))
  BY <1>1, <1>2 DEF EventOk, Event
<1>4. QED BY <1>1, <1>3, AppendKeeps DEF DownloadAudited

\* Before it writes, a callback sees what is in the table of its account.
LEMMA SeesFirst ==
  ASSUME ApiInv, NEW c \in Calls, At(c, "callback"), req[c].step \in Beginning,
         req[c].id \in Ids
  PROVE  /\ mine[c] = NoWrites /\ ~req[c].found
         /\ Sees(c, req[c].id) = IF There(c, req[c].id) THEN row[req[c].id] ELSE NoRow
<1>1. mine[c] = NoWrites
  BY AtCallback DEF CallInv, StepOk, At
<1>2. req[c].id \notin DOMAIN mine[c].rows
  BY <1>1 DEF NoWrites
<1>3. ~req[c].found
  BY AtCallback DEF CallInv, ReqOk, Beginning
<1>4. QED BY <1>1, <1>2, <1>3, SeesTable

LEMMA SnapshotKeeps ==
  ASSUME ApiInv, NEW c \in Calls, Snapshot(c)
  PROVE  TablesInv' /\ \A d \in Calls : CallInv(d)'
<1>1. /\ At(c, "callback") /\ UNCHANGED << sessionVars, tables >> /\ UNCHANGED << mine, locks >>
      /\ req[c].kind = "queue" /\ req[c].step = "snapshot" /\ account' = account /\ row' = row
  BY DoingAt DEF Snapshot
<1>2. req[c].id \in Ids
  BY <1>1, AtCallback DEF CallInv, ReqOk
<1>3. /\ ~req[c].found
      /\ Sees(c, req[c].id) = IF There(c, req[c].id) THEN row[req[c].id] ELSE NoRow
  BY <1>1, <1>2, SeesFirst DEF Beginning
<1>4. /\ Learns(c) /\ req'[c].step = "decide" /\ req'[c].seen = Sees(c, req[c].id)
      /\ req'[c].id = req[c].id /\ req'[c].found = req[c].found
  <2>1. /\ DOMAIN [step |-> "decide", seen |-> Sees(c, req[c].id)] = {"step", "seen"}
        /\ {"id", "found"} \subseteq Fields
    BY DEF Fields, NoRequest
  <2>2. QED BY <1>1, <2>1, UpdateLearns DEF Snapshot
<1>5. DecisionOk(req[c])'
  <2>1. SUFFICES ASSUME Status(Sees(c, req[c].id)) = "draft"
                 PROVE  /\ row[req[c].id] # NoRow
                        /\ Sees(c, req[c].id) = Origin(row[req[c].id])
    BY <1>1, <1>4 DEF DecisionOk
  <2>2. There(c, req[c].id) /\ Sees(c, req[c].id) = row[req[c].id]
    BY <1>3, <2>1 DEF Status
  <2>3. RowOk(row[req[c].id], req[c].id) /\ row[req[c].id] # NoRow
    BY <1>2, <2>2 DEF ApiInv, TablesInv, RowsOk, There
  <2>4. QED BY <2>1, <2>2, <2>3 DEF RowOk, Status
<1>6. QED BY <1>1, <1>3, <1>4, <1>5, AtReturn, ReadKeeps

LEMMA LockDraftKeeps ==
  ASSUME ApiInv, NEW c \in Calls, LockDraft(c)
  PROVE  TablesInv' /\ \A d \in Calls : CallInv(d)'
<1> DEFINE a == req[c].id
<1>1. /\ At(c, "callback") /\ UNCHANGED << sessionVars, tables >> /\ UNCHANGED mine
      /\ req[c].kind = "queue" /\ req[c].step = "lock" /\ account' = account /\ row' = row
  BY DoingAt DEF LockDraft
<1>2. a \in Ids
  BY <1>1, AtCallback DEF CallInv, ReqOk
<1>3. /\ mine[c] = NoWrites /\ ~req[c].found
      /\ Sees(c, a) = IF There(c, a) THEN row[a] ELSE NoRow
  BY <1>1, <1>2, SeesFirst DEF Beginning
<1>4. /\ locks' = locks \cup {<<<<"row", a>>, c>>} /\ Available(<<"row", a>>, c)
  BY DEF LockDraft, Lock
<1>5. row[a] # NoRow /\ Permitted(Origin(row[a]), a, req[c].addresses)
  BY <1>1, AtCallback DEF CallInv, StepOk, DecisionOk
<1>6. /\ {"id", "found"} \subseteq Fields
      /\ \A s, r : DOMAIN [step |-> s, seen |-> r] = {"step", "seen"}
  BY DEF Fields, NoRequest
<1>7. CASE Status(Sees(c, a)) = "draft"
  <2>1. Update(c, [step |-> "enqueue", seen |-> Sees(c, a)])
    BY <1>7 DEF LockDraft
  <2>2. /\ Learns(c) /\ req'[c].step = "enqueue" /\ req'[c].seen = Sees(c, a)
        /\ req'[c].id = a /\ req'[c].found = req[c].found
    BY <1>1, <1>6, <2>1, UpdateLearns
  <2>3. There(c, a) /\ Sees(c, a) = row[a] /\ row[a].status = "draft"
    BY <1>3, <1>7 DEF Status
  <2>4. CallbackOk(c)'
    BY <1>1, <1>3, <1>4, <2>2, <2>3 DEF CallbackOk, There
  <2>5. DecisionOk(req[c])'
    BY <1>1, <1>5, <2>2 DEF DecisionOk, Learns
  <2>6. QED BY <1>1, <1>3, <1>4, <2>2, <2>4, <2>5, ReadKeeps DEF Beginning
<1>8. CASE Status(Sees(c, a)) # "draft"
  <2>1. Update(c, [step |-> "return", seen |-> NoRow])
    BY <1>8 DEF LockDraft
  <2>2. /\ Learns(c) /\ req'[c].step = "return" /\ req'[c].id = a /\ req'[c].found = req[c].found
    BY <1>1, <1>6, <2>1, UpdateLearns
  <2>3. QED BY <1>1, <1>3, <1>4, <2>2, AtReturn, ReadKeeps
<1>9. QED BY <1>7, <1>8

\* A draft that is locked here is written by nobody else.
LEMMA DraftIsMine ==
  ASSUME ApiInv, NEW c \in Calls, NEW a \in Ids, row[a] # NoRow, row[a].status = "draft",
         <<<<"row", a>>, c>> \in locks, NEW d \in Calls \ {c}
  PROVE  a \notin DOMAIN mine[d].rows
<1>1. SUFFICES ASSUME a \in DOMAIN mine[d].rows PROVE FALSE
  OBVIOUS
<1>2. WrittenOk(d, a) /\ RowOk(row[a], a) /\ LocksOk
  BY <1>1 DEF ApiInv, CallInv, WritesOk, TablesInv, RowsOk
<1>3. ~Drafting(d, a) /\ ~Marking(d, a)
  BY <1>2 DEF Drafting, Marking, RowOk
<1>4. ~Queueing(d, a)
  BY <1>2 DEF Queueing, LocksOk
<1>5. QED BY <1>2, <1>3, <1>4 DEF WrittenOk

LEMMA EnqueueKeeps ==
  ASSUME ApiInv, NEW c \in Calls, Enqueue(c)
  PROVE  TablesInv' /\ \A d \in Calls : CallInv(d)'
<1>0. PICK a : a = req[c].id
  OBVIOUS
<1> DEFINE new == [row[a] EXCEPT !.status = "queued", !.resolved = req[c].addresses]
<1>1. /\ At(c, "callback") /\ UNCHANGED << sessionVars, tables >>
      /\ req[c].kind = "queue" /\ req[c].step = "enqueue" /\ account' = account /\ row' = row
  BY DoingAt DEF Enqueue
<1>2. CallInv(c) /\ TablesInv /\ a \in Ids
  BY <1>0, <1>1, AtCallback DEF CallInv, ReqOk
<1>3. /\ mine[c] = NoWrites /\ There(c, a) /\ req[c].seen = row[a] /\ row[a].status = "draft"
      /\ <<<<"row", a>>, c>> \in locks /\ ~req[c].found /\ row[a] # NoRow
  BY <1>0, <1>1, <1>2 DEF CallInv, ReqOk, StepOk, CallbackOk, There
<1>4. Permitted(row[a], a, req[c].addresses)
  <2>1. Permitted(Origin(row[a]), a, req[c].addresses)
    BY <1>0, <1>1, <1>2 DEF CallInv, StepOk, DecisionOk
  <2>2. row[a] = Origin(row[a])
    BY <1>2, <1>3 DEF TablesInv, RowsOk, RowOk
  <2>3. QED BY <2>1, <2>2
<1>5. Sees(c, a) = row[a]
  <2>1. a \notin DOMAIN mine[c].rows
    BY <1>3 DEF NoWrites
  <2>2. QED BY <1>1, <1>2, <1>3, <2>1, SeesTable
<1>6. /\ ~Occupied(row[a].account, row[a].input) /\ Write(c, a, new)
      /\ locks' = locks \cup {<<<<"key", KeyOf(row[a])>>, c>>}
      /\ Available(<<"key", KeyOf(row[a])>>, c) /\ Update(c, [step |-> "audit"])
  <2>1. account[c] = row[a].account /\ Status(Sees(c, a)) = "draft"
    BY <1>3, <1>5 DEF There, Status
  <2>2. QED BY <1>0, <1>3, <2>1 DEF Enqueue, Lock, KeyOf
<1>7. /\ Learns(c) /\ req'[c].step = "audit" /\ req'[c].id = a /\ req'[c].found = req[c].found
  <2>1. DOMAIN [step |-> "audit"] = {"step"} /\ {"id", "found"} \subseteq Fields
    BY DEF Fields, NoRequest
  <2>2. QED BY <1>0, <1>1, <1>6, <2>1, UpdateLearns
<1>8. mine'[c].rows[a] = new /\ a \in DOMAIN mine'[c].rows
  BY <1>6, Written
<1>9. WrittenOk(c, a)'
  <2>1. There(c, a)' /\ Occupied(row[a].account, row[a].input)'
                          = Occupied(row[a].account, row[a].input)
    BY <1>1, <1>3 DEF There, Occupied
  <2>2. Queueing(c, a)'
    BY <1>1, <1>3, <1>4, <1>6, <1>7, <1>8, <2>1 DEF Queueing, Learns
  <2>3. QED BY <1>1, <1>7, <2>2 DEF WrittenOk, Learns
<1>10. CallbackOk(c)' /\ DecisionOk(req[c])' /\ req'[c].step \notin Beginning
  BY <1>1, <1>7, <1>8 DEF CallbackOk, DecisionOk, Beginning, Learns
<1>11. \A d \in Calls \ {c} : a \notin DOMAIN mine[d].rows
  BY <1>2, <1>3, DraftIsMine
<1>12. QED
  <2> HIDE DEF new
  <2>1. locks \subseteq locks' /\ \A l \in locks' \ locks : l = <<l[1], c>> /\ Available(l[1], c)
    BY <1>6
  <2>2. QED BY <1>2, <1>3, <1>6, <1>7, <1>9, <1>10, <1>11, <2>1, WriteKeeps

LEMMA MarkReadKeeps ==
  ASSUME ApiInv, NEW c \in Calls, MarkRead(c)
  PROVE  TablesInv' /\ \A d \in Calls : CallInv(d)'
<1>0. PICK a : a = req[c].id
  OBVIOUS
<1>1. /\ At(c, "callback") /\ UNCHANGED << sessionVars, tables >>
      /\ req[c].kind = "mark" /\ req[c].step = "mark" /\ account' = account /\ row' = row
  BY DoingAt DEF MarkRead
<1>2. CallInv(c) /\ TablesInv /\ a \in Ids
  BY <1>0, <1>1, AtCallback DEF CallInv, ReqOk
<1>3. /\ mine[c] = NoWrites /\ ~req[c].found
      /\ Sees(c, a) = IF There(c, a) THEN row[a] ELSE NoRow
  BY <1>0, <1>1, <1>2, SeesFirst DEF Beginning
<1>4. /\ locks' = locks \cup {<<<<"notice", a>>, c>>} /\ Available(<<"notice", a>>, c)
      /\ locks \subseteq locks' /\ \A l \in locks' \ locks : l = <<l[1], c>> /\ Available(l[1], c)
  BY <1>0 DEF MarkRead, Lock
<1>5. {"id", "found"} \subseteq Fields
  BY DEF Fields, NoRequest
<1>6. CASE Sees(c, a) # NoRow /\ Sees(c, a).notice # "none"
  <2> DEFINE new == [row[a] EXCEPT !.notice = "read"]
  <2>1. There(c, a) /\ Sees(c, a) = row[a] /\ row[a].notice # "none" /\ row[a] # NoRow
    BY <1>3, <1>6 DEF There
  <2>2. Write(c, a, new) /\ Update(c, [step |-> "return", found |-> TRUE])
    BY <1>0, <1>6, <2>1 DEF MarkRead
  <2>3. Learns(c) /\ req'[c].step = "return" /\ req'[c].id = a
    <3>1. DOMAIN [step |-> "return", found |-> TRUE] = {"step", "found"}
      OBVIOUS
    <3>2. QED BY <1>0, <1>1, <1>5, <2>2, <3>1, UpdateLearns
  <2>4. mine'[c].rows[a] = new /\ a \in DOMAIN mine'[c].rows
    BY <2>2, Written
  <2>5. WrittenOk(c, a)'
    <3>1. Marking(c, a)'
      BY <1>1, <1>4, <2>1, <2>4 DEF Marking, There
    <3>2. QED BY <1>1, <2>3, <3>1 DEF WrittenOk, Learns
  <2>6. Awaited(c)'
    BY <1>1, <2>3, <2>4 DEF Awaited, Learns
  <2>7. \A d \in Calls \ {c} : a \notin DOMAIN mine[d].rows
    <3>1. SUFFICES ASSUME NEW d \in Calls \ {c}, a \in DOMAIN mine[d].rows PROVE FALSE
      OBVIOUS
    <3>2. WrittenOk(d, a) /\ RowOk(row[a], a)
      BY <1>2, <3>1 DEF ApiInv, CallInv, WritesOk, TablesInv, RowsOk
    <3>3. ~Drafting(d, a) /\ ~Queueing(d, a)
      BY <2>1, <3>2 DEF Drafting, Queueing, RowOk
    <3>4. ~Marking(d, a)
      BY <1>4 DEF Marking, Available
    <3>5. QED BY <3>2, <3>3, <3>4 DEF WrittenOk
  <2> HIDE DEF new
  <2>8. QED BY <1>1, <1>2, <1>3, <1>4, <2>2, <2>3, <2>5, <2>6, <2>7, AtReturn, WriteKeeps
<1>7. CASE ~(Sees(c, a) # NoRow /\ Sees(c, a).notice # "none")
  <2>1. UNCHANGED mine /\ Update(c, [step |-> "return"])
    BY <1>0, <1>7 DEF MarkRead
  <2>2. /\ Learns(c) /\ req'[c].step = "return" /\ req'[c].id = a /\ req'[c].found = req[c].found
    <3>1. DOMAIN [step |-> "return"] = {"step"}
      OBVIOUS
    <3>2. QED BY <1>0, <1>1, <1>5, <2>1, <3>1, UpdateLearns
  <2>3. QED BY <1>0, <1>1, <1>3, <1>4, <2>1, <2>2, AtReturn, ReadKeeps
<1>8. QED BY <1>6, <1>7

LEMMA ReadListKeeps ==
  ASSUME ApiInv, NEW c \in Calls, ReadList(c)
  PROVE  TablesInv' /\ \A d \in Calls : CallInv(d)'
<1>1. /\ At(c, "callback") /\ UNCHANGED << sessionVars, tables >> /\ UNCHANGED << mine, locks >>
      /\ req[c].kind \in {"list", "reports"}
  BY DoingAt DEF ReadList
<1>2. Learns(c) /\ req'[c].step = "return" /\ req'[c].id = req[c].id
  <2>1. /\ DOMAIN [step |-> "return", found |-> TRUE] = {"step", "found"}
        /\ "id" \in Fields
    BY DEF Fields, NoRequest
  <2>2. QED BY <1>1, <2>1, UpdateLearns DEF ReadList
<1>3. Awaited(c)'
  BY <1>1, <1>2 DEF Awaited, Learns
<1>4. QED BY <1>1, <1>2, <1>3, AtReturn, ReadKeeps

LEMMA ReadStatusKeeps ==
  ASSUME ApiInv, NEW c \in Calls, ReadStatus(c)
  PROVE  TablesInv' /\ \A d \in Calls : CallInv(d)'
<1>1. /\ At(c, "callback") /\ UNCHANGED << sessionVars, tables >> /\ UNCHANGED << mine, locks >>
      /\ req[c].kind = "delivery" /\ req[c].step = "status" /\ account' = account /\ row' = row
  BY DoingAt DEF ReadStatus
<1>2. req[c].id \in Ids
  BY <1>1, AtCallback DEF CallInv, ReqOk
<1>3. /\ ~req[c].found
      /\ Sees(c, req[c].id) = IF There(c, req[c].id) THEN row[req[c].id] ELSE NoRow
  BY <1>1, <1>2, SeesFirst DEF Beginning
<1>4. PICK step \in {"return", "findings"} :
        /\ Update(c, [step |-> step, seen |-> Sees(c, req[c].id)])
        /\ step = "findings" => Sees(c, req[c].id) # NoRow
  BY DEF ReadStatus
<1>5. /\ Learns(c) /\ req'[c].step = step /\ req'[c].seen = Sees(c, req[c].id)
      /\ req'[c].id = req[c].id /\ req'[c].found = req[c].found
  <2>1. /\ DOMAIN [step |-> step, seen |-> Sees(c, req[c].id)] = {"step", "seen"}
        /\ {"id", "found"} \subseteq Fields
    BY DEF Fields, NoRequest
  <2>2. QED BY <1>1, <1>4, <2>1, UpdateLearns
<1>6. CallbackOk(c)'
  <2>1. Sees(c, req[c].id) # NoRow /\ Sees(c, req[c].id).status = "completed" =>
          There(c, req[c].id) /\ row[req[c].id].status = "completed"
    BY <1>3
  <2>2. QED BY <1>1, <1>4, <1>5, <2>1 DEF CallbackOk, Learns, There
<1>7. step \notin Beginning
  BY DEF Beginning
<1>8. QED BY <1>1, <1>3, <1>5, <1>6, <1>7, ReadKeeps

LEMMA ReadFindingsKeeps ==
  ASSUME ApiInv, NEW c \in Calls, ReadFindings(c)
  PROVE  TablesInv' /\ \A d \in Calls : CallInv(d)'
<1>1. /\ At(c, "callback") /\ UNCHANGED << sessionVars, tables >> /\ UNCHANGED << mine, locks >>
      /\ req[c].kind = "delivery" /\ req[c].step = "findings"
  BY DoingAt DEF ReadFindings
<1>2. CallInv(c) /\ req[c].id \in Ids
  BY <1>1, AtCallback DEF CallInv, ReqOk
<1>3. /\ Learns(c) /\ req'[c].step = "return" /\ req'[c].id = req[c].id
      /\ req'[c].seen = req[c].seen
      /\ req'[c].shown = (Status(Sees(c, req[c].id)) = "completed")
  <2>1. /\ \A s : DOMAIN [step |-> "return", found |-> TRUE, shown |-> s]
                    = {"step", "found", "shown"}
        /\ {"id", "seen"} \subseteq Fields
    BY DEF Fields, NoRequest
  <2>2. QED BY <1>1, <2>1, UpdateLearns DEF ReadFindings
<1>4. req[c].seen.status = "completed" => req'[c].shown
  <2>1. SUFFICES ASSUME req[c].seen.status = "completed"
                 PROVE  Status(Sees(c, req[c].id)) = "completed"
    BY <1>3
  <2>2. There(c, req[c].id) /\ row[req[c].id].status = "completed"
    BY <1>1, <1>2, <2>1 DEF CallInv, StepOk, CallbackOk
  <2>3. req[c].id \notin DOMAIN mine[c].rows
    BY <1>1, <1>2 DEF CallInv, WritesOk, WrittenOk
  <2>4. QED BY <1>1, <1>2, <2>2, <2>3, SeesTable DEF Status, There
<1>5. Awaited(c)'
  BY <1>1, <1>3, <1>4 DEF Awaited, Learns
<1>6. QED BY <1>1, <1>3, <1>5, AtReturn, ReadKeeps

LEMMA ReadKeyKeeps ==
  ASSUME ApiInv, NEW c \in Calls, ReadKey(c)
  PROVE  TablesInv' /\ \A d \in Calls : CallInv(d)'
<1>1. /\ At(c, "callback") /\ UNCHANGED << sessionVars, tables >> /\ UNCHANGED << mine, locks >>
      /\ req[c].kind = "download" /\ req[c].step = "key" /\ account' = account /\ row' = row
  BY DoingAt DEF ReadKey
<1>2. req[c].id \in Ids
  BY <1>1, AtCallback DEF CallInv, ReqOk
<1>3. /\ ~req[c].found
      /\ Sees(c, req[c].id) = IF There(c, req[c].id) THEN row[req[c].id] ELSE NoRow
  BY <1>1, <1>2, SeesFirst DEF Beginning
<1>4. PICK step \in {"return", "url"} : /\ Update(c, [step |-> step])
                                        /\ step = "url" => There(c, req[c].id)
  BY <1>3 DEF ReadKey, Status
<1>5. /\ Learns(c) /\ req'[c].step = step
      /\ req'[c].id = req[c].id /\ req'[c].found = req[c].found
  <2>1. DOMAIN [step |-> step] = {"step"} /\ {"id", "found"} \subseteq Fields
    BY DEF Fields, NoRequest
  <2>2. QED BY <1>1, <1>4, <2>1, UpdateLearns
<1>6. CallbackOk(c)' /\ step \notin Beginning
  BY <1>1, <1>4, <1>5 DEF CallbackOk, Learns, There, Beginning
<1>7. QED BY <1>1, <1>3, <1>5, <1>6, ReadKeeps

LEMMA UrlKeeps ==
  ASSUME ApiInv, NEW c \in Calls, CreateUrl(c), Statement(c), Update(c, [step |-> "audit"])
  PROVE  TablesInv' /\ \A d \in Calls : CallInv(d)'
<1>1. /\ At(c, "callback") /\ UNCHANGED << sessionVars, tables >> /\ UNCHANGED << mine, locks >>
      /\ req[c].kind = "download" /\ req[c].step = "url" /\ account' = account /\ row' = row
  BY DEF CreateUrl, Statement, Answers, Frame, sessionVars, callVars, tables
<1>2. There(c, req[c].id) /\ ~req[c].found
  BY <1>1, AtCallback DEF CallInv, StepOk, CallbackOk, ReqOk
<1>3. /\ Learns(c) /\ req'[c].step = "audit"
      /\ req'[c].id = req[c].id /\ req'[c].found = req[c].found
  <2>1. DOMAIN [step |-> "audit"] = {"step"} /\ {"id", "found"} \subseteq Fields
    BY DEF Fields, NoRequest
  <2>2. QED BY <1>1, <2>1, UpdateLearns
<1>4. CallbackOk(c)' /\ req'[c].step \notin Beginning
  BY <1>1, <1>2, <1>3 DEF CallbackOk, Learns, There, Beginning
<1>5. QED BY <1>1, <1>2, <1>3, <1>4, ReadKeeps

\* A step of the session alone.
LEMMA SessionAlone ==
  ASSUME ApiInv, NEW c \in Calls, Quiet,
         \/ Prepare(c) \/ Restore(c) \/ Close(c) \/ Return(c) \/ Throw(c)
         \/ Refused(c)
         \/ ~At(c, "commit") /\ Fault /\ StatementFails(c)
  PROVE  TablesInv' /\ \A d \in Calls : CallInv(d)'
<1>1. Moves(c)
  BY SessionMoves DEF ApiInv, CallInv, Refused, At
<1>2. SessionStep(c)
  BY DEF SessionStep, CallStep, CallbackStep, FaultStep
<1>3. Aside(c)
  BY <1>2, SessionAside DEF ApiInv
<1>4. QED BY <1>1, <1>3, QuietKeeps

LEMMA CallbackAllKeeps ==
  ASSUME ApiInv, NEW c \in Calls, Callback(c)
  PROVE  TablesInv' /\ \A d \in Calls : CallInv(d)'
<1>1. CASE InsertThrows(c) \/ CallbackReturns(c) \/ CallbackRefused(c)
  <2>1. Quiet /\ (Throw(c) \/ Return(c) \/ Refused(c))
    BY <1>1 DEF InsertThrows, CallbackReturns, CallbackRefused, Frame, Quiet
  <2>2. QED BY <2>1, SessionAlone
<1>2. CASE CreateUrl(c)
  <2>1. CASE Throw(c) /\ UNCHANGED req
    <3>1. Quiet
      BY <1>2, <2>1 DEF CreateUrl, Frame, Quiet
    <3>2. QED BY <2>1, <3>1, SessionAlone
  <2>2. CASE Statement(c) /\ Update(c, [step |-> "audit"])
    BY <1>2, <2>2, UrlKeeps
  <2>3. QED BY <1>2, <2>1, <2>2 DEF CreateUrl
<1>3. CASE \/ Insert(c) \/ DraftAudited(c) \/ Snapshot(c) \/ LockDraft(c) \/ Enqueue(c)
           \/ DispatchAudited(c)
  BY <1>3, InsertKeeps, DraftAuditedKeeps, SnapshotKeeps, LockDraftKeeps, EnqueueKeeps,
     DispatchAuditedKeeps
<1>4. CASE \/ ReadList(c) \/ ReadStatus(c) \/ ReadFindings(c) \/ MarkRead(c) \/ ReadKey(c)
           \/ DownloadAudited(c)
  BY <1>4, ReadListKeeps, ReadStatusKeeps, ReadFindingsKeeps, MarkReadKeeps, ReadKeyKeeps,
     DownloadAuditedKeeps
<1>5. QED BY <1>1, <1>2, <1>3, <1>4 DEF Callback

-----------------------------------------------------------------------------
(***************************************************************************)
(* Every step keeps the invariant                                          *)
(***************************************************************************)
LEMMA CarryKeeps ==
  ASSUME ApiInv, NEW c \in Calls, Carry(c)
  PROVE  TablesInv' /\ \A d \in Calls : CallInv(d)'
<1>1. Quiet /\ (Prepare(c) \/ Restore(c) \/ Close(c))
  BY DEF Carry, Frame, Quiet
<1>2. QED BY <1>1, SessionAlone

LEMMA CommitsKeep ==
  ASSUME ApiInv, NEW c \in Calls, CommitWrites(c) \/ CommitReplyLost(c)
  PROVE  TablesInv' /\ \A d \in Calls : CallInv(d)'
<1>1. Apply(c) /\ LetGo(c) /\ UNCHANGED req /\ At(c, "commit")
  BY DEF CommitWrites, CommitReplyLost, Commit, Answers
<1>2. SessionStep(c)
  BY DEF CommitWrites, CommitReplyLost, SessionStep, CallStep, FaultStep
<1>3. Aside(c)
  BY <1>2, SessionAside DEF ApiInv
<1>4. Committing(c)
  <2>1. CASE Commit(c)
    BY <1>1, <2>1 DEF Committing, Commit, Goto, ApiInv, SessionInv, TypeOKSession
  <2>2. CASE ConnectionLost(c)
    BY <1>1, <2>2
    DEF Committing, ConnectionLost, Goto, AfterError, At, InTransaction, ApiInv, SessionInv,
        TypeOKSession
  <2>3. QED BY <2>1, <2>2 DEF CommitWrites, CommitReplyLost
<1>5. QED BY <1>1, <1>3, <1>4, CommitAllKeeps

LEMMA RollbacksKeep ==
  ASSUME ApiInv, NEW c \in Calls,
         \/ RollbackWrites(c) \/ ConnectionFault(c)
         \/ At(c, "commit") /\ StatementFault(c)
  PROVE  TablesInv' /\ \A d \in Calls : CallInv(d)'
<1>1. LetGo(c) /\ UNCHANGED << req, tables >>
  BY DEF RollbackWrites, ConnectionFault, StatementFault, Frame
<1>2. SessionStep(c)
  BY DEF RollbackWrites, ConnectionFault, StatementFault, SessionStep, CallStep, FaultStep
<1>3. Aside(c)
  BY <1>2, SessionAside DEF ApiInv
<1>4. Ends(c)
  <2> USE DEF Ends, Goto, AfterError, At, Setup, Teardown, InTransaction, ApiInv, SessionInv,
              TypeOKSession
  <2>1. CASE Rollback(c)
    BY <2>1 DEF Rollback, CallInv, PromiseOk
  <2>2. CASE ConnectionLost(c)
    BY <2>2 DEF ConnectionLost
  <2>3. CASE At(c, "commit") /\ StatementFails(c)
    BY <2>3 DEF StatementFails
  <2>4. QED BY <2>1, <2>2, <2>3 DEF RollbackWrites, ConnectionFault, StatementFault
<1>5. QED BY <1>1, <1>3, <1>4, EndsKeeps

LEMMA StatementFaultsKeep ==
  ASSUME ApiInv, NEW c \in Calls, StatementFault(c)
  PROVE  TablesInv' /\ \A d \in Calls : CallInv(d)'
<1>1. CASE At(c, "commit")
  BY <1>1, RollbacksKeep
<1>2. CASE ~At(c, "commit")
  <2>1. Quiet /\ Fault /\ StatementFails(c)
    BY <1>2 DEF StatementFault, Frame, Quiet
  <2>2. QED BY <1>2, <2>1, SessionAlone
<1>3. QED BY <1>1, <1>2

\* A request that has no transaction goes on, or is answered.
LEMMA IdleKeeps ==
  ASSUME ApiInv, NEW c \in Calls, At(c, "idle"), Aside(c), UNCHANGED << mine, locks, tables >>,
         \A d \in Calls \ {c} : req'[d] = req[d],
         ReqOk(c)', StepOk(c)', PromiseOk(c)'
  PROVE  TablesInv' /\ \A d \in Calls : CallInv(d)'
<1>1. CallInv(c) /\ TablesInv
  BY DEF ApiInv
<1>2. ~Open(c) /\ mine[c] = NoWrites
  BY <1>1 DEF CallInv, WritesOk, At, Open, InTransaction, Setup, Teardown
<1>3. TablesInv'
  <2>1. \A l \in locks : l[2] \in Calls \ {c} /\ (Open(l[2]) => Open(l[2])')
    BY <1>1, <1>2 DEF TablesInv, LocksOk, Aside, Open
  <2>2. LocksOk'
    BY <1>1, <2>1 DEF TablesInv, LocksOk
  <2>3. QED BY <1>1, <2>2 DEF TablesInv, RowsOk, KeysOk, AuditsOk, Disjoint, tables
<1>4. CallInv(c)'
  BY <1>2, EndedWrites DEF CallInv
<1>5. ASSUME NEW d \in Calls PROVE CallInv(d)'
  <2>1. CASE d = c
    BY <1>4, <2>1
  <2>2. CASE d # c
    BY <2>2, QuietOthers
  <2>3. QED BY <2>1, <2>2
<1>6. QED BY <1>3, <1>5

LEMMA AnswerKeeps ==
  ASSUME ApiInv, NEW c \in Calls, Back(c), NEW x, Update(c, [answer |-> x]),
         UNCHANGED << sessionVars, mine, locks, tables >>, x = "ok" => Kept(req[c])
  PROVE  TablesInv' /\ \A d \in Calls : CallInv(d)'
<1>1. CallInv(c) /\ ReqInv /\ At(c, "idle")
  BY DEF ApiInv, Back
<1>2. /\ req'[c] = [f \in Fields |-> req'[c][f]] /\ req'[c].answer = x
      /\ \A f \in Fields \ {"answer"} : req'[c][f] = req[c][f]
      /\ \A d \in Calls \ {c} : req'[d] = req[d]
  <2>1. DOMAIN [answer |-> x] = {"answer"} /\ "answer" \in Fields
    BY DEF Fields, NoRequest
  <2>2. QED BY <1>1, <2>1, UpdateFields DEF CallInv
<1>3. /\ req'[c].kind = req[c].kind /\ req'[c].user = req[c].user /\ req'[c].step = req[c].step
      /\ req'[c].account = req[c].account /\ req'[c].input = req[c].input
      /\ req'[c].id = req[c].id /\ req'[c].seen = req[c].seen /\ req'[c].found = req[c].found
      /\ req'[c].shown = req[c].shown /\ req'[c].addresses = req[c].addresses
      /\ req'[c].number = req[c].number
  BY <1>2 DEF Fields, NoRequest
<1>4. stage' = stage /\ outcome' = outcome /\ account' = account /\ row' = row /\ audits' = audits
  BY DEF sessionVars, callVars, tables
<1>5. Aside(c)
  BY <1>4 DEF Aside
<1>6. ReqOk(c)'
  BY <1>1, <1>2, <1>3, <1>4 DEF CallInv, ReqOk, At
<1>7. StepOk(c)'
  <2>1. stage'[c] \notin Early \cup {"callback"}
    BY <1>1, <1>4 DEF Early, Setup, At
  <2>2. DecisionOk(req[c]) => DecisionOk(req[c])'
    BY <1>3, <1>4 DEF DecisionOk
  <2>3. QED BY <1>1, <1>3, <2>1, <2>2 DEF CallInv, StepOk, At
<1>8. PromiseOk(c)'
  <2>1. stage'[c] \notin Running
    BY <1>1, <1>4 DEF Running, Teardown, At
  <2>2. Kept(req[c]) => Kept(req[c])'
    BY <1>3, <1>4 DEF Kept, Happened
  <2>3. QED BY <1>1, <1>2, <1>3, <1>4, <2>1, <2>2 DEF CallInv, PromiseOk
<1>9. QED BY <1>1, <1>2, <1>5, <1>6, <1>7, <1>8, IdleKeeps

LEMMA VerdictValues ==
  ASSUME NEW r \in Drafts, NEW a \in Ids, NEW clock \in Clocks, NEW addresses \in Resolutions
  PROVE  Verdict[<<r, a, clock, addresses>>] \in {"unavailable", "allowed", "denied"}
BY DEF Verdict, Questions

LEMMA AllowedKeeps ==
  ASSUME ApiInv, NEW c \in Calls, Back(c), req[c].step = "decide",
         NEW clock \in Clocks, NEW addresses \in Resolutions, Status(req[c].seen) = "draft",
         Verdict[<<req[c].seen, req[c].id, clock, addresses>>] = "allowed",
         Update(c, [step |-> "lock", addresses |-> addresses]), Call(c, req[c].account),
         UNCHANGED << mine, locks, tables >>
  PROVE  TablesInv' /\ \A d \in Calls : CallInv(d)'
<1>1. CallInv(c) /\ ReqInv /\ At(c, "idle") /\ ~Free(c)
  BY DEF ApiInv, Back
<1>2. /\ req'[c] = [f \in Fields |-> req'[c][f]]
      /\ req'[c].step = "lock" /\ req'[c].addresses = addresses
      /\ \A f \in Fields \ {"step", "addresses"} : req'[c][f] = req[c][f]
      /\ \A d \in Calls \ {c} : req'[d] = req[d]
  <2>1. /\ DOMAIN [step |-> "lock", addresses |-> addresses] = {"step", "addresses"}
        /\ {"step", "addresses"} \subseteq Fields
    BY DEF Fields, NoRequest
  <2>2. QED BY <1>1, <2>1, UpdateFields DEF CallInv
<1>3. /\ req'[c].kind = req[c].kind /\ req'[c].user = req[c].user
      /\ req'[c].account = req[c].account /\ req'[c].input = req[c].input
      /\ req'[c].id = req[c].id /\ req'[c].found = req[c].found
      /\ req'[c].answer = req[c].answer
  BY <1>2 DEF Fields, NoRequest
<1>4. /\ stage'[c] = "reserve" /\ outcome'[c] = "none" /\ account'[c] = req[c].account
      /\ row' = row /\ Aside(c)
  BY DEF Call, Goto, ApiInv, SessionInv, TypeOKSession, Aside, tables
<1>5. /\ req[c].kind = "queue" /\ ~req[c].found /\ req[c].account \in Tenants
      /\ req[c].answer # "ok" /\ mine[c] = NoWrites
  BY <1>1 DEF CallInv, ReqOk, Free, NoAnswer, WritesOk, At, Open, InTransaction, Setup, Teardown
<1>6. ReqOk(c)'
  BY <1>1, <1>2, <1>3, <1>4, <1>5 DEF CallInv, ReqOk, Free, At
<1>7. DecisionOk(req[c])'
  <2>1. row[req[c].id] # NoRow /\ req[c].seen = Origin(row[req[c].id])
    BY <1>1, <1>5 DEF CallInv, StepOk, DecisionOk
  <2>2. Permitted(req[c].seen, req[c].id, addresses)
    BY DEF Permitted
  <2>3. QED BY <1>2, <1>3, <1>4, <2>1, <2>2 DEF DecisionOk
<1>8. StepOk(c)'
  BY <1>2, <1>4, <1>5, <1>7 DEF StepOk, Beginning, At
<1>9. PromiseOk(c)'
  BY <1>2, <1>3, <1>4, <1>5 DEF PromiseOk
<1>10. QED BY <1>1, <1>2, <1>4, <1>6, <1>8, <1>9, IdleKeeps

LEMMA DecideAllKeeps ==
  ASSUME ApiInv, NEW c \in Calls, Decide(c)
  PROVE  TablesInv' /\ \A d \in Calls : CallInv(d)'
<1>1. /\ Back(c) /\ req[c].step = "decide" /\ UNCHANGED << mine, locks, tables >>
      /\ CallInv(c)
  BY DEF Decide, Frame, ApiInv
<1>2. CASE Status(req[c].seen) # "draft"
  <2>1. Update(c, [answer |-> "not_found"]) /\ UNCHANGED sessionVars
    BY <1>2, Zenon DEF Decide
  <2>2. QED BY <1>1, <2>1, AnswerKeeps
<1>3. CASE Status(req[c].seen) = "draft"
  <2>1. PICK clock \in Clocks, addresses \in Resolutions :
          IF Verdict[<<req[c].seen, req[c].id, clock, addresses>>] = "allowed"
          THEN /\ Update(c, [step |-> "lock", addresses |-> addresses])
               /\ Call(c, req[c].account)
          ELSE /\ Update(c, [answer |-> Verdict[<<req[c].seen, req[c].id, clock, addresses>>]])
               /\ UNCHANGED sessionVars
    BY <1>3, Zenon DEF Decide
  <2>2. CASE Verdict[<<req[c].seen, req[c].id, clock, addresses>>] = "allowed"
    <3>1. /\ Update(c, [step |-> "lock", addresses |-> addresses])
          /\ Call(c, req[c].account)
      BY <2>1, <2>2, Zenon
    <3>2. QED BY <1>1, <1>3, <2>2, <3>1, AllowedKeeps
  <2>3. CASE Verdict[<<req[c].seen, req[c].id, clock, addresses>>] # "allowed"
    <3>1. PICK verdict : verdict = Verdict[<<req[c].seen, req[c].id, clock, addresses>>]
      OBVIOUS
    <3>2. Update(c, [answer |-> verdict]) /\ UNCHANGED sessionVars
      BY <2>1, <2>3, <3>1, Zenon
    <3>3. req[c].kind = "queue" /\ req[c].id \in Ids
      BY <1>1 DEF CallInv, ReqOk
    <3>4. row[req[c].id] # NoRow /\ req[c].seen = Origin(row[req[c].id])
      BY <1>1, <1>3, <3>3 DEF CallInv, StepOk, DecisionOk
    <3>5. row[req[c].id] \in Assessments
      BY <3>3, <3>4 DEF ApiInv, TablesInv, RowsOk
    <3>6. req[c].seen \in Drafts
      BY <3>4, <3>5 DEF Assessments, Origin, Drafts
    <3>7. verdict # "ok"
      BY <3>1, <3>3, <3>6, VerdictValues
    <3>8. QED BY <1>1, <3>2, <3>7, AnswerKeeps
  <2>4. QED BY <2>2, <2>3
<1>4. QED BY <1>2, <1>3

LEMMA DecidedAllKeeps ==
  ASSUME ApiInv, NEW c \in Calls, Decided(c)
  PROVE  TablesInv' /\ \A d \in Calls : CallInv(d)'
<1>1. Back(c) /\ CallInv(c)
  BY DEF Decided, ApiInv
<1>2. CASE Failed(c) \/ ResolverFails(c)
  <2>1. /\ Update(c, [answer |-> "unavailable"])
        /\ UNCHANGED << sessionVars, mine, locks, tables >>
    BY <1>2 DEF Failed, ResolverFails, Frame
  <2>2. QED BY <1>1, <2>1, AnswerKeeps
<1>3. CASE Answer(c)
  <2>1. PICK x : /\ x = (IF req[c].found THEN "ok" ELSE "not_found")
                 /\ Update(c, [answer |-> x])
                 /\ UNCHANGED << sessionVars, mine, locks, tables >>
    BY <1>3 DEF Answer, Frame
  <2>2. x = "ok" => Kept(req[c])
    BY <1>1, <1>3, <2>1 DEF Answer, CallInv, PromiseOk
  <2>3. QED BY <1>1, <2>1, <2>2, AnswerKeeps
<1>4. QED BY <1>2, <1>3, DecideAllKeeps DEF Decided

\* What is asked is what the routes let through.
AskedOk == \E s \in Scenarios : asked \subseteq s.requests

LEMMA RequestFields ==
  ASSUME AskedOk, NEW r \in asked,
         NEW new, new = [f \in Fields |-> IF f \in DOMAIN r THEN r[f] ELSE NoRequest[f]]
  PROVE  /\ new.kind \in Kinds /\ new.user \in Users /\ new.account \in Tenants
         /\ new.kind = "create" => new.input \in Inputs
         /\ new.kind \in {"queue", "delivery", "mark", "download"} => new.id \in Ids
         /\ new.step = "idle" /\ new.found = FALSE /\ new.answer = "none"
         /\ new.kind = r.kind /\ new.account = r.account
<1>1. /\ DOMAIN r = {"number", "kind", "user", "account", "id", "input"}
      /\ r.kind \in Kinds /\ r.user \in Users /\ r.account \in Tenants
      /\ r.kind = "create" => r.input \in Inputs
      /\ r.kind \in {"queue", "delivery", "mark", "download"} => r.id \in Ids
  BY RequestsAssumption DEF AskedOk
<1>2. /\ {"kind", "user", "account", "input", "id", "step", "found", "answer"} \subseteq Fields
      /\ NoRequest.step = "idle" /\ NoRequest.found = FALSE /\ NoRequest.answer = "none"
  BY DEF Fields, NoRequest, NoAnswer
<1>3. QED BY <1>1, <1>2

LEMMA ReceiveAllKeeps ==
  ASSUME ApiInv, AskedOk, NEW c \in Calls, Receive(c)
  PROVE  TablesInv' /\ \A d \in Calls : CallInv(d)'
<1>1. CallInv(c) /\ ReqInv /\ Free(c) /\ UNCHANGED << mine, locks, tables >>
  BY DEF ApiInv, Receive
<1>2. At(c, "idle") /\ mine[c] = NoWrites
  BY <1>1 DEF CallInv, ReqOk, WritesOk, At, Open, InTransaction, Setup, Teardown
<1> DEFINE New(r) == [f \in Fields |-> IF f \in DOMAIN r THEN r[f] ELSE NoRequest[f]]
<1>10. PICK r \in asked :
         \/ /\ req' = [req EXCEPT ![c] = [New(r) EXCEPT !.step = FirstStep(r.kind)]]
            /\ Call(c, r.account)
         \/ /\ \E code : /\ code # "ok"
                         /\ req' = [req EXCEPT ![c] = [New(r) EXCEPT !.answer = code]]
            /\ UNCHANGED sessionVars
  BY DEF Receive, Fields
<1>3. PICK new : new = New(r)
  OBVIOUS
<1>4. /\ new.kind \in Kinds /\ new.user \in Users /\ new.account \in Tenants
      /\ new.kind = "create" => new.input \in Inputs
      /\ new.kind \in {"queue", "delivery", "mark", "download"} => new.id \in Ids
      /\ new.step = "idle" /\ new.found = FALSE /\ new.answer = "none"
      /\ new.kind = r.kind /\ new.account = r.account
  BY <1>3, RequestFields
<1>5. \A d \in Calls \ {c} : req'[d] = req[d]
  BY <1>1, <1>10 DEF ReqInv
<1>6. {"kind", "user", "account", "input", "id", "step", "found", "answer"} \subseteq Fields
  BY DEF Fields, NoRequest
<1>7. CASE /\ req' = [req EXCEPT ![c] = [new EXCEPT !.step = FirstStep(r.kind)]]
           /\ Call(c, r.account)
  <2>1. /\ req'[c] = [f \in Fields |-> req'[c][f]] /\ req'[c].step = FirstStep(r.kind)
        /\ req'[c].kind = new.kind /\ req'[c].user = new.user /\ req'[c].account = new.account
        /\ req'[c].input = new.input /\ req'[c].id = new.id /\ req'[c].found = FALSE
        /\ req'[c].answer = "none"
    BY <1>1, <1>3, <1>4, <1>6, <1>7 DEF ReqInv
  <2>2. stage'[c] = "reserve" /\ outcome'[c] = "none" /\ account'[c] = new.account /\ Aside(c)
    BY <1>4, <1>7 DEF Call, Goto, ApiInv, SessionInv, TypeOKSession, Aside
  <2>3. FirstStep(r.kind) \in Beginning \ {"lock"}
    BY <1>4 DEF FirstStep, Beginning, Kinds
  <2>4. ReqOk(c)'
    BY <1>4, <2>1, <2>2, <2>3 DEF ReqOk, Free, NoAnswer, At, Beginning, Kinds
  <2>5. StepOk(c)'
    BY <1>1, <1>2, <2>1, <2>2, <2>3 DEF StepOk, DecisionOk, At, Beginning
  <2>6. PromiseOk(c)'
    BY <2>1, <2>2 DEF PromiseOk
  <2>7. QED BY <1>1, <1>2, <1>5, <2>2, <2>4, <2>5, <2>6, IdleKeeps
<1>8. CASE \E code : /\ code # "ok" /\ UNCHANGED sessionVars
                     /\ req' = [req EXCEPT ![c] = [new EXCEPT !.answer = code]]
  <2>1. PICK code : /\ code # "ok" /\ UNCHANGED sessionVars
                    /\ req' = [req EXCEPT ![c] = [new EXCEPT !.answer = code]]
    BY <1>8
  <2>2. /\ req'[c] = [f \in Fields |-> req'[c][f]] /\ req'[c].step = "idle"
        /\ req'[c].kind = new.kind /\ req'[c].user = new.user /\ req'[c].account = new.account
        /\ req'[c].input = new.input /\ req'[c].id = new.id /\ req'[c].found = FALSE
        /\ req'[c].answer # "ok"
    BY <1>1, <1>3, <1>4, <1>6, <2>1 DEF ReqInv
  <2>3. stage'[c] = "idle" /\ outcome' = outcome /\ Aside(c)
    BY <1>2, <2>1 DEF sessionVars, callVars, Aside, At
  <2>4. ReqOk(c)'
    BY <1>4, <2>2, <2>3 DEF ReqOk, At
  <2>5. StepOk(c)'
    BY <2>2, <2>3 DEF StepOk, DecisionOk, At, Early, Setup, Beginning
  <2>6. PromiseOk(c)'
    BY <2>2, <2>3 DEF PromiseOk
  <2>7. QED BY <1>1, <1>2, <1>5, <2>3, <2>4, <2>5, <2>6, IdleKeeps
<1>9. QED BY <1>10, <1>3, <1>7, <1>8

\* The worker completes a job that no transaction of the API has in hand.
LEMMA CompletedKeeps ==
  ASSUME ApiInv, NEW a \in Ids, Completed(a)
  PROVE  TablesInv' /\ \A d \in Calls : CallInv(d)'
<1>1. /\ TablesInv /\ UNCHANGED << sessionVars, audits, req, mine, locks >>
      /\ row[a] # NoRow /\ row[a].status = "queued"
      /\ row' = [row EXCEPT ![a] = [row[a] EXCEPT !.status = "completed", !.notice = "unread"]]
  BY DEF ApiInv, Completed, Status
<1>2. row[a] \in Assessments /\ RowOk(row[a], a) /\ row = [b \in Ids |-> row[b]]
  BY <1>1 DEF TablesInv, RowsOk
<1>3. /\ row' = [b \in Ids |-> row'[b]] /\ \A b \in Ids \ {a} : row'[b] = row[b]
      /\ row'[a] = [row[a] EXCEPT !.status = "completed", !.notice = "unread"]
  BY <1>1, <1>2
<1>4. /\ row'[a] \in Assessments /\ row'[a] # NoRow
      /\ row'[a].status = "completed" /\ row'[a].notice = "unread"
      /\ row'[a].account = row[a].account /\ row'[a].user = row[a].user
      /\ row'[a].input = row[a].input /\ row'[a].resolved = row[a].resolved
      /\ row[a].notice = "none"
  BY <1>1, <1>2, <1>3 DEF Assessments, NoRow, RowOk
<1>5. \A b \in Ids : Grows(b)
  BY <1>1, <1>3, <1>4 DEF Grows
<1>6. \A b \in Ids : HasJob(row'[b]) => HasJob(row[b]) /\ KeyOf(row'[b]) = KeyOf(row[b])
  BY <1>1, <1>3, <1>4 DEF HasJob, Status, KeyOf
<1>7. TablesInv'
  <2>1. RowsOk'
    <3>1. Origin(row'[a]) = Origin(row[a])
      BY <1>4 DEF Origin
    <3>2. RowOk(row'[a], a)
      BY <1>1, <1>2, <1>4, <3>1 DEF RowOk
    <3>3. QED BY <1>1, <1>3, <1>4, <3>2 DEF TablesInv, RowsOk, RowOk
  <2>2. KeysOk'
    BY <1>1, <1>6 DEF TablesInv, KeysOk
  <2>3. AuditsOk'
    <3>1. \A b \in Ids : Status(row[b]) \in {"queued", "completed"} =>
                           Status(row'[b]) \in {"queued", "completed"}
      BY <1>3, <1>4 DEF Status
    <3>2. QED BY <1>1, <1>5, <3>1 DEF TablesInv, AuditsOk, Grows
  <2>4. LocksOk' /\ Disjoint'
    BY <1>1 DEF TablesInv, LocksOk, Disjoint, Open, sessionVars, callVars
  <2>5. QED BY <1>1, <2>1, <2>2, <2>3, <2>4 DEF TablesInv
<1>8. ASSUME NEW d \in Calls PROVE CallInv(d)'
  <2>1. CallInv(d)
    BY DEF ApiInv
  <2>2. a \notin DOMAIN mine[d].rows
    <3>1. SUFFICES ASSUME a \in DOMAIN mine[d].rows PROVE FALSE
      OBVIOUS
    <3>2. WrittenOk(d, a)
      BY <2>1, <3>1 DEF CallInv, WritesOk
    <3>3. QED BY <1>1, <1>4, <3>2 DEF WrittenOk, Drafting, Queueing, Marking
  <2>3. \A b \in Ids : Relies(d, b) => b # a
    BY <1>1, <2>1, <2>2 DEF Relies, CallInv, StepOk, CallbackOk
  <2>4. ASSUME NEW b \in DOMAIN mine[d].rows, req[d].kind = "queue"
        PROVE  ~Occupied(row[b].account, row[b].input)'
    <3>1. Queueing(d, b) /\ b \in Ids
      BY <2>1, <2>4 DEF CallInv, WritesOk, WrittenOk
    <3>2. row'[b] = row[b]
      BY <1>3, <2>2, <2>4, <3>1
    <3>3. QED BY <1>6, <3>1, <3>2 DEF Queueing, Occupied, KeyOf
  <2>5. Undisturbed(d)
    BY <1>1, <1>3, <1>5, <2>3, <2>4 DEF Undisturbed, sessionVars, callVars
  <2>6. QED BY <1>1, <2>1, <2>5, UndisturbedKeeps DEF TablesInv
<1>9. QED BY <1>7, <1>8

\* Nothing that the requests in hand are concerned with.
LEMMA NothingKeeps ==
  ASSUME ApiInv, UNCHANGED << sessionVars, tables, req, mine, locks >>
  PROVE  TablesInv' /\ \A d \in Calls : CallInv(d)'
<1> USE DEF tables, sessionVars, callVars
<1>1. TablesInv
  BY DEF ApiInv
<1>2. TablesInv'
  BY <1>1 DEF TablesInv, RowsOk, KeysOk, AuditsOk, LocksOk, Disjoint, Open
<1>3. ASSUME NEW d \in Calls PROVE CallInv(d)'
  <2>1. CallInv(d)
    BY DEF ApiInv
  <2>2. ASSUME NEW a \in DOMAIN mine[d].rows, req[d].kind = "queue"
        PROVE  ~Occupied(row[a].account, row[a].input)'
    <3>1. Queueing(d, a)
      BY <2>1, <2>2 DEF CallInv, WritesOk, WrittenOk
    <3>2. QED BY <3>1 DEF Queueing, Occupied
  <2>3. Undisturbed(d)
    BY <2>2 DEF Undisturbed, Grows
  <2>4. QED BY <1>1, <2>1, <2>3, UndisturbedKeeps DEF TablesInv
<1>4. QED BY <1>2, <1>3

-----------------------------------------------------------------------------
(***************************************************************************)
(* The specification                                                       *)
(***************************************************************************)
BoundsOk == /\ AskedOk
            /\ member \in [Users -> Members]
            /\ changes \in 0..MaxChanges

LEMMA ApiInit == Init => ApiInv /\ BoundsOk
<1> SUFFICES ASSUME Init PROVE ApiInv /\ BoundsOk
  OBVIOUS
<1>1. PICK s \in Scenarios : row = s.rows /\ asked = s.requests
  BY DEF Init
<1>2. /\ audits = {} /\ locks = {} /\ req = [c \in Calls |-> NoRequest]
      /\ mine = [c \in Calls |-> NoWrites] /\ member \in InitialMembers /\ changes = 0
      /\ stage = [c \in Calls |-> "idle"] /\ outcome = [c \in Calls |-> "none"]
  BY DEF Init, InitSession
<1>3. SessionInv /\ ReqInv
  BY InitHolds, ReqInit DEF Init
<1>4. RowsOk /\ KeysOk
  BY <1>1, ScenariosAssumption DEF RowsOk, RowOk, KeysOk, KeyOf
<1>5. TablesInv
  BY <1>2, <1>4 DEF TablesInv, AuditsOk, LocksOk, Disjoint, NoWrites
<1>6. ASSUME NEW c \in Calls PROVE CallInv(c)
  <2>1. /\ req[c] = NoRequest /\ mine[c] = NoWrites /\ stage[c] = "idle" /\ outcome[c] = "none"
    BY <1>2
  <2>2. /\ NoRequest = [f \in Fields |-> NoRequest[f]] /\ NoRequest.kind = "none"
        /\ NoRequest.found = FALSE /\ NoRequest.step = "idle" /\ NoRequest.answer = "none"
    BY DEF NoRequest, Fields, NoAnswer
  <2>3. ReqOk(c)
    BY <2>1, <2>2 DEF ReqOk, At
  <2>4. WritesOk(c)
    BY <2>1 DEF WritesOk, NoWrites
  <2>5. StepOk(c)
    BY <2>1, <2>2 DEF StepOk, At, Early, Setup
  <2>6. PromiseOk(c)
    BY <2>1, <2>2 DEF PromiseOk
  <2>7. QED BY <2>3, <2>4, <2>5, <2>6 DEF CallInv
<1>7. BoundsOk
  BY <1>1, <1>2, MembersAssumption, ChangesAssumption DEF BoundsOk, AskedOk
<1>8. QED BY <1>3, <1>5, <1>6, <1>7 DEF ApiInv

LEMMA BoundsKeep ==
  ASSUME BoundsOk, [Next]_vars
  PROVE  BoundsOk'
<1> USE DEF BoundsOk, AskedOk
<1>1. CASE \E c \in Calls : Receive(c)
  BY <1>1 DEF Receive
<1>2. CASE \E c \in Calls : Progress(c)
  <2>1. PICK c \in Calls : Progress(c)
    BY <1>2
  <2>2. UNCHANGED << member, asked, changes >>
    <3>1. CASE Callback(c)
      BY <3>1
      DEF Callback, Insert, InsertThrows, DraftAudited, Snapshot, LockDraft, Enqueue,
          DispatchAudited, ReadList, ReadStatus, ReadFindings, MarkRead, ReadKey, CreateUrl,
          DownloadAudited, CallbackReturns, CallbackRefused, Frame
    <3>2. CASE Decided(c)
      BY <3>2 DEF Decided, Failed, Decide, ResolverFails, Answer, Frame
    <3>3. CASE Carry(c) \/ CommitWrites(c) \/ RollbackWrites(c)
      BY <3>3 DEF Carry, CommitWrites, RollbackWrites, Frame
    <3>4. QED BY <2>1, <3>1, <3>2, <3>3 DEF Progress
  <2>3. QED BY <2>2
<1>3. CASE \E c \in Calls : StatementFault(c) \/ ConnectionFault(c) \/ CommitReplyLost(c)
  BY <1>3 DEF StatementFault, ConnectionFault, CommitReplyLost, Frame
<1>4. CASE \E a \in Ids : Completed(a)
  BY <1>4, ChangesAssumption DEF Completed
<1>5. CASE \E u \in Users : MemberChanges(u)
  BY <1>5, ChangesAssumption DEF MemberChanges
<1>6. CASE UNCHANGED vars
  BY <1>6 DEF vars
<1>7. QED BY <1>1, <1>2, <1>3, <1>4, <1>5, <1>6 DEF Next

LEMMA ApiNext ==
  ASSUME ApiInv, BoundsOk, [Next]_vars
  PROVE  ApiInv' /\ BoundsOk'
<1>1. BoundsOk'
  BY BoundsKeep
<1>2. ReqInv' /\ SessionInv'
  <2>1. ReqInv' /\ [SessionNext]_sessionVars
    BY NextKeeps DEF ApiInv
  <2>2. QED BY <2>1, StepKeeps, StutterKeeps DEF ApiInv, SessionNext
<1>3. TablesInv' /\ \A d \in Calls : CallInv(d)'
  <2>1. CASE \E c \in Calls : Receive(c)
    BY <2>1, ReceiveAllKeeps DEF BoundsOk
  <2>2. CASE \E c \in Calls : Progress(c)
    BY <2>2, CarryKeeps, CallbackAllKeeps, CommitsKeep, RollbacksKeep, DecidedAllKeeps DEF Progress
  <2>3. CASE \E c \in Calls : StatementFault(c) \/ ConnectionFault(c) \/ CommitReplyLost(c)
    BY <2>3, StatementFaultsKeep, RollbacksKeep, CommitsKeep
  <2>4. CASE \E a \in Ids : Completed(a)
    BY <2>4, CompletedKeeps
  <2>5. CASE \E u \in Users : MemberChanges(u)
    BY <2>5, NothingKeeps DEF MemberChanges
  <2>6. CASE UNCHANGED vars
    BY <2>6, NothingKeeps DEF vars, tables
  <2>7. QED BY <2>1, <2>2, <2>3, <2>4, <2>5, <2>6 DEF Next
<1>4. QED BY <1>1, <1>2, <1>3 DEF ApiInv

\* The inductive invariant of the routes: what is committed, what each open
\* transaction has written and locked, and what each request knows of it.
THEOREM ApiInvariant == Spec => [](ApiInv /\ BoundsOk)
BY ApiInit, ApiNext, PTL DEF Spec

\* Every variable has the values of its comment, and nothing is written or locked
\* but by a transaction that is open (the stores of the API).
THEOREM ApiTypeOK == Spec => []TypeOK
<1>1. ApiInv /\ BoundsOk => TypeOK
  <2> SUFFICES ASSUME ApiInv, BoundsOk PROVE TypeOK
    OBVIOUS
  <2>1. \A a \in Ids : Status(row[a]) \in {"none", "draft", "queued", "completed"}
    BY DEF ApiInv, TablesInv, RowsOk, Assessments, Status
  <2>2. \A c \in Calls : /\ req[c].kind \in Kinds \cup {"none"}
                         /\ mine[c] # NoWrites => stage[c] \in InTransaction \cup {"rollback"}
    BY DEF ApiInv, CallInv, ReqOk, WritesOk, Open
  <2>3. \A l \in locks : stage[l[2]] \in InTransaction \cup {"rollback"}
    BY DEF ApiInv, TablesInv, LocksOk, Open
  <2>4. TypeOKSession
    BY DEF ApiInv, SessionInv
  <2>5. QED BY <2>1, <2>2, <2>3, <2>4 DEF TypeOK, BoundsOk, AskedOk
<1>2. QED BY <1>1, ApiInvariant, PTL

\* However many requests queue one assessment at once, and whatever fails, it is
\* dispatched once and its audit chain says so once, under its own account
\* (queueAssessment, and queue_enqueue under its locks).
THEOREM ApiJobsAudited == Spec => []JobsAudited
<1>1. ApiInv => JobsAudited
  <2> SUFFICES ASSUME ApiInv, NEW a \in Ids
               PROVE  /\ Cardinality(Audited("queued", a)) <= 1
                      /\ Audited("queued", a) # {} => Status(row[a]) \in {"queued", "completed"}
                      /\ \A e \in audits : e.id = a => row[a] # NoRow /\ e.account = row[a].account
    BY DEF JobsAudited
  <2>1. AuditsOk
    BY DEF ApiInv, TablesInv
  <2>2. Audited("queued", a) = {} \/ \E e : Audited("queued", a) = {e}
    BY <2>1 DEF AuditsOk, Audited
  <2>3. Cardinality(Audited("queued", a)) <= 1
    <3>1. Cardinality({}) = 0 /\ \A e : Cardinality({e}) = 1
      BY FS_EmptySet, FS_Singleton, Zenon
    <3>2. Cardinality(Audited("queued", a)) \in {0, 1}
      BY <2>2, <3>1
    <3>3. QED BY <3>2
  <2>4. Audited("queued", a) # {} => Status(row[a]) \in {"queued", "completed"}
    BY <2>1 DEF AuditsOk, Audited
  <2>5. \A e \in audits : e.id = a => row[a] # NoRow /\ e.account = row[a].account
    BY <2>1 DEF AuditsOk
  <2>6. QED BY <2>3, <2>4, <2>5
<1>2. QED BY <1>1, ApiInvariant, PTL

\* Two active jobs of an account are for hosts and ports that are written in
\* different ways before the first slash, however the requests that queued them
\* raced (queueAssessment's key, the unique index on the keys of all jobs).
THEOREM ApiOneActiveJob == Spec => []OneActiveJobPerTarget
<1>1. ApiInv => OneActiveJobPerTarget
  BY DEF ApiInv, TablesInv, KeysOk, KeyOf, HasJob, TargetKey, OneActiveJobPerTarget
<1>2. QED BY <1>1, ApiInvariant, PTL

\* Whoever is told that his draft, his job, his mark or his download was carried
\* out finds it committed, whatever was lost or refused on the way (the stores
\* answer after withTenant has returned).
THEOREM ApiAnswersCommitted == Spec => []AnsweredMeansCommitted
<1>1. ApiInv => AnsweredMeansCommitted
  <2> SUFFICES ASSUME ApiInv, NEW c \in Calls, req[c].answer = "ok"
               PROVE  CASE req[c].kind = "create" ->
                             \E e \in Audited("draft_created", req[c].id) : e.number = req[c].number
                        [] req[c].kind = "queue" ->
                             /\ Status(row[req[c].id]) \in {"queued", "completed"}
                             /\ \E e \in Audited("queued", req[c].id) : e.number = req[c].number
                        [] req[c].kind = "mark" -> row[req[c].id].notice = "read"
                        [] req[c].kind = "download" ->
                             \E e \in Audited("download_issued", req[c].id) :
                               e.number = req[c].number
                        [] OTHER -> TRUE
    BY DEF AnsweredMeansCommitted
  <2>1. Kept(req[c]) /\ AuditsOk
    BY DEF ApiInv, CallInv, PromiseOk, TablesInv
  <2>2. \A event : Happened(event, req[c]) =>
          \E e \in Audited(event, req[c].id) : e.number = req[c].number
    BY DEF Happened, Audited
  <2>3. Happened("queued", req[c]) => Status(row[req[c].id]) \in {"queued", "completed"}
    BY <2>1 DEF Happened, AuditsOk
  <2>4. QED BY <2>1, <2>2, <2>3 DEF Kept
<1>2. QED BY <1>1, ApiInvariant, PTL

\* A delivery that calls the assessment completed shows the findings, though the
\* worker may complete it between the two reads (readTenantAssessmentDelivery).
THEOREM ApiCompletedShown == Spec => []CompletedShowsFindings
<1>1. ApiInv => CompletedShowsFindings
  <2> SUFFICES ASSUME ApiInv, NEW c \in Calls, req[c].kind = "delivery", req[c].answer = "ok",
                      req[c].seen.status = "completed"
               PROVE  req[c].shown
    BY DEF CompletedShowsFindings
  <2>1. Kept(req[c])
    BY DEF ApiInv, CallInv, PromiseOk
  <2>2. QED BY <2>1 DEF Kept
<1>2. QED BY <1>1, ApiInvariant, PTL

\* If the policy engine allows a draft only for a target and for addresses that may
\* be examined, there is never a job for any other: the row is the draft that the
\* engine was asked about, however long ago it was asked and whoever has written
\* since (authorizeQueue between two transactions, queueAssessment).
THEOREM ApiJobsAllowed ==
  ASSUME PolicySound
  PROVE  Spec => []JobsWereAllowed
<1>1. ApiInv => JobsWereAllowed
  <2> SUFFICES ASSUME ApiInv, NEW a \in Ids, Status(row[a]) \in {"queued", "completed"}
               PROVE  row[a].input \in Lawful /\ row[a].resolved \in Public
    BY DEF JobsWereAllowed
  <2>1. row[a] \in Assessments /\ row[a].status # "draft" /\ RowOk(row[a], a)
    BY DEF ApiInv, TablesInv, RowsOk, Status
  <2>2. Permitted(Origin(row[a]), a, row[a].resolved)
    BY <2>1 DEF RowOk, Assessments, NoRow
  <2>3. /\ row[a].account \in Tenants /\ row[a].user \in Users /\ row[a].input \in Inputs
        /\ row[a].resolved \in Resolutions
    BY <2>1, <2>2 DEF Assessments, Permitted
  <2>4. QED BY <2>2, <2>3 DEF PolicySound, Origin
<1>2. QED BY <1>1, ApiInvariant, PTL

-----------------------------------------------------------------------------
\* The policy engine.  What it allows passed every one of its checks: a list of
\* checks that reports no code holds none that fails.
LEMMA LeastIndex ==
  ASSUME NEW n \in Nat, NEW S, S \subseteq 1..n, S # {}
  PROVE  \E i \in S : \A j \in 1..(i - 1) : j \notin S
<1>1. S \subseteq Nat
  OBVIOUS
<1>2. PICK i \in S : \A j \in S : ~ (<<j, i>> \in OpToRel(<, Nat))
  BY <1>1, NatLessThanWellFounded, WFMin
<1>3. \A j \in S : ~ (j < i)
  BY <1>1, <1>2 DEF OpToRel
<1>4. QED BY <1>1, <1>3

\* A parser that reports no code has found nothing that fails.
LEMMA FirstCodeOk ==
  ASSUME NEW n \in Nat, NEW checks, DOMAIN checks = 1..n,
         \A i \in 1..n : Fails(checks, i) => checks[i][2] # "ok",
         FirstCode(checks) = "ok"
  PROVE  \A i \in 1..n : ~Fails(checks, i)
<1> SUFFICES ASSUME \E i \in 1..n : Fails(checks, i)
             PROVE  FALSE
  OBVIOUS
<1> DEFINE S == {i \in 1..n : Fails(checks, i)}
<1>1. PICK i \in S : \A j \in 1..(i - 1) : j \notin S
  <2>1. S \subseteq 1..n /\ S # {}
    OBVIOUS
  <2>2. QED BY <2>1, LeastIndex
<1>2. /\ i \in DOMAIN checks /\ Fails(checks, i)
      /\ \A j \in 1..(i - 1) : ~Fails(checks, j)
  BY <1>1
<1> DEFINE k == CHOOSE m \in DOMAIN checks : /\ Fails(checks, m)
                                            /\ \A j \in 1..(m - 1) : ~Fails(checks, j)
<1>3. k \in DOMAIN checks /\ Fails(checks, k)
  BY <1>2
<1>4. FirstCode(checks) = checks[k][2]
  BY <1>2 DEF FirstCode
<1>5. QED BY <1>3, <1>4

LEMMA CheckedOk ==
  ASSUME NEW code, NEW value, Checked(code, value).ok
  PROVE  code = "ok" /\ Checked(code, value).value = value
BY DEF Checked, Ok, Failure

LEMMA EightOk ==
  ASSUME NEW p1, NEW p2, NEW p3, NEW p4, NEW p5, NEW p6, NEW p7, NEW p8,
         NEW c1, NEW c2, NEW c3, NEW c4, NEW c5, NEW c6, NEW c7, NEW c8,
         c1 # "ok", c2 # "ok", c3 # "ok", c4 # "ok", c5 # "ok", c6 # "ok", c7 # "ok", c8 # "ok",
         FirstCode(<< <<p1, c1>>, <<p2, c2>>, <<p3, c3>>, <<p4, c4>>, <<p5, c5>>, <<p6, c6>>,
                      <<p7, c7>>, <<p8, c8>> >>) = "ok"
  PROVE  ~p6 /\ ~p7
<1> DEFINE checks == << <<p1, c1>>, <<p2, c2>>, <<p3, c3>>, <<p4, c4>>, <<p5, c5>>, <<p6, c6>>,
                      <<p7, c7>>, <<p8, c8>> >>
<1>1. DOMAIN checks = 1..8
  OBVIOUS
<1>2. \A i \in 1..8 : checks[i][2] # "ok"
  OBVIOUS
<1>3. checks[6][1] = p6 /\ checks[7][1] = p7
  OBVIOUS
<1>4. FirstCode(checks) = "ok" 
  OBVIOUS
<1> HIDE DEF checks
<1>5. \A i \in 1..8 : ~Fails(checks, i)
  BY <1>1, <1>2, <1>4, FirstCodeOk
<1>6. ~checks[6][1] /\ ~checks[7][1]
  BY <1>5 DEF Fails
<1>7. QED BY <1>6, <1>3

LEMMA UrlOk ==
  ASSUME NEW u, NEW host, UrlCode(u, host) = "ok"
  PROVE  host # NoHost /\ ~IsForbiddenAddress(host)
<1> DEFINE p1 == {"encoded", "backslash"} \cap u.marks # {}
           p2 == "fragment" \in u.marks
           p3 == "credentials" \in u.marks
           p4 == "malformed" \in u.marks
           p5 == u.scheme \notin {"http", "https"}
           p6 == host = NoHost
           p7 == IsForbiddenAddress(host)
           p8 == PortOf(u.scheme, u.port) \notin Ports
<1>1. UrlCode(u, host) = FirstCode(<< <<p1, "ambiguous_path_encoding">>, <<p2, "fragment_not_allowed">>,
                   <<p3, "credentials_not_allowed">>, <<p4, "invalid_url">>,
                   <<p5, "unsupported_protocol">>, <<p6, "invalid_url">>,
                   <<p7, "forbidden_target">>, <<p8, "invalid_url">> >>)
  BY Zenon DEF UrlCode
<1>2. ~p6 /\ ~p7
  <2> HIDE DEF p1, p2, p3, p4, p5, p6, p7, p8
  <2>1. QED BY <1>1, EightOk
<1>3. QED BY <1>2

LEMMA FourOk ==
  ASSUME NEW p1, NEW p2, NEW p3, NEW p4, NEW c1, NEW c2, NEW c3, NEW c4,
         p1 => c1 # "ok", p2 => c2 # "ok", p3 => c3 # "ok", p4 => c4 # "ok",
         FirstCode(<< <<p1, c1>>, <<p2, c2>>, <<p3, c3>>, <<p4, c4>> >>) = "ok"
  PROVE  ~p1 /\ ~p2 /\ ~p3 /\ ~p4
<1> DEFINE checks == << <<p1, c1>>, <<p2, c2>>, <<p3, c3>>, <<p4, c4>> >>
<1>1. DOMAIN checks = 1..4
  OBVIOUS
<1>2. /\ checks[1] = <<p1, c1>> /\ checks[2] = <<p2, c2>> /\ checks[3] = <<p3, c3>>
      /\ checks[4] = <<p4, c4>>
  OBVIOUS
<1>3. FirstCode(checks) = "ok"
  OBVIOUS
<1> HIDE DEF checks
<1>4. \A i \in 1..4 : Fails(checks, i) => checks[i][2] # "ok"
  BY <1>2 DEF Fails
<1>5. \A i \in 1..4 : ~Fails(checks, i)
  BY <1>1, <1>3, <1>4, FirstCodeOk
<1>6. QED BY <1>2, <1>5 DEF Fails

LEMMA TwoOk ==
  ASSUME NEW p1, NEW p2, NEW c1, NEW c2, c1 # "ok", c2 # "ok",
         FirstCode(<< <<p1, c1>>, <<p2, c2>> >>) = "ok"
  PROVE  ~p1 /\ ~p2
<1> DEFINE checks == << <<p1, c1>>, <<p2, c2>> >>
<1>1. DOMAIN checks = 1..2
  OBVIOUS
<1>2. \A i \in 1..2 : checks[i][2] # "ok"
  OBVIOUS
<1>3. checks[1][1] = p1 /\ checks[2][1] = p2
  OBVIOUS
<1>4. FirstCode(checks) = "ok"
  OBVIOUS
<1> HIDE DEF checks
<1>5. \A i \in 1..2 : ~Fails(checks, i)
  BY <1>1, <1>2, <1>4, FirstCodeOk
<1>6. QED BY <1>3, <1>5 DEF Fails

LEMMA FirstFaultOk ==
  ASSUME NEW n \in Nat, NEW codes, DOMAIN codes = 1..n, FirstFault(codes) = "ok"
  PROVE  \A i \in 1..n : codes[i] = "ok"
<1> DEFINE checks == [i \in DOMAIN codes |-> CheckOf(codes[i])]
<1>1. DOMAIN checks = 1..n
  OBVIOUS
<1>2. \A i \in 1..n : checks[i] = CheckOf(codes[i])
  OBVIOUS
<1>3. FirstCode(checks) = "ok"
  BY DEF FirstFault
<1> HIDE DEF checks
<1>4. \A i \in 1..n : (Fails(checks, i) <=> codes[i] # "ok") /\ checks[i][2] = codes[i]
  <2> TAKE i \in 1..n
  <2> DEFINE p == codes[i] # "ok"
  <2>1. checks[i] = <<p, codes[i]>>
    BY <1>2, Zenon DEF CheckOf
  <2>2. checks[i][1] = p /\ checks[i][2] = codes[i]
    <3> HIDE DEF p
    <3>1. QED BY <2>1
  <2>3. QED BY <2>2 DEF Fails
<1>5. \A i \in 1..n : ~Fails(checks, i)
  BY <1>1, <1>3, <1>4, FirstCodeOk
<1>6. QED BY <1>4, <1>5

LEMMA AddressOk ==
  ASSUME NEW address, AddressCode(address) = "ok"
  PROVE  IsIp(address) /\ ~IsForbiddenAddress(address)
<1> DEFINE p1 == ~IsIp(address)
           p2 == IsForbiddenAddress(address)
<1>1. AddressCode(address) = FirstCode(<< <<p1, "invalid_resolved_address">>,
                                         <<p2, "forbidden_resolved_address">> >>)
  BY Zenon DEF AddressCode
<1>2. ~p1 /\ ~p2
  <2> HIDE DEF p1, p2
  <2>1. QED BY <1>1, TwoOk
<1>3. QED BY <1>2

LEMMA ResolvedOk ==
  ASSUME NEW host, NEW addresses, NEW n \in Nat, DOMAIN addresses = 1..n,
         ResolvedCode(host, addresses) = "ok", ~IsIp(host)
  PROVE  /\ addresses # <<>>
         /\ \A i \in DOMAIN addresses : IsIp(addresses[i]) /\ ~IsForbiddenAddress(addresses[i])
<1> DEFINE codes == [i \in DOMAIN addresses |-> AddressCode(addresses[i])]
           c4 == IF IsIp(host) THEN "ok" ELSE FirstFault(codes)
           p1 == host = NoHost
           p2 == IsForbiddenAddress(host)
           p3 == ~IsIp(host) /\ addresses = <<>>
           p4 == c4 # "ok"
<1>1. ResolvedCode(host, addresses) =
        FirstCode(<< <<p1, "invalid_hostname">>, <<p2, "forbidden_resolved_address">>,
                     <<p3, "resolved_addresses_required">>, <<p4, c4>> >>)
  BY Zenon DEF ResolvedCode, CheckOf
<1>2. p4 => c4 # "ok"
  OBVIOUS
<1>3. ~p3 /\ ~p4
  <2> HIDE DEF p1, p2, p3, p4, c4
  <2>1. QED BY <1>1, <1>2, FourOk
<1>4. addresses # <<>>
  BY <1>3
<1>5. FirstFault(codes) = "ok"
  BY <1>3
<1>6. DOMAIN codes = 1..n /\ \A i \in 1..n : codes[i] = AddressCode(addresses[i])
  OBVIOUS
<1> HIDE DEF codes
<1>7. \A i \in 1..n : AddressCode(addresses[i]) = "ok"
  BY <1>5, <1>6, FirstFaultOk
<1>8. QED BY <1>4, <1>7, AddressOk

LEMMA TargetIs ==
  ASSUME NEW u, NormalizeExternalUrl(u).ok
  PROVE  /\ NormalizeExternalUrl(u).value.host = Plain(CanonicalizeHost(u.host))
         /\ ~IsForbiddenAddress(CanonicalizeHost(u.host))
<1> DEFINE host == CanonicalizeHost(u.host)
           anew == [scheme |-> u.scheme, host |-> Plain(host), port |-> PortOf(u.scheme, u.port),
                    path |-> u.path, query |-> u.query, marks |-> {}]
<1>1. NormalizeExternalUrl(u) = Checked(UrlCode(u, host), anew)
  BY DEF NormalizeExternalUrl, WrittenAnew
<1>2. UrlCode(u, host) = "ok" /\ NormalizeExternalUrl(u).value = anew
  <2> HIDE DEF anew, host
  <2>1. QED BY <1>1, CheckedOk
<1>3. anew.host = Plain(host)
  OBVIOUS
<1>4. ~IsForbiddenAddress(host)
  <2> HIDE DEF host
  <2>1. QED BY <1>2, UrlOk
<1>5. QED BY <1>2, <1>3, <1>4

\* A name stays a name, or is none, when its URL is written anew and read again.
LEMMA ReadAgainIsNoIp ==
  ASSUME NEW host, IsName(host)
  PROVE  ~IsIp(CanonicalizeHost(Plain(host)))
<1>1. Plain(host).host = host
  BY DEF Plain
<1>2. CanonicalizeHost(Plain(host)) \in {NoHost, CanonicalIp(Plain(host).host)}
  BY DEF CanonicalizeHost
<1>3. CanonicalIp(host) = host
  BY DEF CanonicalIp, IsName
<1>4. QED BY <1>1, <1>2, <1>3 DEF IsIp, IsName, NoHost

\* Only a request that gathers no code is allowed.
LEMMA AllowedHasNoCode ==
  ASSUME NEW in, NEW n, AuthorizeTarget(in, n).allowed
  PROVE  /\ Blocked(in, n) = {}
         /\ ActionBlocks(in) = {} /\ CategoryBlocks(in) = {} /\ PlanBlocks(in) = {}
         /\ TargetBlocks(in, n) = {} /\ ScopeBlocks(in, n) = {}
         /\ n.ok => AddressBlocks(Resolved(in, n)) = {}
         /\ PlaybookBlocks(in, n, ParsePlaybook(in.playbook, in.targetCategory)) = {}
         /\ VerificationBlocks(ParseVerification(in, n), in.action = "active_external") = {}
         /\ LimitBlocks(in) = {} /\ ExecutionBlocks(in) = {}
<1>1. Blocked(in, n) = {}
  BY DEF AuthorizeTarget, DecisionFor, Denied
<1>2. \A S \in {ActionBlocks(in), CategoryBlocks(in), PlanBlocks(in), TargetBlocks(in, n),
                ScopeBlocks(in, n), IF n.ok THEN AddressBlocks(Resolved(in, n)) ELSE {},
                PlaybookBlocks(in, n, ParsePlaybook(in.playbook, in.targetCategory)),
                VerificationBlocks(ParseVerification(in, n), in.action = "active_external"),
                LimitBlocks(in), ExecutionBlocks(in)} : S = {}
  BY <1>1 DEF Blocked
<1>3. QED BY <1>1, <1>2

LEMMA NoCode ==
  ASSUME NEW condition, NEW code, When(condition, code) = {}
  PROVE  ~condition
BY DEF When

LEMMA AllowedTarget ==
  ASSUME NEW in, NEW n, AuthorizeTarget(in, n).allowed
  PROVE  /\ n.ok /\ n.value.port \in {80, 443}
         /\ MatchesScope(in.scope, in.target.candidate)
         /\ in.targetCategory = "surface"
         /\ Resolved(in, n).ok
<1>1. /\ CategoryBlocks(in) = {} /\ TargetBlocks(in, n) = {} /\ ScopeBlocks(in, n) = {}
      /\ n.ok => AddressBlocks(Resolved(in, n)) = {}
  BY AllowedHasNoCode
<1>2. n.ok
  BY <1>1 DEF TargetBlocks
<1>3. When(n.ok /\ n.value.port \notin {80, 443}, "port_not_allowed") = {}
  BY <1>1 DEF TargetBlocks
<1>4. n.value.port \in {80, 443}
  BY <1>2, <1>3 DEF When
<1>5. MatchesScope(in.scope, in.target.candidate)
  BY <1>1, <1>2 DEF ScopeBlocks
<1>6. in.targetCategory = "surface"
  BY <1>1 DEF CategoryBlocks, When
<1>7. Resolved(in, n).ok
  BY <1>1, <1>2 DEF AddressBlocks
<1>8. QED BY <1>2, <1>4, <1>5, <1>6, <1>7

LEMMA AllowedIsExaminable ==
  ASSUME NEW r, NEW a, NEW clock, NEW addresses, NEW n \in Nat, DOMAIN addresses = 1..n,
         ~CannotAsk(r, a, clock), Decision(r, a, clock, addresses).allowed
  PROVE  Examinable(r, addresses)
<1> DEFINE in == PolicyRequest(r, a, clock, addresses)
           url == ExternalUrl(r.input.target)
           target == NormalizeExternalUrl(url)
           host == target.value.host.host
<1>1. /\ in.target.candidate = url /\ in.target.addresses = addresses
      /\ in.scope = Compiled(r.input).value /\ in.targetCategory = r.input.category
  BY DEF PolicyRequest
<1> HIDE DEF in
<1>2. AuthorizeTarget(in, Normalized(in)).allowed
  BY DEF Decision, Authorize, in
<1>3. Normalized(in).ok
  BY <1>2, AllowedTarget
<1>4. Normalized(in) = target
  BY <1>1, <1>3 DEF Normalized, Failure
<1>5. /\ target.ok /\ target.value.port \in {80, 443}
      /\ MatchesScope(in.scope, in.target.candidate)
      /\ in.targetCategory = "surface"
      /\ Resolved(in, target).ok
  BY <1>2, <1>4, AllowedTarget
<1>6. Within(Compiled(r.input).value, target)
  BY <1>1, <1>5 DEF MatchesScope
<1>7. target.value.host = Plain(CanonicalizeHost(url.host)) /\ ~IsForbiddenAddress(CanonicalizeHost(url.host))
  BY <1>5, TargetIs
<1>8. host = CanonicalizeHost(url.host) /\ target.value.host = Plain(host)
  BY <1>7 DEF Plain
<1>9. ASSUME IsName(host)
      PROVE  /\ addresses # <<>>
             /\ \A i \in DOMAIN addresses : IsIp(addresses[i]) /\ ~IsForbiddenAddress(addresses[i])
  <2> DEFINE again == CanonicalizeHost(target.value.host)
  <2>1. ~IsIp(again)
    BY <1>8, <1>9, ReadAgainIsNoIp
  <2>2. Resolved(in, target) = Checked(ResolvedCode(again, addresses),
                                       IF IsIp(again) THEN {again} ELSE ToSet(addresses))
    BY <1>1 DEF Resolved, ValidateResolvedAddresses, AddressesFor
  <2>3. ResolvedCode(again, addresses) = "ok"
    <3> HIDE DEF again, target
    <3>1. QED BY <1>5, <2>2, CheckedOk
  <2> HIDE DEF again
  <2>4. QED BY <2>1, <2>3, ResolvedOk
<1>10. Compiled(r.input).ok
  BY DEF CannotAsk
<1>11. QED BY <1>1, <1>5, <1>6, <1>7, <1>8, <1>9, <1>10 DEF Examinable

LEMMA PermittedIsExaminable ==
  ASSUME NEW r \in Drafts, NEW a \in Ids, NEW addresses, Permitted(r, a, addresses)
  PROVE  Examinable(r, addresses)
<1>1. PICK clock \in Clocks : Verdict[<<r, a, clock, addresses>>] = "allowed"
  BY DEF Permitted
<1>2. ~CannotAsk(r, a, clock) /\ Decision(r, a, clock, addresses).allowed
  <2>1. addresses \in Resolutions
    BY DEF Permitted
  <2>2. <<r, a, clock, addresses>> \in Questions
    BY <2>1 DEF Questions
  <2>3. Verdict[<<r, a, clock, addresses>>] =
          IF CannotAsk(r, a, clock) THEN "unavailable"
          ELSE IF Decision(r, a, clock, addresses).allowed THEN "allowed" ELSE "denied"
    BY <2>2 DEF Verdict
  <2>4. QED BY <1>1, <2>3
<1>3. Len(addresses) \in Nat /\ DOMAIN addresses = 1..Len(addresses)
  <2>1. addresses \in Seq(ToSet(addresses))
    BY ResolutionsAssumption DEF Permitted
  <2>2. QED BY <2>1
<1>4. QED BY <1>2, <1>3, AllowedIsExaminable

\* There is never a job that the policy forbids: its target is a web target on a
\* public host and port inside the scope that its author attested, and when the host
\* is a name, it resolved to some addresses and to none that is forbidden, for
\* whatever scopes, targets and addresses there are (authorize, normalizeExternalUrl
\* and validateResolvedAddresses, with authorizeQueue and queueAssessment).
THEOREM ApiJobsExaminable == Spec => []JobsAreExaminable
<1>1. ApiInv => JobsAreExaminable
  <2> SUFFICES ASSUME ApiInv, NEW a \in Ids, Status(row[a]) \in {"queued", "completed"}
               PROVE  Examinable(row[a], row[a].resolved)
    BY DEF JobsAreExaminable
  <2>1. row[a] \in Assessments /\ row[a].status # "draft" /\ RowOk(row[a], a)
    BY DEF ApiInv, TablesInv, RowsOk, Status
  <2>2. Permitted(Origin(row[a]), a, row[a].resolved)
    BY <2>1 DEF RowOk, Assessments, NoRow
  <2>3. Origin(row[a]) \in Drafts /\ Origin(row[a]).input = row[a].input
    BY <2>1 DEF Origin, Drafts, Assessments, Row
  <2>4. Examinable(Origin(row[a]), row[a].resolved)
    BY <2>2, <2>3, PermittedIsExaminable
  <2>5. QED BY <2>3, <2>4 DEF Examinable
<1>2. QED BY <1>1, ApiInvariant, PTL

-----------------------------------------------------------------------------
\* What the engine asks of everything else, for every request anyone could put to it
\* and not only those that the store makes.
LEMMA ThreeOk ==
  ASSUME NEW p1, NEW p2, NEW p3, NEW c1, NEW c2, NEW c3,
         p1 => c1 # "ok", p2 => c2 # "ok", p3 => c3 # "ok",
         FirstCode(<< <<p1, c1>>, <<p2, c2>>, <<p3, c3>> >>) = "ok"
  PROVE  ~p1 /\ ~p2 /\ ~p3
<1> DEFINE checks == << <<p1, c1>>, <<p2, c2>>, <<p3, c3>> >>
<1>1. DOMAIN checks = 1..3
  OBVIOUS
<1>2. /\ checks[1] = <<p1, c1>> /\ checks[2] = <<p2, c2>> /\ checks[3] = <<p3, c3>>
  OBVIOUS
<1>3. FirstCode(checks) = "ok"
  OBVIOUS
<1> HIDE DEF checks
<1>4. \A i \in 1..3 : Fails(checks, i) => checks[i][2] # "ok"
  BY <1>2 DEF Fails
<1>5. \A i \in 1..3 : ~Fails(checks, i)
  BY <1>1, <1>3, <1>4, FirstCodeOk
<1>6. QED BY <1>2, <1>5 DEF Fails

LEMMA FiveOk ==
  ASSUME NEW p1, NEW p2, NEW p3, NEW p4, NEW p5, NEW c1, NEW c2, NEW c3, NEW c4, NEW c5,
         p1 => c1 # "ok", p2 => c2 # "ok", p3 => c3 # "ok", p4 => c4 # "ok", p5 => c5 # "ok",
         FirstCode(<< <<p1, c1>>, <<p2, c2>>, <<p3, c3>>, <<p4, c4>>, <<p5, c5>> >>) = "ok"
  PROVE  ~p1 /\ ~p2 /\ ~p3 /\ ~p4 /\ ~p5
<1> DEFINE checks == << <<p1, c1>>, <<p2, c2>>, <<p3, c3>>, <<p4, c4>>, <<p5, c5>> >>
<1>1. DOMAIN checks = 1..5
  OBVIOUS
<1>2. /\ checks[1] = <<p1, c1>> /\ checks[2] = <<p2, c2>> /\ checks[3] = <<p3, c3>>
      /\ checks[4] = <<p4, c4>> /\ checks[5] = <<p5, c5>>
  OBVIOUS
<1>3. FirstCode(checks) = "ok"
  OBVIOUS
<1> HIDE DEF checks
<1>4. \A i \in 1..5 : Fails(checks, i) => checks[i][2] # "ok"
  BY <1>2 DEF Fails
<1>5. \A i \in 1..5 : ~Fails(checks, i)
  BY <1>1, <1>3, <1>4, FirstCodeOk
<1>6. QED BY <1>2, <1>5 DEF Fails

LEMMA SixOk ==
  ASSUME NEW p1, NEW p2, NEW p3, NEW p4, NEW p5, NEW p6, NEW c1, NEW c2, NEW c3, NEW c4, NEW c5,
         NEW c6,
         p1 => c1 # "ok", p2 => c2 # "ok", p3 => c3 # "ok", p4 => c4 # "ok", p5 => c5 # "ok",
         p6 => c6 # "ok",
         FirstCode(<< <<p1, c1>>, <<p2, c2>>, <<p3, c3>>, <<p4, c4>>, <<p5, c5>>,
                      <<p6, c6>> >>) = "ok"
  PROVE  ~p1 /\ ~p2 /\ ~p3 /\ ~p4 /\ ~p5 /\ ~p6
<1> DEFINE checks == << <<p1, c1>>, <<p2, c2>>, <<p3, c3>>, <<p4, c4>>, <<p5, c5>>, <<p6, c6>> >>
<1>1. DOMAIN checks = 1..6
  OBVIOUS
<1>2. /\ checks[1] = <<p1, c1>> /\ checks[2] = <<p2, c2>> /\ checks[3] = <<p3, c3>>
      /\ checks[4] = <<p4, c4>> /\ checks[5] = <<p5, c5>> /\ checks[6] = <<p6, c6>>
  OBVIOUS
<1>3. FirstCode(checks) = "ok"
  OBVIOUS
<1> HIDE DEF checks
<1>4. \A i \in 1..6 : Fails(checks, i) => checks[i][2] # "ok"
  BY <1>2 DEF Fails
<1>5. \A i \in 1..6 : ~Fails(checks, i)
  BY <1>1, <1>3, <1>4, FirstCodeOk
<1>6. QED BY <1>2, <1>5 DEF Fails

\* What was entitled was made for this account by the engine, is a plan from the
\* source that gives it, and has not expired.
LEMMA EntitlementOk ==
  ASSUME NEW e, NEW c, ParseEntitlement(e, c) = "ok"
  PROVE  /\ e.made /\ c.made /\ e.account = c.accountId
         /\ e.plan \in Plans /\ ~(e.grantedAt > c.evaluatedAt)
         /\ e.expiresAt = Never \/ ~(e.expiresAt <= c.evaluatedAt)
         /\ SourceFits(e) /\ (e.plan = "pro" => e.expiresAt # Never)
<1> DEFINE p1 == ~e.made \/ ~c.made \/ e.account # c.accountId
           p2 == e.plan \notin Plans \/ e.grantedAt > c.evaluatedAt
           p3 == e.expiresAt # Never /\ e.expiresAt <= c.evaluatedAt
           p4 == ~SourceFits(e) \/ (e.plan = "pro" /\ e.expiresAt = Never)
<1>1. FirstCode(<< <<p1, "invalid_entitlement">>, <<p2, "invalid_entitlement">>,
                   <<p3, "entitlement_expired">>, <<p4, "invalid_entitlement">> >>) = "ok"
  BY Zenon DEF ParseEntitlement
<1>2. ~p1 /\ ~p2 /\ ~p3 /\ ~p4
  <2> HIDE DEF p1, p2, p3, p4
  <2>1. QED BY <1>1, FourOk
<1>3. QED BY <1>2, Zenon

\* An accepted attestation is of this assessment, target and scope, and of this
\* user, and is not of the future.
LEMMA AttestationOk ==
  ASSUME NEW in, NEW n, NEW playbookOk, ParseAttestation(in, n, playbookOk) = "ok"
  PROVE  /\ in.attestation # NoFact
         /\ in.attestation.version = "terms@1"
         /\ in.attestation.playbook = "surface-public-posture@1.0.0"
         /\ in.context.made /\ n.ok /\ playbookOk
         /\ in.attestation.accountId = in.context.accountId
         /\ in.attestation.assessmentId = in.context.assessmentId
         /\ in.attestation.userId = in.context.userId
         /\ in.attestation.target = n.value
         /\ in.attestation.scopeFingerprint = in.context.scopeFingerprint
         /\ ~(in.attestation.acceptedAt > in.context.evaluatedAt)
<1> DEFINE f == in.attestation
           c == in.context
           p1 == \/ f.version # "terms@1" \/ f.playbook # "surface-public-posture@1.0.0"
                 \/ ~c.made \/ ~n.ok \/ ~playbookOk
           p2 == \/ f.accountId # c.accountId \/ f.assessmentId # c.assessmentId
                 \/ f.userId # c.userId \/ (n.ok /\ f.target # n.value)
                 \/ f.scopeFingerprint # c.scopeFingerprint
           p3 == f.acceptedAt > c.evaluatedAt
<1>1. /\ f # NoFact
      /\ FirstCode(<< <<p1, "invalid_attestation">>, <<p2, "attestation_context_mismatch">>,
                      <<p3, "invalid_attestation">> >>) = "ok"
  <2>1. f # NoFact
    BY DEF ParseAttestation
  <2>2. ParseAttestation(in, n, playbookOk) =
          FirstCode(<< <<p1, "invalid_attestation">>, <<p2, "attestation_context_mismatch">>,
                       <<p3, "invalid_attestation">> >>)
    BY <2>1, Zenon DEF ParseAttestation
  <2>3. QED BY <2>1, <2>2, Zenon
<1>2. ~p1 /\ ~p2 /\ ~p3
  <2> HIDE DEF p1, p2, p3
  <2>1. QED BY <1>1, ThreeOk
<1>3. QED BY <1>1, <1>2, Zenon

\* A verification that is found valid proves the target's origin over HTTP, for
\* this assessment and scope, and is neither of the future nor expired.
LEMMA VerificationOk ==
  ASSUME NEW in, NEW n, ParseVerification(in, n) = "ok"
  PROVE  /\ in.verification # NoFact
         /\ in.verification.method = "http_file" /\ in.verification.status = "verified"
         /\ in.context.made /\ n.ok
         /\ in.verification.accountId = in.context.accountId
         /\ in.verification.assessmentId = in.context.assessmentId
         /\ in.verification.scopeFingerprint = in.context.scopeFingerprint
         /\ in.verification.targetOrigin = TargetOrigin(n.value)
         /\ ~(in.verification.verifiedAt > in.context.evaluatedAt)
         /\ ~(in.verification.expiresAt <= in.context.evaluatedAt)
<1> DEFINE f == in.verification
           c == in.context
           p1 == f.method = "dns_txt"
           p2 == \/ f.method # "http_file" \/ f.status \notin {"pending", "verified", "expired"}
                 \/ ~c.made \/ ~n.ok
           p3 == \/ f.accountId # c.accountId \/ f.assessmentId # c.assessmentId
                 \/ f.scopeFingerprint # c.scopeFingerprint
                 \/ (n.ok /\ f.targetOrigin # TargetOrigin(n.value))
           p4 == f.verifiedAt > c.evaluatedAt
           p5 == \/ f.expiresAt <= c.evaluatedAt \/ f.expiresAt <= f.verifiedAt
                 \/ f.status = "expired"
           p6 == f.status # "verified"
<1>1. /\ f # NoFact
      /\ FirstCode(<< <<p1, "method_not_allowed">>, <<p2, "invalid">>, <<p3, "mismatch">>,
                      <<p4, "unverified">>, <<p5, "expired">>, <<p6, "unverified">> >>) = "ok"
  <2>1. f # NoFact
    BY DEF ParseVerification
  <2>2. ParseVerification(in, n) =
          FirstCode(<< <<p1, "method_not_allowed">>, <<p2, "invalid">>, <<p3, "mismatch">>,
                       <<p4, "unverified">>, <<p5, "expired">>, <<p6, "unverified">> >>)
    BY <2>1, Zenon DEF ParseVerification
  <2>3. QED BY <2>1, <2>2, Zenon
<1>2. ~p1 /\ ~p2 /\ ~p3 /\ ~p4 /\ ~p5 /\ ~p6
  <2> HIDE DEF p1, p2, p3, p4, p5, p6
  <2>1. QED BY <1>1, SixOk
<1>3. QED BY <1>1, <1>2, Zenon

LEMMA FirstCodeValue ==
  ASSUME NEW n \in Nat, NEW checks, DOMAIN checks = 1..n
  PROVE  FirstCode(checks) = "ok" \/ \E i \in 1..n : FirstCode(checks) = checks[i][2]
<1> SUFFICES ASSUME \E i \in 1..n : Fails(checks, i)
             PROVE  \E i \in 1..n : FirstCode(checks) = checks[i][2]
  BY DEF FirstCode
<1> DEFINE S == {i \in 1..n : Fails(checks, i)}
<1>1. PICK i \in S : \A j \in 1..(i - 1) : j \notin S
  <2>1. S \subseteq 1..n /\ S # {}
    OBVIOUS
  <2>2. QED BY <2>1, LeastIndex
<1>2. /\ i \in DOMAIN checks /\ Fails(checks, i)
      /\ \A j \in 1..(i - 1) : ~Fails(checks, j)
  BY <1>1
<1> DEFINE k == CHOOSE m \in DOMAIN checks : /\ Fails(checks, m)
                                            /\ \A j \in 1..(m - 1) : ~Fails(checks, j)
<1>3. k \in DOMAIN checks
  BY <1>2
<1>4. FirstCode(checks) = checks[k][2]
  BY <1>2 DEF FirstCode
<1>5. QED BY <1>3, <1>4

\* Whatever was presented, the state of a verification is one of these.
LEMMA VerificationState ==
  ASSUME NEW in, NEW n
  PROVE  ParseVerification(in, n) \in {"none", "method_not_allowed", "invalid", "mismatch",
                                       "unverified", "expired", "ok"}
<1> DEFINE f == in.verification
           c == in.context
           p1 == f.method = "dns_txt"
           p2 == \/ f.method # "http_file" \/ f.status \notin {"pending", "verified", "expired"}
                 \/ ~c.made \/ ~n.ok
           p3 == \/ f.accountId # c.accountId \/ f.assessmentId # c.assessmentId
                 \/ f.scopeFingerprint # c.scopeFingerprint
                 \/ (n.ok /\ f.targetOrigin # TargetOrigin(n.value))
           p4 == f.verifiedAt > c.evaluatedAt
           p5 == \/ f.expiresAt <= c.evaluatedAt \/ f.expiresAt <= f.verifiedAt
                 \/ f.status = "expired"
           p6 == f.status # "verified"
           checks == << <<p1, "method_not_allowed">>, <<p2, "invalid">>, <<p3, "mismatch">>,
                        <<p4, "unverified">>, <<p5, "expired">>, <<p6, "unverified">> >>
<1>1. f = NoFact => ParseVerification(in, n) = "none"
  BY DEF ParseVerification
<1>2. f # NoFact => ParseVerification(in, n) = FirstCode(checks)
  BY Zenon DEF ParseVerification
<1>3. /\ DOMAIN checks = 1..6
      /\ \A i \in 1..6 : checks[i][2] \in {"method_not_allowed", "invalid", "mismatch",
                                           "unverified", "expired"}
  <2> HIDE DEF p1, p2, p3, p4, p5, p6
  <2>1. QED OBVIOUS
<1> HIDE DEF checks
<1>4. FirstCode(checks) \in {"method_not_allowed", "invalid", "mismatch", "unverified",
                             "expired", "ok"}
  BY <1>3, FirstCodeValue
<1>5. QED BY <1>1, <1>2, <1>4

\* The four authorities gave complete ceilings, and what was asked is one too.
LEMMA LimitsOk ==
  ASSUME NEW input, LimitCode(input) = "ok"
  PROVE  /\ Authorities \subseteq DOMAIN input.sources
         /\ \A a \in Authorities : ValidCeiling(input.sources[a])
         /\ input.egress = "scope_target"
         /\ \A r \in input.requested : ValidRequested(r)
<1> DEFINE p1 == ~(Authorities \subseteq DOMAIN input.sources)
           p2 == Invalid(input, "playbook")
           p3 == input.egress # "scope_target"
           p4 == \E a \in Authorities : Invalid(input, a)
           p5 == \E r \in input.requested : ~ValidRequested(r)
<1>1. FirstCode(<< <<p1, "missing_authoritative_limit">>, <<p2, "invalid_authoritative_limit">>,
                   <<p3, "invalid_egress">>, <<p4, "invalid_authoritative_limit">>,
                   <<p5, "invalid_requested_limit">> >>) = "ok"
  BY Zenon DEF LimitCode
<1>2. ~p1 /\ ~p2 /\ ~p3 /\ ~p4 /\ ~p5
  <2> HIDE DEF p1, p2, p3, p4, p5
  <2>1. QED BY <1>1, FiveOk
<1>3. QED BY <1>2 DEF Invalid

\* The least of some positive numbers is one of them and exceeds none.
LEMMA MinOfPositive ==
  ASSUME NEW S, S \subseteq Positive, S # {}
  PROVE  Min(S) \in S /\ \A x \in S : Min(S) <= x
<1>1. MaxSafeInteger \in Nat
  BY MaxSafeAssumption
<1>2. S \subseteq 1..MaxSafeInteger
  BY DEF Positive
<1>3. PICK i \in S : \A j \in 1..(i - 1) : j \notin S
  BY <1>1, <1>2, LeastIndex
<1>4. \A x \in S : i <= x
  BY <1>1, <1>2, <1>3
<1>5. QED BY <1>3, <1>4 DEF Min

\* Each reduced limit is a positive number that exceeds neither an authority's
\* ceiling nor the requested one.
LEMMA ReducedOk ==
  ASSUME NEW input, ReduceLimits(input).ok, NEW k \in CeilingKeys
  PROVE  /\ ReduceLimits(input).value[k] \in Positive
         /\ \A a \in Authorities : /\ input.sources[a][k] \in Positive
                                   /\ ReduceLimits(input).value[k] <= input.sources[a][k]
         /\ \A r \in input.requested :
              k \in DOMAIN r => /\ r[k] \in Positive
                                /\ ReduceLimits(input).value[k] <= r[k]
<1> DEFINE given == {input.sources[a][k] : a \in Authorities}
           wanted == {r[k] : r \in {q \in input.requested : k \in DOMAIN q}}
<1>1. /\ LimitCode(input) = "ok"
      /\ ReduceLimits(input).value = [m \in CeilingKeys |-> MinFor(m, input)]
  BY CheckedOk, Zenon DEF ReduceLimits
<1>2. ReduceLimits(input).value[k] = Min(given \cup wanted)
  BY <1>1 DEF MinFor
<1>3. \A a \in Authorities : input.sources[a][k] \in Positive
  BY <1>1, LimitsOk DEF ValidCeiling
<1>4. \A r \in input.requested : k \in DOMAIN r => r[k] \in Positive
  BY <1>1, LimitsOk DEF ValidRequested
<1>5. given \cup wanted \subseteq Positive /\ given \cup wanted # {}
  BY <1>3, <1>4 DEF Authorities
<1>6. /\ Min(given \cup wanted) \in given \cup wanted
      /\ \A x \in given \cup wanted : Min(given \cup wanted) <= x
  <2> HIDE DEF given, wanted
  <2>1. QED BY <1>5, MinOfPositive
<1>7. \A a \in Authorities : input.sources[a][k] \in given
  OBVIOUS
<1>8. \A r \in input.requested : k \in DOMAIN r => r[k] \in wanted
  OBVIOUS
<1> HIDE DEF given, wanted
<1>9. QED BY <1>2, <1>3, <1>4, <1>5, <1>6, <1>7, <1>8

LEMMA ActionOk ==
  ASSUME NEW action, NEW i, ActionCode(action, i) = "ok"
  PROVE  action = CanonicalActions[i]
<1> DEFINE p1 == action.id \notin ActionIds
           p2 == action.id # CanonicalActions[i].id
           p3 == action.type # CanonicalActions[i].type
           p4 == action.allowedTargets # "scope"
           p5 == action # CanonicalActions[i]
<1>1. FirstCode(<< <<p1, "unknown_playbook_action">>, <<p2, "invalid_playbook">>,
                   <<p3, "unknown_playbook_action">>, <<p4, "target_category_not_allowed">>,
                   <<p5, "invalid_playbook">> >>) = "ok"
  BY Zenon DEF ActionCode
<1>2. ~p5
  <2> HIDE DEF p1, p2, p3, p4, p5
  <2>1. QED BY <1>1, FiveOk
<1>3. QED BY <1>2

\* Only the published playbook is accepted, to the letter.
LEMMA PlaybookOk ==
  ASSUME NEW playbook, NEW category, ParsePlaybook(playbook, category) = "ok"
  PROVE  /\ playbook.identity = "surface-public-posture@1.0.0" /\ playbook.active
         /\ playbook.targetCategory = category
         /\ Len(playbook.actions) = 6
         /\ \A i \in 1..6 : playbook.actions[i] = CanonicalActions[i]
         /\ playbook.limits = CanonicalLimits /\ playbook.rest = CanonicalRest
<1> DEFINE codes == ActionCodes(playbook.actions)
           c4 == FirstFault(codes)
           p1 == playbook.targetCategory # category
           p2 == playbook.identity # "surface-public-posture@1.0.0" \/ ~playbook.active
           p3 == playbook.rest.preconditions # CanonicalRest.preconditions
           p4 == c4 # "ok"
           p5 == playbook.limits # CanonicalLimits \/ playbook.rest # CanonicalRest
<1>1. FirstCode(<< <<p1, "target_category_mismatch">>, <<p2, "invalid_playbook">>,
                   <<p3, "invalid_playbook">>, <<p4, c4>>, <<p5, "invalid_playbook">> >>) = "ok"
  <2>1. playbook # NoFact
    BY DEF ParsePlaybook
  <2>2. ParsePlaybook(playbook, category) =
          FirstCode(<< <<p1, "target_category_mismatch">>, <<p2, "invalid_playbook">>,
                       <<p3, "invalid_playbook">>, <<p4, c4>>, <<p5, "invalid_playbook">> >>)
    BY <2>1, Zenon DEF ParsePlaybook, CheckOf
  <2>3. QED BY <2>2, Zenon
<1>2. p4 => c4 # "ok"
  OBVIOUS
<1>3. ~p1 /\ ~p2 /\ ~p3 /\ ~p4 /\ ~p5
  <2> HIDE DEF p1, p2, p3, p4, p5, c4
  <2>1. QED BY <1>1, <1>2, FiveOk
<1>4. FirstFault(codes) = "ok"
  BY <1>3
<1>5. Len(playbook.actions) = 6
  <2> SUFFICES ASSUME Len(playbook.actions) # 6
               PROVE  FALSE
    OBVIOUS
  <2>1. codes = <<"invalid_playbook">>
    BY DEF ActionCodes
  <2>2. DOMAIN codes = 1..1 /\ codes[1] = "invalid_playbook"
    BY <2>1
  <2> HIDE DEF codes
  <2>3. \A i \in 1..1 : codes[i] = "ok"
    <3>1. 1 \in Nat
      OBVIOUS
    <3>2. QED BY <1>4, <2>2, <3>1, FirstFaultOk
  <2>4. QED BY <2>2, <2>3
<1>6. \A i \in 1..6 : playbook.actions[i] = CanonicalActions[i]
  <2>1. DOMAIN codes = 1..6 /\ \A i \in 1..6 : codes[i] = ActionCode(playbook.actions[i], i)
    BY <1>5 DEF ActionCodes
  <2> HIDE DEF codes
  <2>2. \A i \in 1..6 : codes[i] = "ok"
    BY <1>4, <2>1, FirstFaultOk
  <2>3. QED BY <2>1, <2>2, ActionOk
<1>7. QED BY <1>3, <1>5, <1>6

LEMMA NoCodes ==
  ASSUME NEW code, Codes(code) = {}
  PROVE  code = "ok"
BY DEF Codes

LEMMA AllowedPlan ==
  ASSUME NEW in, NEW n, AuthorizeTarget(in, n).allowed
  PROVE  /\ ParseEntitlement(in.entitlement, in.context) = "ok"
         /\ in.action = "active_external" => in.entitlement.plan # "free_unverified"
<1> DEFINE code == ParseEntitlement(in.entitlement, in.context)
           active == in.action = "active_external" /\ code = "ok"
                       /\ in.entitlement.plan = "free_unverified"
<1>1. PlanBlocksFor(in, code) = {}
  BY AllowedHasNoCode DEF PlanBlocks
<1>2. Codes(code) = {} /\ When(active, "plan_action_not_allowed") = {}
  <2> HIDE DEF code
  <2>1. QED BY <1>1 DEF PlanBlocksFor
<1>3. code = "ok"
  BY <1>2, NoCodes
<1>4. ~active
  <2> HIDE DEF active
  <2>1. QED BY <1>2, NoCode
<1>5. QED BY <1>3, <1>4

\* Nothing is allowed without a plan of the account itself: one that the engine
\* made, from the source that gives it, granted by now and not expired
\* (parseEntitlement in authorize).
THEOREM AllowedIsEntitled ==
  ASSUME NEW in, Authorize(in).allowed
  PROVE  /\ in.entitlement.made /\ in.context.made
         /\ in.entitlement.account = in.context.accountId
         /\ in.entitlement.plan \in Plans /\ SourceFits(in.entitlement)
         /\ ~(in.entitlement.grantedAt > in.context.evaluatedAt)
         /\ \/ in.entitlement.expiresAt = Never
            \/ ~(in.entitlement.expiresAt <= in.context.evaluatedAt)
         /\ in.entitlement.plan = "pro" => in.entitlement.expiresAt # Never
<1>1. AuthorizeTarget(in, Normalized(in)).allowed
  BY DEF Authorize
<1>2. ParseEntitlement(in.entitlement, in.context) = "ok"
  BY <1>1, AllowedPlan
<1>3. QED BY <1>2, EntitlementOk

LEMMA AllowedPlaybook ==
  ASSUME NEW in, NEW n, AuthorizeTarget(in, n).allowed
  PROVE  /\ ParsePlaybook(in.playbook, in.targetCategory) = "ok"
         /\ ParseAttestation(in, n, TRUE) = "ok"
<1> DEFINE code == ParsePlaybook(in.playbook, in.targetCategory)
<1>1. PlaybookBlocks(in, n, code) = {}
  BY AllowedHasNoCode
<1>2. Codes(code) = {} /\ Codes(ParseAttestation(in, n, code = "ok")) = {}
  <2> HIDE DEF code
  <2>1. QED BY <1>1 DEF PlaybookBlocks
<1>3. code = "ok" /\ ParseAttestation(in, n, code = "ok") = "ok"
  <2> HIDE DEF code
  <2>1. QED BY <1>2, NoCodes
<1>4. (code = "ok") = TRUE
  BY <1>3
<1> HIDE DEF code
<1>5. QED BY <1>3, <1>4 DEF code

\* Nothing is allowed that was not attested: the user of the request accepted the
\* terms in force, for this account, assessment, playbook, target and scope, and not
\* in the future; and the scope is the one its context was made with
\* (parseAttestation and the scope fingerprint in authorize).
THEOREM AllowedIsAttested ==
  ASSUME NEW in, Authorize(in).allowed
  PROVE  /\ in.attestation # NoFact /\ in.attestation.version = "terms@1"
         /\ in.attestation.playbook = "surface-public-posture@1.0.0"
         /\ in.attestation.accountId = in.context.accountId
         /\ in.attestation.assessmentId = in.context.assessmentId
         /\ in.attestation.userId = in.context.userId
         /\ in.attestation.target = NormalizeExternalUrl(in.target.candidate).value
         /\ ~(in.attestation.acceptedAt > in.context.evaluatedAt)
         /\ in.scope # NoFact
         /\ in.attestation.scopeFingerprint = in.context.scopeFingerprint
         /\ in.context.scopeFingerprint = FingerprintScope(in.scope)
<1> DEFINE n == Normalized(in)
<1>1. AuthorizeTarget(in, n).allowed
  BY DEF Authorize
<1>2. ParseAttestation(in, n, TRUE) = "ok"
  BY <1>1, AllowedPlaybook
<1>3. n.ok /\ in.context.made /\ in.attestation.target = n.value
  <2> HIDE DEF n
  <2>1. QED BY <1>2, AttestationOk
<1>4. n = NormalizeExternalUrl(in.target.candidate)
  BY <1>3 DEF Normalized, Failure
<1>5. ScopeBlocks(in, n) = {}
  <2> HIDE DEF n
  <2>1. QED BY <1>1, AllowedHasNoCode
<1> HIDE DEF n
<1>6. in.scope # NoFact
  BY <1>5 DEF ScopeBlocks
<1> DEFINE other == in.context.made /\ FingerprintScope(in.scope) # in.context.scopeFingerprint
<1>7. When(other, "invalid_context") = {}
  <2> HIDE DEF other
  <2>1. QED BY <1>5, <1>6 DEF ScopeBlocks, other
<1>8. ~other
  <2> HIDE DEF other
  <2>1. QED BY <1>7, NoCode
<1>9. QED BY <1>2, <1>3, <1>4, <1>6, <1>8, AttestationOk

\* An active examination is never allowed on an unproved target: its plan is a
\* verified one, and the target's own origin was proved over HTTP, for this account,
\* assessment and scope, by now and not too long ago (parseVerification and
\* assessmentPlan in authorize).
THEOREM AllowedActiveIsVerified ==
  ASSUME NEW in, Authorize(in).allowed, in.action = "active_external"
  PROVE  /\ in.entitlement.plan \in {"free_verified", "pro", "lifetime"}
         /\ in.verification # NoFact
         /\ in.verification.method = "http_file" /\ in.verification.status = "verified"
         /\ in.verification.accountId = in.context.accountId
         /\ in.verification.assessmentId = in.context.assessmentId
         /\ in.verification.scopeFingerprint = in.context.scopeFingerprint
         /\ in.verification.targetOrigin =
              TargetOrigin(NormalizeExternalUrl(in.target.candidate).value)
         /\ ~(in.verification.verifiedAt > in.context.evaluatedAt)
         /\ ~(in.verification.expiresAt <= in.context.evaluatedAt)
<1> DEFINE n == Normalized(in)
           state == ParseVerification(in, n)
<1>1. AuthorizeTarget(in, n).allowed
  BY DEF Authorize
<1>2. VerificationBlocks(state, TRUE) = {}
  <2> HIDE DEF n
  <2>1. (in.action = "active_external") = TRUE
    OBVIOUS
  <2>2. QED BY <1>1, <2>1, AllowedHasNoCode
<1>3. state \in {"none", "method_not_allowed", "invalid", "mismatch", "unverified", "expired",
                 "ok"}
  <2> HIDE DEF n
  <2>1. QED BY VerificationState
<1>4. state = "ok"
  <2> HIDE DEF state
  <2>1. QED BY <1>2, <1>3 DEF VerificationBlocks, When
<1>5. n.ok
  <2> HIDE DEF n
  <2>1. QED BY <1>4, VerificationOk
<1>6. n = NormalizeExternalUrl(in.target.candidate)
  BY <1>5 DEF Normalized, Failure
<1>7. /\ ParseEntitlement(in.entitlement, in.context) = "ok"
      /\ in.entitlement.plan # "free_unverified"
  <2> HIDE DEF n
  <2>1. QED BY <1>1, AllowedPlan
<1>8. in.entitlement.plan \in {"free_verified", "pro", "lifetime"}
  BY <1>7, EntitlementOk DEF Plans
<1> HIDE DEF n
<1>9. QED BY <1>4, <1>6, <1>8, VerificationOk

LEMMA SmallerIs ==
  ASSUME NEW a \in Nat, NEW b \in Nat
  PROVE  Smaller(a, b) \in {a, b} /\ Smaller(a, b) <= a /\ Smaller(a, b) <= b
BY DEF Smaller

LEMMA AllowedDecision ==
  ASSUME NEW in, NEW n, AuthorizeTarget(in, n).allowed
  PROVE  /\ ReduceLimits(in.limits).ok
         /\ AuthorizeTarget(in, n).limits = EffectiveLimits(in, ReduceLimits(in.limits).value)
         /\ AuthorizeTarget(in, n).actions = EffectiveActions(AuthorizeTarget(in, n).limits)
<1>1. Blocked(in, n) = {} /\ LimitBlocks(in) = {}
  BY AllowedHasNoCode
<1>2. ReduceLimits(in.limits).ok
  BY <1>1 DEF LimitBlocks, LimitBlocksFor
<1>3. AuthorizeTarget(in, n) = Allowed(in, n, EffectiveLimits(in, ReduceLimits(in.limits).value))
  BY <1>1 DEF AuthorizeTarget, DecisionFor
<1>4. QED BY <1>2, <1>3 DEF Allowed

\* The part of EffectiveLimits that is the engine's own.
CeilingOfEngine(in, k) ==
  IF k = "credits" THEN RightsForPlan(in.entitlement.plan).maxCredits ELSE CanonicalLimits[k]

LEMMA EngineCeiling ==
  ASSUME NEW in, in.entitlement.plan \in Plans, NEW k \in CeilingKeys
  PROVE  CeilingOfEngine(in, k) \in Nat \ {0}
<1>1. CASE k = "credits"
  BY <1>1 DEF CeilingOfEngine, RightsForPlan, Plans
<1>2. CASE k # "credits"
  BY <1>2 DEF CeilingOfEngine, CanonicalLimits, CeilingKeys
<1>3. QED BY <1>1, <1>2

\* No budget is ever widened: each limit that is granted is a positive number within
\* the ceiling of every authority, within what was asked, and within what the
\* playbook and the plan give (reduceLimits and effectiveLimits in authorize).
THEOREM AllowedWithinCeilings ==
  ASSUME NEW in, Authorize(in).allowed, NEW k \in CeilingKeys
  PROVE  LET limit == Authorize(in).limits[k]
         IN /\ limit \in Nat \ {0}
            /\ \A a \in Authorities : limit <= in.limits.sources[a][k]
            /\ \A r \in in.limits.requested : k \in DOMAIN r => limit <= r[k]
            /\ limit <= CeilingOfEngine(in, k)
<1> DEFINE reduced == ReduceLimits(in.limits).value
           limit == Authorize(in).limits[k]
<1>1. AuthorizeTarget(in, Normalized(in)).allowed
  BY DEF Authorize
<1>2. ReduceLimits(in.limits).ok /\ Authorize(in).limits = EffectiveLimits(in, reduced)
  BY <1>1, AllowedDecision DEF Authorize
<1>3. limit = Smaller(reduced[k], CeilingOfEngine(in, k))
  BY <1>2 DEF EffectiveLimits, CeilingOfEngine
<1>4. /\ reduced[k] \in Positive
      /\ \A a \in Authorities : /\ in.limits.sources[a][k] \in Positive
                                /\ reduced[k] <= in.limits.sources[a][k]
      /\ \A r \in in.limits.requested :
           k \in DOMAIN r => r[k] \in Positive /\ reduced[k] <= r[k]
  BY <1>2, ReducedOk
<1>5. CeilingOfEngine(in, k) \in Nat \ {0}
  <2>1. in.entitlement.plan \in Plans
    BY AllowedIsEntitled
  <2>2. QED BY <2>1, EngineCeiling
<1>6. Positive \subseteq Nat \ {0}
  BY MaxSafeAssumption DEF Positive
<1>7. /\ limit \in {reduced[k], CeilingOfEngine(in, k)}
      /\ limit <= reduced[k] /\ limit <= CeilingOfEngine(in, k)
  <2> HIDE DEF limit, reduced
  <2>1. QED BY <1>3, <1>4, <1>5, <1>6, SmallerIs
<1> HIDE DEF limit, reduced
<1>8. limit \in Nat \ {0}
  BY <1>4, <1>5, <1>6, <1>7
<1>9. \A x \in Positive : reduced[k] <= x => limit <= x
  <2>1. limit \in Nat /\ reduced[k] \in Nat /\ limit <= reduced[k]
    BY <1>4, <1>6, <1>7, <1>8
  <2>2. \A l, m, x \in Nat : l <= m /\ m <= x => l <= x
    OBVIOUS
  <2>3. QED BY <1>6, <2>1, <2>2
<1>10. /\ \A a \in Authorities : limit <= in.limits.sources[a][k]
       /\ \A r \in in.limits.requested : k \in DOMAIN r => limit <= r[k]
  BY <1>4, <1>9
<1>11. QED BY <1>7, <1>8, <1>10 DEF limit

\* An allowed request runs the published playbook and nothing else, each of its
\* actions within its own limit and within what was granted; and it names no action
\* of its own (parsePlaybook, effectiveActions and the execution fields in
\* authorize).
THEOREM AllowedRunsPlaybook ==
  ASSUME NEW in, Authorize(in).allowed
  PROVE  /\ in.playbook.identity = "surface-public-posture@1.0.0"
         /\ {"actions", "capabilities", "commands"} \cap in.extra = {}
         /\ \A i \in 1..6 :
              LET action == Authorize(in).actions[i]
              IN /\ in.playbook.actions[i] = CanonicalActions[i]
                 /\ action = [CanonicalActions[i] EXCEPT !.limit = action.limit]
                 /\ action.limit.requests <= CanonicalActions[i].limit.requests
                 /\ action.limit.requests <= Authorize(in).limits["ratePerMin"]
                 /\ action.limit.durationS <= CanonicalActions[i].limit.durationS
                 /\ action.limit.durationS <= Authorize(in).limits["durationS"]
<1> DEFINE n == Normalized(in)
           limits == Authorize(in).limits
           own == {"actions", "capabilities", "commands"} \cap in.extra # {}
<1>1. AuthorizeTarget(in, n).allowed
  BY DEF Authorize
<1>2. ParsePlaybook(in.playbook, in.targetCategory) = "ok"
  BY <1>1, AllowedPlaybook
<1>3. /\ in.playbook.identity = "surface-public-posture@1.0.0"
      /\ \A i \in 1..6 : in.playbook.actions[i] = CanonicalActions[i]
  BY <1>2, PlaybookOk
<1>4. ~own
  <2>1. ExecutionBlocks(in) = {}
    BY <1>1, AllowedHasNoCode
  <2>2. When(own, "caller_execution_fields_not_allowed") = {}
    BY <2>1, Zenon DEF ExecutionBlocks
  <2> HIDE DEF own
  <2>3. QED BY <2>2, NoCode
<1>5. Authorize(in).actions = EffectiveActions(limits)
  BY <1>1, AllowedDecision DEF Authorize
<1>6. limits["ratePerMin"] \in Nat /\ limits["durationS"] \in Nat
  <2>1. "ratePerMin" \in CeilingKeys /\ "durationS" \in CeilingKeys
    BY DEF CeilingKeys
  <2>2. QED BY <2>1, AllowedWithinCeilings
<1>7. ASSUME NEW i \in 1..6
      PROVE  LET action == Authorize(in).actions[i]
             IN /\ action = [CanonicalActions[i] EXCEPT !.limit = action.limit]
                /\ action.limit.requests <= CanonicalActions[i].limit.requests
                /\ action.limit.requests <= limits["ratePerMin"]
                /\ action.limit.durationS <= CanonicalActions[i].limit.durationS
                /\ action.limit.durationS <= limits["durationS"]
  <2> DEFINE own6 == CanonicalActions[i]
             requests == Smaller(own6.limit.requests, limits["ratePerMin"])
             durationS == Smaller(own6.limit.durationS, limits["durationS"])
             action == Authorize(in).actions[i]
  <2>1. action = [own6 EXCEPT !.limit = [requests |-> requests, durationS |-> durationS]]
    <3> HIDE DEF limits
    <3>1. QED BY <1>5, Zenon DEF EffectiveActions
  <2>2. /\ DOMAIN own6 = {"id", "type", "allowedTargets", "method", "limit"}
        /\ own6.limit.requests \in Nat /\ own6.limit.durationS \in Nat
    BY DEF CanonicalActions, CanonicalAction
  <2> HIDE DEF own6, limits
  <2>3. /\ requests <= own6.limit.requests /\ requests <= limits["ratePerMin"]
        /\ durationS <= own6.limit.durationS /\ durationS <= limits["durationS"]
    BY <1>6, <2>2, SmallerIs
  <2> HIDE DEF requests, durationS, action
  <2>4. action.limit = [requests |-> requests, durationS |-> durationS]
    BY <2>1, <2>2
  <2>5. action = [own6 EXCEPT !.limit = action.limit]
    BY <2>1, <2>4
  <2>6. action.limit.requests = requests /\ action.limit.durationS = durationS
    BY <2>4
  <2>7. QED BY <2>3, <2>5, <2>6 DEF action, own6
<1>8. QED BY <1>3, <1>4, <1>7
=============================================================================
