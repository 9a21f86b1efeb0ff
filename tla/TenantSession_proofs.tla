------------------------ MODULE TenantSession_proofs ------------------------
(***************************************************************************)
(* What withTenant promises for any number of calls, connections and       *)
(* tenants, whatever the catalogs hold and whatever fails, with proofs.    *)
(***************************************************************************)
EXTENDS TenantSession, TLAPS

-----------------------------------------------------------------------------
\* The inductive invariant.

\* A connection that carries nothing of a call.
Clean(k) == tx[k] = "none" /\ tenant[k] = NoTenant /\ role[k] = Login

Without == {"idle", "reserve"}

\* What the connection of a call is set to, by the next statement of the call.
Prepared(c) ==
  /\ At(c, "inspect") => role[on[c]] = Login
  /\ At(c, "bind") => role[on[c]] = Login
  /\ At(c, "switch") => tenant[on[c]] = account[c]
  /\ stage[c] \in {"recheck", "callback"} => tenant[on[c]] = account[c] /\ role[on[c]] = "api_rls"

\* The login was inspected before anything was bound to it.
Inspected(c) ==
  stage[c] \in {"bind", "switch", "recheck", "callback"} =>
    ConnectorReasons(catalog, Login, Login, "api_rls") = {}

Serving(c) ==
  /\ on[c] \in Connections
  /\ holder[on[c]] = c
  /\ stage[c] \in InTransaction => tx[on[c]] = "open" /\ alive[on[c]]
  /\ stage[c] \in {"begin", "discard", "release"} => Clean(on[c])
  /\ At(c, "rollback") /\ ~alive[on[c]] => Clean(on[c])
  /\ Prepared(c)

CallOk(c) ==
  /\ stage[c] \in Without => on[c] = NoConnection
  /\ stage[c] \notin Without => Serving(c)
  /\ Inspected(c)

\* A connection is free and clean, or the call that holds it knows.
ConnectionOk(k) ==
  /\ holder[k] = Nobody => Clean(k)
  /\ holder[k] # Nobody => on[holder[k]] = k

SessionInv ==
  /\ TypeOKSession
  /\ \A c \in Calls : CallOk(c)
  /\ \A k \in Connections : ConnectionOk(k)

\* The invariant says all that TenantBound says.
LEMMA InvBound == SessionInv => TenantBound
<1> SUFFICES ASSUME SessionInv PROVE TenantBound
  OBVIOUS
<1>1. CallbackBound
  BY DEF SessionInv, CallOk, Serving, Prepared, CallbackBound, At, Without, InTransaction, Setup
<1>2. FreeIsClean
  BY DEF SessionInv, ConnectionOk, Clean, FreeIsClean
<1>3. NotShared
  BY DEF SessionInv, CallOk, Serving, NotShared, TypeOKSession
<1>4. QED BY <1>1, <1>2, <1>3 DEF TenantBound

-----------------------------------------------------------------------------
\* Steps.  A step of one call changes no more than the call's own variables and
\* its own connection, so it is enough to look at these.

LEMMA InitHolds == InitSession => SessionInv
BY FaultsAssumption
DEF InitSession, SessionInv, TypeOKSession, CallOk, ConnectionOk, Serving, Clean, Without,
    Inspected, Stages, Outcomes, At

\* What a call that keeps its connection leaves alone.
Local(c) ==
  /\ UNCHANGED << catalog, holder, on, account >>
  /\ stage'[c] \notin Without
  /\ \A d \in Calls \ {c} : stage'[d] = stage[d]
  /\ \A k \in Connections \ {on[c]} :
       alive'[k] = alive[k] /\ tx'[k] = tx[k] /\ tenant'[k] = tenant[k] /\ role'[k] = role[k]

LEMMA LocalStep ==
  ASSUME SessionInv, NEW c \in Calls, stage[c] \notin Without,
         Local(c), TypeOKSession', Serving(c)', Inspected(c)'
  PROVE  SessionInv'
<1>1. ASSUME NEW d \in Calls PROVE CallOk(d)'
  <2>1. CASE d = c
    BY <2>1 DEF CallOk, Local
  <2>2. CASE d # c /\ stage[d] \in Without
    BY <2>2 DEF CallOk, Local, SessionInv, Inspected, Without
  <2>3. CASE d # c /\ stage[d] \notin Without
    <3>1. Serving(d) /\ Serving(c) /\ Inspected(d)
      BY <2>3 DEF SessionInv, CallOk
    <3>2. on[d] # on[c]
      BY <3>1, <2>3 DEF Serving
    <3>3. Serving(d)'
      BY <3>1, <3>2, <2>3 DEF Serving, Prepared, Clean, Local, At
    <3>4. Inspected(d)'
      BY <3>1, <2>3 DEF Inspected, Local
    <3>5. QED BY <3>3, <3>4, <2>3 DEF CallOk, Local
  <2>4. QED BY <2>1, <2>2, <2>3
<1>2. ASSUME NEW k \in Connections PROVE ConnectionOk(k)'
  <2>1. Serving(c)
    BY DEF SessionInv, CallOk
  <2>2. CASE k = on[c]
    BY <2>1, <2>2, CallsAssumption DEF ConnectionOk, Serving, Local
  <2>3. CASE k # on[c]
    BY <2>3 DEF SessionInv, ConnectionOk, Local, Clean
  <2>4. QED BY <2>2, <2>3
<1>3. QED BY <1>1, <1>2 DEF SessionInv

\* Calling, reserving and releasing.

LEMMA CallKeeps ==
  ASSUME SessionInv, NEW c \in Calls, NEW t \in Tenants, Call(c, t)
  PROVE  SessionInv'
<1>1. TypeOKSession'
  BY DEF SessionInv, TypeOKSession, Call, Goto, At, connVars, Stages, Outcomes
<1>2. ASSUME NEW d \in Calls PROVE CallOk(d)'
  <2>1. CASE d = c
    BY <2>1 DEF SessionInv, TypeOKSession, CallOk, Call, Goto, At, connVars, Without, Inspected
  <2>2. CASE d # c
    <3>1. /\ CallOk(d) /\ stage'[d] = stage[d] /\ account'[d] = account[d]
          /\ UNCHANGED << catalog, connVars, on >>
      BY <2>2 DEF SessionInv, TypeOKSession, Call, Goto
    <3>2. QED BY <3>1 DEF CallOk, Serving, Prepared, Clean, Inspected, At, connVars
  <2>3. QED BY <2>1, <2>2
<1>3. ASSUME NEW k \in Connections PROVE ConnectionOk(k)'
  BY DEF SessionInv, ConnectionOk, Clean, Call, connVars
<1>4. QED BY <1>1, <1>2, <1>3 DEF SessionInv

LEMMA ReserveKeeps ==
  ASSUME SessionInv, NEW c \in Calls, Reserve(c)
  PROVE  SessionInv'
<1>1. PICK k \in Connections : /\ holder[k] = Nobody
                               /\ holder' = [holder EXCEPT ![k] = c]
                               /\ alive' = [alive EXCEPT ![k] = TRUE]
                               /\ on' = [on EXCEPT ![c] = k]
  BY DEF Reserve
<1>2. /\ At(c, "reserve") /\ stage' = [stage EXCEPT ![c] = "begin"]
      /\ UNCHANGED << catalog, tx, tenant, role, account, outcome, faults >>
  BY DEF Reserve, Goto
<1>3. TypeOKSession'
  BY <1>1, <1>2 DEF SessionInv, TypeOKSession, Stages, Setup
<1>4. Clean(k)
  BY <1>1 DEF SessionInv, ConnectionOk
<1>5. ASSUME NEW d \in Calls PROVE CallOk(d)'
  <2>1. CASE d = c
    <3>1. on'[c] = k /\ holder'[k] = c /\ alive'[k] /\ stage'[c] = "begin"
      BY <1>1, <1>2 DEF SessionInv, TypeOKSession
    <3>2. Serving(c)'
      BY <3>1, <1>4, <1>2
      DEF Serving, Clean, Prepared, At, InTransaction, Setup, Teardown
    <3>3. QED BY <3>1, <3>2, <2>1 DEF CallOk, Without, Inspected
  <2>2. CASE d # c
    <3>1. CallOk(d) /\ stage'[d] = stage[d] /\ on'[d] = on[d]
      BY <2>2, <1>1, <1>2 DEF SessionInv, TypeOKSession
    <3>2. CASE stage[d] \in Without
      BY <3>1, <3>2 DEF CallOk, Inspected, Without
    <3>3. CASE stage[d] \notin Without
      <4>1. Serving(d) /\ on[d] # k
        BY <3>1, <3>3, <1>1, CallsAssumption DEF CallOk, Serving
      <4>2. Serving(d)'
        BY <4>1, <3>1, <1>1, <1>2
        DEF Serving, Clean, Prepared, At, SessionInv, TypeOKSession
      <4>3. QED BY <4>2, <3>1, <3>3, <1>2 DEF CallOk, Inspected
    <3>4. QED BY <3>2, <3>3
  <2>3. QED BY <2>1, <2>2
<1>6. ASSUME NEW l \in Connections PROVE ConnectionOk(l)'
  <2>1. CASE l = k
    BY <2>1, <1>1, CallsAssumption DEF ConnectionOk, SessionInv, TypeOKSession
  <2>2. CASE l # k
    <3>1. ConnectionOk(l) /\ holder'[l] = holder[l]
      BY <2>2, <1>1 DEF SessionInv, TypeOKSession
    <3>2. holder[l] # c
      BY <3>1, <1>2, CallsAssumption, ConnectionsAssumption
      DEF ConnectionOk, SessionInv, CallOk, Without, At
    <3>3. QED BY <3>1, <3>2, <1>1, <1>2 DEF ConnectionOk, Clean, SessionInv, TypeOKSession
  <2>3. QED BY <2>1, <2>2
<1>7. QED BY <1>3, <1>5, <1>6 DEF SessionInv

LEMMA ReleaseKeeps ==
  ASSUME SessionInv, NEW c \in Calls, Release(c)
  PROVE  SessionInv'
<1> DEFINE k == on[c]
<1>1. /\ At(c, "release") /\ stage' = [stage EXCEPT ![c] = "idle"]
      /\ holder' = [holder EXCEPT ![k] = Nobody] /\ on' = [on EXCEPT ![c] = NoConnection]
      /\ UNCHANGED << catalog, alive, tx, tenant, role, account, outcome, faults >>
  BY DEF Release, Goto
<1>2. Serving(c) /\ Clean(k)
  BY <1>1 DEF SessionInv, CallOk, Serving, At, Without
<1>3. TypeOKSession'
  BY <1>1 DEF SessionInv, TypeOKSession, Stages
<1>4. ASSUME NEW d \in Calls PROVE CallOk(d)'
  <2>1. CASE d = c
    BY <2>1, <1>1 DEF CallOk, Without, Inspected, SessionInv, TypeOKSession
  <2>2. CASE d # c
    <3>1. CallOk(d) /\ stage'[d] = stage[d] /\ on'[d] = on[d]
      BY <2>2, <1>1 DEF SessionInv, TypeOKSession
    <3>2. CASE stage[d] \in Without
      BY <3>1, <3>2 DEF CallOk, Inspected, Without
    <3>3. CASE stage[d] \notin Without
      <4>1. Serving(d) /\ on[d] # k
        BY <3>1, <3>3, <2>2, <1>2 DEF CallOk, Serving
      <4>2. Serving(d)'
        BY <4>1, <3>1, <1>1
        DEF Serving, Clean, Prepared, At, SessionInv, TypeOKSession
      <4>3. QED BY <4>2, <3>1, <3>3, <1>1 DEF CallOk, Inspected
    <3>4. QED BY <3>2, <3>3
  <2>3. QED BY <2>1, <2>2
<1>5. ASSUME NEW l \in Connections PROVE ConnectionOk(l)'
  <2>1. CASE l = k
    BY <2>1, <1>1, <1>2 DEF ConnectionOk, Clean, SessionInv, TypeOKSession
  <2>2. CASE l # k
    <3>1. ConnectionOk(l) /\ holder'[l] = holder[l]
      BY <2>2, <1>1 DEF SessionInv, TypeOKSession
    <3>2. holder[l] = Nobody \/ holder[l] # c
      BY <3>1, <2>2 DEF ConnectionOk
    <3>3. QED BY <3>1, <3>2, <1>1, CallsAssumption
          DEF ConnectionOk, Clean, SessionInv, TypeOKSession
  <2>3. QED BY <2>1, <2>2
<1>6. QED BY <1>3, <1>4, <1>5 DEF SessionInv

LEMMA BeginKeeps ==
  ASSUME SessionInv, NEW c \in Calls, Begin(c)
  PROVE  SessionInv'
<1>1. TypeOKSession /\ Serving(c) /\ Inspected(c) /\ stage[c] \notin Without
  BY DEF SessionInv, CallOk, Without, Begin, Answers, At
<1>2. TypeOKSession' /\ Local(c)
  BY <1>1 DEF TypeOKSession, Local, Serving, Without, Stages, Setup, Teardown, Outcomes,
              RuntimeRoles, Begin, Answers, At, Goto
<1>3. Serving(c)' /\ Inspected(c)'
  BY <1>1 DEF TypeOKSession, Serving, Prepared, Clean, Inspected, Stages, Setup, Teardown,
              InTransaction, Begin, Answers, At, Goto
<1>4. QED BY <1>1, <1>2, <1>3, LocalStep

LEMMA InspectKeeps ==
  ASSUME SessionInv, NEW c \in Calls, Inspect(c)
  PROVE  SessionInv'
<1>1. TypeOKSession /\ Serving(c) /\ Inspected(c) /\ stage[c] \notin Without
  BY DEF SessionInv, CallOk, Without, Inspect, Answers, At
<1>2. TypeOKSession' /\ Local(c)
  BY <1>1 DEF TypeOKSession, Local, Serving, Without, Stages, Setup, Teardown, Outcomes,
              RuntimeRoles, Inspect, Answers, At, Goto, Refuse, connVars
<1>3. Serving(c)' /\ Inspected(c)'
  BY <1>1 DEF TypeOKSession, Serving, Prepared, Clean, Inspected, Stages, Setup, Teardown,
              InTransaction, Inspect, Answers, At, Goto, Refuse, connVars
<1>4. QED BY <1>1, <1>2, <1>3, LocalStep

LEMMA BindKeeps ==
  ASSUME SessionInv, NEW c \in Calls, Bind(c)
  PROVE  SessionInv'
<1>1. TypeOKSession /\ Serving(c) /\ Inspected(c) /\ stage[c] \notin Without
  BY DEF SessionInv, CallOk, Without, Bind, Answers, At
<1>2. TypeOKSession' /\ Local(c)
  BY <1>1 DEF TypeOKSession, Local, Serving, Without, Stages, Setup, Teardown, Outcomes,
              RuntimeRoles, Bind, Answers, At, Goto
<1>3. Serving(c)' /\ Inspected(c)'
  BY <1>1 DEF TypeOKSession, Serving, Prepared, Clean, Inspected, Stages, Setup, Teardown,
              InTransaction, Bind, Answers, At, Goto
<1>4. QED BY <1>1, <1>2, <1>3, LocalStep

LEMMA SwitchKeeps ==
  ASSUME SessionInv, NEW c \in Calls, Switch(c)
  PROVE  SessionInv'
<1>1. TypeOKSession /\ Serving(c) /\ Inspected(c) /\ stage[c] \notin Without
  BY DEF SessionInv, CallOk, Without, Switch, Answers, At
<1>2. TypeOKSession' /\ Local(c)
  BY <1>1 DEF TypeOKSession, Local, Serving, Without, Stages, Setup, Teardown, Outcomes,
              RuntimeRoles, Switch, Answers, At, Goto
<1>3. Serving(c)' /\ Inspected(c)'
  BY <1>1 DEF TypeOKSession, Serving, Prepared, Clean, Inspected, Stages, Setup, Teardown,
              InTransaction, Switch, Answers, At, Goto
<1>4. QED BY <1>1, <1>2, <1>3, LocalStep

LEMMA RecheckKeeps ==
  ASSUME SessionInv, NEW c \in Calls, Recheck(c)
  PROVE  SessionInv'
<1>1. TypeOKSession /\ Serving(c) /\ Inspected(c) /\ stage[c] \notin Without
  BY DEF SessionInv, CallOk, Without, Recheck, Answers, At
<1>2. TypeOKSession' /\ Local(c)
  BY <1>1 DEF TypeOKSession, Local, Serving, Without, Stages, Setup, Teardown, Outcomes,
              RuntimeRoles, Recheck, Answers, At, Goto, Refuse, connVars
<1>3. Serving(c)' /\ Inspected(c)'
  BY <1>1 DEF TypeOKSession, Serving, Prepared, Clean, Inspected, Stages, Setup, Teardown,
              InTransaction, Recheck, Answers, At, Goto, Refuse, connVars
<1>4. QED BY <1>1, <1>2, <1>3, LocalStep

LEMMA ReturnKeeps ==
  ASSUME SessionInv, NEW c \in Calls, Return(c)
  PROVE  SessionInv'
<1>1. TypeOKSession /\ Serving(c) /\ Inspected(c) /\ stage[c] \notin Without
  BY DEF SessionInv, CallOk, Without, Return, Answers, At
<1>2. TypeOKSession' /\ Local(c)
  BY <1>1 DEF TypeOKSession, Local, Serving, Without, Stages, Setup, Teardown, Outcomes,
              RuntimeRoles, Return, Answers, At, Goto, connVars
<1>3. Serving(c)' /\ Inspected(c)'
  BY <1>1 DEF TypeOKSession, Serving, Prepared, Clean, Inspected, Stages, Setup, Teardown,
              InTransaction, Return, Answers, At, Goto, connVars
<1>4. QED BY <1>1, <1>2, <1>3, LocalStep

LEMMA ThrowKeeps ==
  ASSUME SessionInv, NEW c \in Calls, Throw(c)
  PROVE  SessionInv'
<1>1. TypeOKSession /\ Serving(c) /\ Inspected(c) /\ stage[c] \notin Without
  BY DEF SessionInv, CallOk, Without, Throw, At
<1>2. TypeOKSession' /\ Local(c)
  BY <1>1 DEF TypeOKSession, Local, Serving, Without, Stages, Setup, Teardown, Outcomes,
              RuntimeRoles, Throw, At, Goto, Refuse, connVars
<1>3. Serving(c)' /\ Inspected(c)'
  BY <1>1 DEF TypeOKSession, Serving, Prepared, Clean, Inspected, Stages, Setup, Teardown,
              InTransaction, Throw, At, Goto, Refuse, connVars
<1>4. QED BY <1>1, <1>2, <1>3, LocalStep

LEMMA ResetRoleKeeps ==
  ASSUME SessionInv, NEW c \in Calls, ResetRole(c)
  PROVE  SessionInv'
<1>1. TypeOKSession /\ Serving(c) /\ Inspected(c) /\ stage[c] \notin Without
  BY DEF SessionInv, CallOk, Without, ResetRole, Answers, At
<1>2. TypeOKSession' /\ Local(c)
  BY <1>1 DEF TypeOKSession, Local, Serving, Without, Stages, Setup, Teardown, Outcomes,
              RuntimeRoles, ResetRole, Answers, At, Goto
<1>3. Serving(c)' /\ Inspected(c)'
  BY <1>1 DEF TypeOKSession, Serving, Prepared, Clean, Inspected, Stages, Setup, Teardown,
              InTransaction, ResetRole, Answers, At, Goto
<1>4. QED BY <1>1, <1>2, <1>3, LocalStep

LEMMA ResetTenantKeeps ==
  ASSUME SessionInv, NEW c \in Calls, ResetTenant(c)
  PROVE  SessionInv'
<1>1. TypeOKSession /\ Serving(c) /\ Inspected(c) /\ stage[c] \notin Without
  BY DEF SessionInv, CallOk, Without, ResetTenant, Answers, At
<1>2. TypeOKSession' /\ Local(c)
  BY <1>1 DEF TypeOKSession, Local, Serving, Without, Stages, Setup, Teardown, Outcomes,
              RuntimeRoles, ResetTenant, Answers, At, Goto
<1>3. Serving(c)' /\ Inspected(c)'
  BY <1>1 DEF TypeOKSession, Serving, Prepared, Clean, Inspected, Stages, Setup, Teardown,
              InTransaction, ResetTenant, Answers, At, Goto
<1>4. QED BY <1>1, <1>2, <1>3, LocalStep

LEMMA CommitKeeps ==
  ASSUME SessionInv, NEW c \in Calls, Commit(c)
  PROVE  SessionInv'
<1>1. TypeOKSession /\ Serving(c) /\ Inspected(c) /\ stage[c] \notin Without
  BY DEF SessionInv, CallOk, Without, Commit, Answers, At
<1>2. TypeOKSession' /\ Local(c)
  BY <1>1 DEF TypeOKSession, Local, Serving, Without, Stages, Setup, Teardown, Outcomes,
              RuntimeRoles, Commit, Answers, At, Goto, EndTransaction
<1>3. Serving(c)' /\ Inspected(c)'
  BY <1>1 DEF TypeOKSession, Serving, Prepared, Clean, Inspected, Stages, Setup, Teardown,
              InTransaction, Commit, Answers, At, Goto, EndTransaction
<1>4. QED BY <1>1, <1>2, <1>3, LocalStep

LEMMA RollbackKeeps ==
  ASSUME SessionInv, NEW c \in Calls, Rollback(c)
  PROVE  SessionInv'
<1>1. TypeOKSession /\ Serving(c) /\ Inspected(c) /\ stage[c] \notin Without
  BY DEF SessionInv, CallOk, Without, Rollback, At
<1>2. TypeOKSession' /\ Local(c)
  BY <1>1 DEF TypeOKSession, Local, Serving, Without, Stages, Setup, Teardown, Outcomes,
              RuntimeRoles, Rollback, At, Goto, EndTransaction
<1>3. Serving(c)' /\ Inspected(c)'
  BY <1>1 DEF TypeOKSession, Serving, Prepared, Clean, Inspected, Stages, Setup, Teardown,
              InTransaction, Rollback, At, Goto, EndTransaction
<1>4. QED BY <1>1, <1>2, <1>3, LocalStep

LEMMA DiscardKeeps ==
  ASSUME SessionInv, NEW c \in Calls, Discard(c)
  PROVE  SessionInv'
<1>1. TypeOKSession /\ Serving(c) /\ Inspected(c) /\ stage[c] \notin Without
  BY DEF SessionInv, CallOk, Without, Discard, At
<1>2. TypeOKSession' /\ Local(c)
  BY <1>1 DEF TypeOKSession, Local, Serving, Without, Stages, Setup, Teardown, Outcomes,
              RuntimeRoles, Discard, At, Goto, connVars
<1>3. Serving(c)' /\ Inspected(c)'
  BY <1>1 DEF TypeOKSession, Serving, Prepared, Clean, Inspected, Stages, Setup, Teardown,
              InTransaction, Discard, At, Goto, connVars
<1>4. QED BY <1>1, <1>2, <1>3, LocalStep

\* Faults.  A failing statement leads to the rollback, the discard or the release.

LEMMA StatementFailsKeeps ==
  ASSUME SessionInv, NEW c \in Calls, StatementFails(c), faults' \in 0..MaxFaults
  PROVE  SessionInv'
<1>1. TypeOKSession /\ Serving(c) /\ Inspected(c) /\ stage[c] \notin Without
  BY DEF SessionInv, CallOk, Without, StatementFails, InTransaction, Setup, Teardown
<1>2. /\ UNCHANGED << catalog, holder, alive, on, account >>
      /\ outcome' = [outcome EXCEPT ![c] = "error"]
      /\ stage' = [stage EXCEPT ![c] = AfterError(stage[c])]
      /\ alive[on[c]]
  BY DEF StatementFails, Goto, Answers
<1>3. \/ At(c, "commit") /\ EndTransaction(on[c]) /\ stage'[c] = "rollback"
      \/ /\ stage[c] \in InTransaction /\ stage'[c] = "rollback"
         /\ tx' = [tx EXCEPT ![on[c]] = "aborted"] /\ UNCHANGED << tenant, role >>
      \/ At(c, "begin") /\ stage'[c] = "discard" /\ UNCHANGED << tx, tenant, role >>
      \/ At(c, "discard") /\ stage'[c] = "release" /\ UNCHANGED << tx, tenant, role >>
  BY <1>1, <1>2 DEF StatementFails, AfterError, At, InTransaction, Setup, Teardown, TypeOKSession
<1>4. TypeOKSession' /\ Local(c)
  BY <1>1, <1>2, <1>3
  DEF TypeOKSession, Local, Serving, Without, Stages, Setup, Teardown, Outcomes, RuntimeRoles,
      EndTransaction
<1>5. Serving(c)' /\ Inspected(c)'
  BY <1>1, <1>2, <1>3
  DEF TypeOKSession, Serving, Prepared, Clean, Inspected, At, Setup, Teardown, InTransaction,
      EndTransaction
<1>6. QED BY <1>1, <1>4, <1>5, LocalStep

LEMMA ConnectionLostKeeps ==
  ASSUME SessionInv, NEW c \in Calls, ConnectionLost(c), faults' \in 0..MaxFaults
  PROVE  SessionInv'
<1>1. TypeOKSession /\ Serving(c) /\ Inspected(c) /\ stage[c] \notin Without
  BY DEF SessionInv, CallOk, Without, ConnectionLost, InTransaction, Setup, Teardown
<1>2. /\ UNCHANGED << catalog, holder, on, account >>
      /\ alive' = [alive EXCEPT ![on[c]] = FALSE]
      /\ EndTransaction(on[c])
      /\ outcome' = [outcome EXCEPT ![c] = "error"]
      /\ stage' = [stage EXCEPT ![c] = AfterError(stage[c])]
  BY DEF ConnectionLost, Goto
<1>3. stage'[c] \in {"rollback", "discard", "release"}
  BY <1>1, <1>2
  DEF ConnectionLost, AfterError, InTransaction, Setup, Teardown, TypeOKSession
<1>4. TypeOKSession' /\ Local(c)
  BY <1>1, <1>2, <1>3
  DEF TypeOKSession, Local, Serving, Without, Stages, Setup, Teardown, Outcomes, RuntimeRoles,
      EndTransaction
<1>5. Clean(on[c])'
  BY <1>1, <1>2 DEF TypeOKSession, Serving, Clean, EndTransaction
<1>6. Serving(c)' /\ Inspected(c)'
  BY <1>1, <1>2, <1>3, <1>5
  DEF TypeOKSession, Serving, Prepared, Inspected, At, Setup, Teardown, InTransaction
<1>7. QED BY <1>1, <1>4, <1>6, LocalStep

-----------------------------------------------------------------------------
\* The specification.

LEMMA StutterKeeps ==
  ASSUME SessionInv, UNCHANGED sessionVars
  PROVE  SessionInv'
BY DEF SessionInv, TypeOKSession, CallOk, ConnectionOk, Serving, Prepared, Clean, Inspected, At,
       sessionVars, connVars, callVars

\* No step of a call, whether it is answered, refused or lost, breaks the invariant.
LEMMA StepKeeps ==
  ASSUME SessionInv, NEW c \in Calls, SessionStep(c)
  PROVE  SessionInv'
<1>1. CASE \E t \in Tenants : Call(c, t)
  BY <1>1, CallKeeps
<1>2. CASE Prepare(c)
  BY <1>2, ReserveKeeps, BeginKeeps, InspectKeeps, BindKeeps, SwitchKeeps, RecheckKeeps
  DEF Prepare
<1>3. CASE Restore(c) \/ Commit(c) \/ Rollback(c) \/ Close(c)
  BY <1>3, ResetRoleKeeps, ResetTenantKeeps, CommitKeeps, RollbackKeeps, DiscardKeeps, ReleaseKeeps
  DEF Restore, Close
<1>4. CASE CallbackStep(c)
  <2>1. CASE Statement(c)
    BY <2>1, StutterKeeps DEF Statement
  <2>2. QED BY <1>4, <2>1, ReturnKeeps, ThrowKeeps DEF CallbackStep
<1>5. CASE FaultStep(c)
  <2>1. faults' \in 0..MaxFaults
    BY <1>5, FaultsAssumption DEF FaultStep, Fault, SessionInv, TypeOKSession
  <2>2. QED BY <1>5, <2>1, StatementFailsKeeps, ConnectionLostKeeps DEF FaultStep
<1>6. CASE Refused(c)
  <2>1. faults' \in 0..MaxFaults
    BY <1>6 DEF Refused, SessionInv, TypeOKSession
  <2>2. QED BY <1>6, <2>1, StatementFailsKeeps DEF Refused
<1>7. QED BY <1>1, <1>2, <1>3, <1>4, <1>5, <1>6 DEF SessionStep, CallStep

\* The inductive invariant of withTenant.
THEOREM SessionInvariant == SessionSpec => []SessionInv
<1>1. SessionInv /\ [SessionNext]_sessionVars => SessionInv'
  BY StepKeeps, StutterKeeps DEF SessionNext
<1>2. QED BY InitHolds, <1>1, PTL DEF SessionSpec

\* However many calls share the pool, whatever fails and wherever a connection is
\* lost, the statements of a callback run under the call's own account and role,
\* and a connection goes back to the pool with neither (withTenant).
THEOREM SessionTenantBound == SessionSpec => []TenantBound
BY SessionInvariant, InvBound, PTL

\* A login that assertSafePrincipal lets pass holds no dangerous attribute, and
\* can become nothing but a runtime role without one.
LEMMA SafeLogin ==
  ASSUME ConnectorReasons(catalog, Login, Login, "api_rls") = {},
         NEW r \in ReachableRoles(catalog, Login) \cup {<<Login, TRUE>>}
  PROVE  /\ ~Has(catalog, r[1], {"superuser", "bypassrls"} \cup Elevated \cup Owning)
         /\ r[1] \in RuntimeRoles \cup {Login}
<1>1. /\ Reason(Has(catalog, Login, {"superuser"}), "superuser") = {}
      /\ Reason(Has(catalog, Login, {"bypassrls"}), "BYPASSRLS") = {}
      /\ Reason(Has(catalog, Login, Elevated), "elevated role capability") = {}
      /\ Reason(Has(catalog, Login, Owning), "owner") = {}
      /\ Reason(UnsafeMembership(catalog, Login, TRUE), "unsafe reachable role membership") = {}
  BY DEF ConnectorReasons
<1>2. /\ ~Has(catalog, Login, {"superuser"}) /\ ~Has(catalog, Login, {"bypassrls"})
      /\ ~Has(catalog, Login, Elevated) /\ ~Has(catalog, Login, Owning)
      /\ ~UnsafeMembership(catalog, Login, TRUE)
  BY <1>1 DEF Reason
<1>3. CASE r = <<Login, TRUE>>
  BY <1>2, <1>3 DEF Has
<1>4. CASE r \in ReachableRoles(catalog, Login)
  BY <1>2, <1>4 DEF UnsafeMembership, Has
<1>5. QED BY <1>3, <1>4

\* Whatever the catalogs hold, no callback runs under a login that could leave
\* the runtime roles or row security (assertSafePrincipal before SET LOCAL ROLE).
THEOREM SessionConfined == SessionSpec => []CallbackConfined
<1>1. SessionInv => CallbackConfined
  BY SafeLogin DEF SessionInv, CallOk, Inspected, CallbackConfined, At
<1>2. QED BY <1>1, SessionInvariant, PTL
=============================================================================
