--------------------------- MODULE TenantSession ---------------------------
(***************************************************************************)
(* withTenant: a call borrows a connection of the pool, opens a            *)
(* transaction, checks the login it runs under, binds the transaction to   *)
(* one tenant and one runtime role, runs a callback that may only use the  *)
(* capabilities of that tenant, takes the binding back, commits, cleans    *)
(* the connection and gives it back (packages/db/src/tenant-session.ts,    *)
(* tenant-internal.ts, connection-internal.ts).                            *)
(*                                                                         *)
(* One action is one statement that is sent and answered.  Any statement   *)
(* may fail on the server, which leaves an open transaction aborted, or    *)
(* lose the connection, which makes the server roll back.                  *)
(***************************************************************************)
EXTENDS Principal

CONSTANTS
  Calls,         \* calls of withTenant that may run at the same time
  Nobody,        \* no call
  Connections,   \* the pool
  NoConnection,
  Tenants,       \* accounts
  NoTenant,      \* app.tenant is not set
  Login,         \* the role that the pool connects with
  Catalogs,      \* the catalogs that the database may have
  MaxFaults      \* bound: statements that fail and connections that break

ASSUME CallsAssumption == Nobody \notin Calls
ASSUME ConnectionsAssumption == NoConnection \notin Connections
ASSUME TenantsAssumption == NoTenant \notin Tenants
ASSUME LoginAssumption == Login \notin RuntimeRoles
ASSUME FaultsAssumption == MaxFaults \in Nat

VARIABLES
  catalog,   \* the roles, memberships and grants of the database
  holder,    \* who has reserved a connection
  alive,     \* the connection has not been lost
  tx,        \* the transaction of a connection
  tenant,    \* app.tenant of a connection
  role,      \* current_user of a connection
  stage,     \* the next statement of a call
  on,        \* the connection a call has reserved
  account,   \* the account id a call was made with
  outcome,   \* what the promise of a call ends with
  faults     \* statements that have failed so far

connVars == << holder, alive, tx, tenant, role >>
callVars == << stage, on, account, outcome >>
sessionVars == << catalog, connVars, callVars, faults >>

Setup == {"begin", "inspect", "bind", "switch", "recheck"}
Teardown == {"resetRole", "resetTenant", "commit"}
Stages == {"idle", "reserve", "callback", "rollback", "discard", "release"}
            \cup Setup \cup Teardown
Outcomes == {"none", "value", "error"}

(* The stages at which the transaction is open. *)
InTransaction == (Setup \ {"begin"}) \cup {"callback"} \cup Teardown

TypeOKSession ==
  /\ holder \in [Connections -> Calls \cup {Nobody}]
  /\ alive \in [Connections -> BOOLEAN]
  /\ tx \in [Connections -> {"none", "open", "aborted"}]
  /\ tenant \in [Connections -> Tenants \cup {NoTenant}]
  /\ role \in [Connections -> RuntimeRoles \cup {Login}]
  /\ stage \in [Calls -> Stages]
  /\ on \in [Calls -> Connections \cup {NoConnection}]
  /\ account \in [Calls -> Tenants \cup {NoTenant}]
  /\ outcome \in [Calls -> Outcomes]
  /\ faults \in 0..MaxFaults
  /\ catalog \in Catalogs

InitSession ==
  /\ holder = [k \in Connections |-> Nobody]
  /\ alive = [k \in Connections |-> TRUE]
  /\ tx = [k \in Connections |-> "none"]
  /\ tenant = [k \in Connections |-> NoTenant]
  /\ role = [k \in Connections |-> Login]
  /\ stage = [c \in Calls |-> "idle"]
  /\ on = [c \in Calls |-> NoConnection]
  /\ account = [c \in Calls |-> NoTenant]
  /\ outcome = [c \in Calls |-> "none"]
  /\ faults = 0
  /\ catalog \in Catalogs

-----------------------------------------------------------------------------
(***************************************************************************)
(* Helpers.  A definition introduced as a "Variant" is used by no action:  *)
(* it is the next definition with one slip in it, kept to show that a      *)
(* property of the runs would notice the slip.                             *)
(***************************************************************************)
At(c, s) == stage[c] = s
Goto(c, s) == stage' = [stage EXCEPT ![c] = s]

(* A statement of this stage is answered: the connection is there, and a
   transaction that is aborted answers nothing but its end. *)
Answers(c, s) ==
  /\ At(c, s)
  /\ alive[on[c]]
  /\ tx[on[c]] # "aborted"

(* Variant: nothing is rolled back. *)
AfterErrorUnrolled(s) == IF s = "discard" THEN "release" ELSE "discard"

(* Where the catch and finally clauses lead from this stage. *)
AfterError(s) == CASE s \in InTransaction -> "rollback"
                   [] s \in {"begin", "rollback"} -> "discard"
                   [] s = "discard" -> "release"

(* Variant: set_config makes a setting of the connection. *)
EndKeepsTenant(k) ==
  /\ tx' = [tx EXCEPT ![k] = "none"]
  /\ role' = [role EXCEPT ![k] = Login]
  /\ UNCHANGED tenant

(* The end of a transaction takes its LOCAL settings back. *)
EndTransaction(k) ==
  /\ tx' = [tx EXCEPT ![k] = "none"]
  /\ tenant' = [tenant EXCEPT ![k] = NoTenant]
  /\ role' = [role EXCEPT ![k] = Login]

-----------------------------------------------------------------------------
(***************************************************************************)
(* The call                                                                *)
(***************************************************************************)

(* The promise of the last call was awaited, so no call is nested. *)
Call(c, t) ==
  /\ At(c, "idle")
  /\ Goto(c, "reserve")
  /\ account' = [account EXCEPT ![c] = t]
  /\ outcome' = [outcome EXCEPT ![c] = "none"]
  /\ UNCHANGED << catalog, connVars, on, faults >>

(* A connection that was lost is opened anew. *)
Reserve(c) ==
  /\ At(c, "reserve")
  /\ \E k \in Connections :
       /\ holder[k] = Nobody
       /\ holder' = [holder EXCEPT ![k] = c]
       /\ alive' = [alive EXCEPT ![k] = TRUE]
       /\ on' = [on EXCEPT ![c] = k]
  /\ Goto(c, "begin")
  /\ UNCHANGED << catalog, tx, tenant, role, account, outcome, faults >>

Begin(c) ==
  /\ Answers(c, "begin")
  /\ tx' = [tx EXCEPT ![on[c]] = "open"]
  /\ Goto(c, "inspect")
  /\ UNCHANGED << catalog, holder, alive, tenant, role, on, account, outcome, faults >>

Refuse(c) ==
  /\ Goto(c, "rollback")
  /\ outcome' = [outcome EXCEPT ![c] = "error"]

(* After three timeouts and the search path, all LOCAL, have been set. *)
Inspect(c) ==
  /\ Answers(c, "inspect")
  /\ IF ConnectorReasons(catalog, Login, role[on[c]], "api_rls") = {}
     THEN Goto(c, "bind") /\ UNCHANGED outcome
     ELSE Refuse(c)
  /\ UNCHANGED << catalog, connVars, on, account, faults >>

Bind(c) ==
  /\ Answers(c, "bind")
  /\ tenant' = [tenant EXCEPT ![on[c]] = account[c]]
  /\ Goto(c, "switch")
  /\ UNCHANGED << catalog, holder, alive, tx, role, on, account, outcome, faults >>

Switch(c) ==
  /\ Answers(c, "switch")
  /\ role' = [role EXCEPT ![on[c]] = "api_rls"]
  /\ Goto(c, "recheck")
  /\ UNCHANGED << catalog, holder, alive, tx, tenant, on, account, outcome, faults >>

(* Then the context is activated. *)
Recheck(c) ==
  /\ Answers(c, "recheck")
  /\ IF SwitchedReasons(catalog, role[on[c]], "api_rls") = {}
     THEN Goto(c, "callback") /\ UNCHANGED outcome
     ELSE Refuse(c)
  /\ UNCHANGED << catalog, connVars, on, account, faults >>

(* A statement of a capability that is answered, and one that is not the last. *)
Statement(c) ==
  /\ Answers(c, "callback")
  /\ UNCHANGED sessionVars

(* The callback's last statement was answered: the context expires. *)
Return(c) ==
  /\ Answers(c, "callback")
  /\ Goto(c, "resetRole")
  /\ UNCHANGED << catalog, connVars, on, account, outcome, faults >>

(* The callback throws with its statements all answered. *)
Throw(c) ==
  /\ At(c, "callback")
  /\ Refuse(c)
  /\ UNCHANGED << catalog, connVars, on, account, faults >>

ResetRole(c) ==
  /\ Answers(c, "resetRole")
  /\ role' = [role EXCEPT ![on[c]] = Login]
  /\ Goto(c, "resetTenant")
  /\ UNCHANGED << catalog, holder, alive, tx, tenant, on, account, outcome, faults >>

ResetTenant(c) ==
  /\ Answers(c, "resetTenant")
  /\ tenant' = [tenant EXCEPT ![on[c]] = NoTenant]
  /\ Goto(c, "commit")
  /\ UNCHANGED << catalog, holder, alive, tx, role, on, account, outcome, faults >>

Commit(c) ==
  /\ Answers(c, "commit")
  /\ EndTransaction(on[c])
  /\ Goto(c, "discard")
  /\ outcome' = [outcome EXCEPT ![c] = "value"]
  /\ UNCHANGED << catalog, holder, alive, on, account, faults >>

(* Answered or not: the error of a rollback is dropped. *)
Rollback(c) ==
  /\ At(c, "rollback")
  /\ IF alive[on[c]] THEN EndTransaction(on[c]) ELSE UNCHANGED << tx, tenant, role >>
  /\ Goto(c, "discard")
  /\ UNCHANGED << catalog, holder, alive, on, account, outcome, faults >>

(* DISCARD TEMP and the SELECT after it; on a lost connection they throw, which
   replaces whatever the call would have ended with. *)
Discard(c) ==
  /\ At(c, "discard")
  /\ Goto(c, "release")
  /\ outcome' = IF alive[on[c]] THEN outcome ELSE [outcome EXCEPT ![c] = "error"]
  /\ UNCHANGED << catalog, connVars, on, account, faults >>

(* Variant: only a call that succeeds gives its connection back. *)
ReleaseOnSuccess(c) ==
  /\ At(c, "release")
  /\ holder' = IF outcome[c] = "value" THEN [holder EXCEPT ![on[c]] = Nobody] ELSE holder
  /\ on' = [on EXCEPT ![c] = NoConnection]
  /\ Goto(c, "idle")
  /\ UNCHANGED << catalog, alive, tx, tenant, role, account, outcome, faults >>

Release(c) ==
  /\ At(c, "release")
  /\ holder' = [holder EXCEPT ![on[c]] = Nobody]
  /\ on' = [on EXCEPT ![c] = NoConnection]
  /\ Goto(c, "idle")
  /\ UNCHANGED << catalog, alive, tx, tenant, role, account, outcome, faults >>

-----------------------------------------------------------------------------
(***************************************************************************)
(* Faults                                                                  *)
(***************************************************************************)
Fault == faults < MaxFaults /\ faults' = faults + 1

(* Variant: the COMMIT is not awaited. *)
StatementFailsUnseen(c) ==
  /\ stage[c] \in InTransaction \cup {"begin", "discard"}
  /\ Answers(c, stage[c])
  /\ CASE At(c, "commit") -> EndTransaction(on[c])
       [] stage[c] \in InTransaction \ {"commit"} ->
            tx' = [tx EXCEPT ![on[c]] = "aborted"] /\ UNCHANGED << tenant, role >>
       [] OTHER -> UNCHANGED << tx, tenant, role >>
  /\ outcome' = [outcome EXCEPT ![c] = IF At(c, "commit") THEN "value" ELSE "error"]
  /\ Goto(c, AfterError(stage[c]))
  /\ UNCHANGED << catalog, holder, alive, on, account >>

(* The server refuses a statement: a timeout, a lock that is not granted, a
   constraint.  A COMMIT that is refused has ended the transaction. *)
StatementFails(c) ==
  /\ stage[c] \in InTransaction \cup {"begin", "discard"}
  /\ Answers(c, stage[c])
  /\ CASE At(c, "commit") -> EndTransaction(on[c])
       [] stage[c] \in InTransaction \ {"commit"} ->
            tx' = [tx EXCEPT ![on[c]] = "aborted"] /\ UNCHANGED << tenant, role >>
       [] OTHER -> UNCHANGED << tx, tenant, role >>
  /\ outcome' = [outcome EXCEPT ![c] = "error"]
  /\ Goto(c, AfterError(stage[c]))
  /\ UNCHANGED << catalog, holder, alive, on, account >>

(* The connection breaks: the server ends the session, and the client learns of
   it by the statement it is waiting for. *)
ConnectionLost(c) ==
  /\ stage[c] \in InTransaction \cup {"begin", "rollback", "discard"}
  /\ alive[on[c]]
  /\ alive' = [alive EXCEPT ![on[c]] = FALSE]
  /\ EndTransaction(on[c])
  /\ outcome' = [outcome EXCEPT ![c] = "error"]
  /\ Goto(c, AfterError(stage[c]))
  /\ UNCHANGED << catalog, holder, on, account >>

-----------------------------------------------------------------------------
Prepare(c) ==
  /\ stage[c] \in Setup \cup {"reserve"}
  /\ \/ Reserve(c) \/ Begin(c) \/ Inspect(c) \/ Bind(c) \/ Switch(c) \/ Recheck(c)

Restore(c) == ResetRole(c) \/ ResetTenant(c)

Close(c) == Discard(c) \/ Release(c)

CallStep(c) == Prepare(c) \/ Restore(c) \/ Commit(c) \/ Rollback(c) \/ Close(c)

CallbackStep(c) == Statement(c) \/ Return(c) \/ Throw(c)

FaultStep(c) == Fault /\ (StatementFails(c) \/ ConnectionLost(c))

(* A statement of the callback that the state of the database refuses: a lock
   that is not granted within lock_timeout, a unique index.  It is no fault. *)
Refused(c) ==
  /\ At(c, "callback")
  /\ StatementFails(c)
  /\ UNCHANGED faults

SessionStep(c) ==
  \/ \E t \in Tenants : Call(c, t)
  \/ CallStep(c)
  \/ CallbackStep(c)
  \/ FaultStep(c)
  \/ Refused(c)

SessionNext == \E c \in Calls : SessionStep(c)

SessionSpec == InitSession /\ [][SessionNext]_sessionVars

-----------------------------------------------------------------------------
(***************************************************************************)
(* Safety                                                                  *)
(***************************************************************************)

(* The statements of a callback run in an open transaction of a connection that
   the call alone holds, bound to the account of the call and to its role. *)
CallbackBound ==
  \A c \in Calls :
    At(c, "callback") =>
      /\ holder[on[c]] = c
      /\ tx[on[c]] = "open"
      /\ tenant[on[c]] = account[c]
      /\ role[on[c]] = "api_rls"

(* A connection in the pool carries nothing of its last call. *)
FreeIsClean ==
  \A k \in Connections :
    holder[k] = Nobody => /\ tx[k] = "none"
                          /\ tenant[k] = NoTenant
                          /\ role[k] = Login

(* Two calls never share a connection. *)
NotShared ==
  \A c, d \in Calls : c # d /\ on[c] # NoConnection => on[c] # on[d]

(* The statements of one tenant's callback never meet the connection, the setting
   or the role of another call: neither while it runs, nor after it has failed,
   nor by way of the pool. *)
TenantBound == CallbackBound /\ FreeIsClean /\ NotShared

(* Whatever the catalogs hold, a callback runs only where the login can become
   nothing but a runtime role, none of which escapes row security or owns
   anything. *)
CallbackConfined ==
  \A c \in Calls :
    At(c, "callback") =>
      \A r \in ReachableRoles(catalog, Login) \cup {<<Login, TRUE>>} :
        /\ ~Has(catalog, r[1], {"superuser", "bypassrls"} \cup Elevated \cup Owning)
        /\ r[1] \in RuntimeRoles \cup {Login}
=============================================================================
