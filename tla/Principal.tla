----------------------------- MODULE Principal -----------------------------
(***************************************************************************)
(* What withTenant reads in the catalogs of PostgreSQL before it binds a   *)
(* connection to a tenant, and again after SET ROLE: which facts about a   *)
(* role make it refuse to go on (packages/db/src/tenant-session.ts).       *)
(*                                                                         *)
(* A catalog is a record:                                                  *)
(*   flags     pairs <<role, flag>>: the attributes of a role, and what it *)
(*             owns                                                        *)
(*   members   <<member, role, set>>: pg_auth_members with its SET option  *)
(*   tables    <<grantee, table, privilege>>: the ACLs of schema public    *)
(*   functions <<grantee, function>>: EXECUTE on functions of the program, *)
(*             a function being [name, definer, shipped], where shipped    *)
(*             says that its schema, arguments, owner and settings are     *)
(*             those that the migrations give it                           *)
(***************************************************************************)
EXTENDS Naturals, FiniteSets

RuntimeRoles == {"api_rls", "worker_rls", "reporting_rls"}
Elevated == {"createdb", "createrole", "replication"}
Owning == {"owns_database", "owns_table"}
Dml == {"SELECT", "INSERT", "UPDATE", "DELETE"}

(***************************************************************************)
(* The tables each runtime role may use.                                   *)
(***************************************************************************)
ApiTables == [
  INSERT |-> {"assessment", "authorization_attestation", "verification", "credential",
              "audit_event", "agent"},
  SELECT |-> {"account", "user", "account_membership", "assessment",
              "authorization_attestation", "verification", "playbook", "credential",
              "finding", "report", "credit_entry", "entitlement", "agent", "audit_event",
              "audit_account_state", "notification"},
  UPDATE |-> {"account", "assessment", "verification", "credential", "agent",
              "notification", "audit_account_state"},
  DELETE |-> {"credential", "agent"}]

WorkerTables == [
  INSERT |-> {"job", "runner_execution", "finding", "report", "audit_event", "notification"},
  SELECT |-> {"account", "user", "assessment", "authorization_attestation", "verification",
              "playbook", "job", "runner_execution", "credential", "finding", "report",
              "credit_entry", "billing_event", "entitlement", "agent", "audit_event",
              "notification", "audit_account_state"},
  UPDATE |-> {"assessment", "verification", "job", "runner_execution", "finding", "report",
              "agent", "notification", "audit_account_state"},
  DELETE |-> {"job", "runner_execution", "credential"}]

ReportingTables == [
  INSERT |-> {}, UPDATE |-> {}, DELETE |-> {},
  SELECT |-> {"user", "account", "assessment", "authorization_attestation", "verification",
              "playbook", "job", "runner_execution", "finding", "report", "credit_entry",
              "billing_event", "entitlement", "agent", "audit_event", "notification"}]

TablesOf(role) == CASE role = "api_rls" -> ApiTables
                    [] role = "worker_rls" -> WorkerTables
                    [] role = "reporting_rls" -> ReportingTables

(***************************************************************************)
(* Reading a catalog.                                                      *)
(***************************************************************************)
Has(catalog, role, flags) == \E f \in flags : <<role, f>> \in catalog.flags

(* The recursive query reachable_roles: every role that can be reached through
   memberships, with whether each membership on the way may be SET.  One path is
   as long as there are memberships. *)
ReachableRoles(catalog, role) ==
  LET step[n \in Nat] ==
        IF n = 0 THEN {<<m[2], m[3]>> : m \in {x \in catalog.members : x[1] = role}}
        ELSE step[n - 1] \cup
               {<<p[1][2], p[2][2] /\ p[1][3]>> :
                  p \in {q \in catalog.members \X step[n - 1] : q[1][1] = q[2][1]}}
  IN step[Cardinality(catalog.members)]

(* queue_enqueue runs with its owner's rights and is given to api_rls. *)
EnqueueAsShipped(role, f) ==
  role = "api_rls" /\ f.name = "queue_enqueue" /\ f.shipped /\ f.definer

ExpectedFunction(role, f) ==
  \/ f.name \in {"rls_tenant_matches", "rls_bootstrap_context"} /\ f.shipped /\ ~f.definer
  \/ EnqueueAsShipped(role, f)

(* A membership that cannot be SET, whose role is no runtime role, is elevated,
   owns something or runs functions with their owner's rights.  Only the
   connector may reach queue_enqueue through one. *)
UnsafeMembership(catalog, role, isConnector) ==
  \E r \in ReachableRoles(catalog, role) :
    \/ ~r[2]
    \/ r[1] \notin RuntimeRoles
    \/ Has(catalog, r[1], {"superuser", "bypassrls"} \cup Elevated
                            \cup Owning \cup {"owns_function"})
    \/ \E g \in catalog.functions :
         /\ g[1] = r[1] /\ g[2].definer
         /\ ~(isConnector /\ EnqueueAsShipped(r[1], g[2]))

UnexpectedTable(catalog, role) ==
  \E g \in catalog.tables :
    /\ g[1] = role
    /\ \/ g[3] \notin Dml
       \/ g[2] \notin TablesOf(role)[g[3]]

(***************************************************************************)
(* The reasons to refuse.                                                  *)
(***************************************************************************)
Reason(condition, text) == IF condition THEN {text} ELSE {}

(* assertSafePrincipal: the login that the pool connects with. *)
ConnectorReasons(catalog, login, current, role) ==
  LET reachable == ReachableRoles(catalog, login)
  IN UNION {
       Reason(current # login, "role was already switched"),
       Reason(Has(catalog, login, {"superuser"}), "superuser"),
       Reason(Has(catalog, login, {"bypassrls"}), "BYPASSRLS"),
       Reason(Has(catalog, login, {"inherit"}), "INHERIT connector"),
       Reason(Has(catalog, login, Elevated), "elevated role capability"),
       Reason(Has(catalog, login, Owning), "owner"),
       Reason(\E g \in catalog.tables : g[1] = login, "direct table access"),
       Reason(\E g \in catalog.functions : g[1] = login, "direct function EXECUTE"),
       Reason(UnsafeMembership(catalog, login, TRUE), "unsafe reachable role membership"),
       Reason(~\E r \in reachable : r[1] = role, "not a member"),
       Reason(<<role, TRUE>> \notin reachable, "membership has SET FALSE")}

(* assertSwitchedPrincipal: the role after SET LOCAL ROLE. *)
SwitchedReasons(catalog, current, role) ==
  UNION {
    Reason(current # role, "current role"),
    Reason(Has(catalog, current, {"superuser"}), "superuser"),
    Reason(Has(catalog, current, {"bypassrls"}), "BYPASSRLS"),
    Reason(Has(catalog, current, {"inherit"}), "inherits memberships"),
    Reason(Has(catalog, current, Elevated), "elevated capabilities"),
    Reason(Has(catalog, current, Owning), "owner"),
    Reason(UnsafeMembership(catalog, current, FALSE), "unsafe memberships"),
    Reason(current \in RuntimeRoles /\ UnexpectedTable(catalog, current),
           "unexpected table privileges"),
    Reason(\E g \in catalog.functions : g[1] = current /\ ~ExpectedFunction(current, g[2]),
           "unexpected function EXECUTE")}
=============================================================================
