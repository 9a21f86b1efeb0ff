------------------------------- MODULE Access -------------------------------
(***************************************************************************)
(* Memberships, invitations and sessions: the SECURITY DEFINER functions   *)
(* of packages/db/migrations that packages/db/src/auth-session.ts calls,   *)
(* each in a transaction of its own (withAuthRole).                        *)
(*                                                                         *)
(* PostgreSQL runs them READ COMMITTED: every statement reads what is      *)
(* committed when it starts; a statement that locks rows then waits for    *)
(* them and tests again only the row that it waited for.  A statement that *)
(* can wait is therefore split from what precedes it, and a transaction    *)
(* publishes its writes when it commits.  FOR UPDATE, UPDATE and the       *)
(* advisory lock of a session family are locks held to the end;  FOR SHARE *)
(* and the FOR KEY SHARE of a foreign key are needed only by a             *)
(* transaction's last step, so it is enough that they can be granted       *)
(* there.  Rows of account are never written: their locks, and those of    *)
(* audit_account_state, only delay and are left out.                       *)
(*                                                                         *)
(* Sessions and invitations are few and a call counts against MaxCalls:    *)
(* these are the bounds of a run.  A definition introduced as a "Variant"  *)
(* is used by no action: it is the next definition with one slip in it.    *)
(***************************************************************************)
EXTENDS Naturals, FiniteSets

CONSTANTS
  Accounts, Users, Roles, \* membership_role has five values; three differ here
  Sessions,      \* rows of session
  Invites,       \* rows of account_invitation
  Backends,      \* concurrent transactions of auth_connector
  NoUser,        \* accepted_by_user_id IS NULL
  Keep,          \* a parameter of auth_update_membership that is NULL
  Changes,       \* the role and status that callers of it ask for
  HomeOf,        \* user.account_id: the account that a user's first login made
  FirstMembers,  \* account_membership at the start
  FirstSessions, \* session at the start
  FirstInvites,  \* account_invitation at the start
  MaxCalls       \* calls of a run

ASSUME RolesAssumption == {"owner", "admin"} \subseteq Roles /\ Keep \notin Roles
ASSUME KeepAssumption == Keep \notin {"active", "suspended", "removed"}
ASSUME HomeAssumption ==
  HomeOf \in [Users -> Accounts] /\ \A u, v \in Users : HomeOf[u] = HomeOf[v] => u = v
ASSUME UserAssumption == NoUser \notin Users
ASSUME CallsAssumption == MaxCalls \in Nat

MembershipStatus == {"active", "suspended", "removed"}
ASSUME ChangesAssumption ==
  Changes \subseteq [role : Roles \cup {Keep}, status : MembershipStatus \cup {Keep}]

VARIABLES
  member,   \* account_membership; status "none" where there is no row
  session,  \* session; version counts the hashes that one row has had
  invite,   \* account_invitation; status "none" before its creation
  audit,    \* how many events of a kind an account's chain has
  loggedOut,\* history: the families for which auth_revoke_session has committed
  pc,       \* the statement that a transaction will run next
  call,     \* its arguments and local variables
  held,     \* its locks
  calls     \* calls so far

data == << member, session, invite, audit, loggedOut >>
vars == << data, pc, call, held, calls >>

SessionStatus == {"none", "live", "revoked"}
EventNames == {"login", "invitation_created", "invitation_accepted", "membership_updated",
               "membership_removed"}
Statements == {"idle", "session", "account", "invitation", "membership", "insert", "target",
               "owners", "lock owners", "count", "write", "revoke", "rotate", "logout", "end family"}
NoCall == [op |-> "none"]

\* Rows that can be locked, and the advisory lock on a session family.
MemberRow(a, u) == << "member", a, u >>
SessionRow(s) == << "session", s >>
InviteRow(i) == << "invite", i >>
Family(f) == << "family", f >>
Rows == {MemberRow(a, u) : a \in Accounts, u \in Users} \cup {SessionRow(s) : s \in Sessions}
          \cup {InviteRow(i) : i \in Invites} \cup {Family(f) : f \in Sessions}

Members == [Accounts -> [Users -> [role : Roles, status : MembershipStatus \cup {"none"}]]]
SessionRows == [account : Accounts, user : Users, family : Sessions, version : Nat,
                status : SessionStatus]
Invitations == [account : Accounts, role : Roles, by : Users \cup {NoUser}, expired : BOOLEAN,
                status : {"none", "pending", "accepted"}]

\* The rows at the start: an account was made by its owner's first login, and
\* somebody of it has created an invitation to it.
ASSUME FirstAssumption ==
  /\ FirstMembers \in Members
  /\ FirstSessions \in [Sessions -> SessionRows]
  /\ FirstInvites \in [Invites -> Invitations]
  /\ \A a \in Accounts, u \in Users : FirstMembers[a][u].status # "none" =>
       \E v \in Users : FirstMembers[a][v] = [role |-> "owner", status |-> "active"]
  /\ \A i \in Invites : FirstInvites[i].status # "none" =>
       \E u \in Users : FirstMembers[FirstInvites[i].account][u].status # "none"

\* A family bears the name of its first session, a live session is the only one
\* of its family, and nobody who is removed has one.
ASSUME FirstSessionsAssumption ==
  LET Live == {s \in Sessions : FirstSessions[s].status = "live"} IN
  /\ \A s \in Sessions : FirstSessions[s].status # "none" =>
       FirstSessions[FirstSessions[s].family].status # "none"
  /\ \A s, t \in Live : FirstSessions[s].family = FirstSessions[t].family => s = t
  /\ \A s \in Live :
       FirstMembers[FirstSessions[s].account][FirstSessions[s].user].status # "removed"

TypeOK ==
  /\ member \in Members
  /\ session \in [Sessions -> SessionRows]
  /\ invite \in [Invites -> Invitations]
  /\ audit \in [Accounts -> [EventNames -> Nat]]
  /\ loggedOut \subseteq Sessions
  /\ pc \in [Backends -> Statements]
  /\ held \in [Backends -> SUBSET Rows]
  /\ calls \in Nat
  /\ \A b \in Backends : pc[b] = "idle" => call[b] = NoCall /\ held[b] = {}

Init ==
  /\ member = FirstMembers
  /\ session = FirstSessions
  /\ invite = FirstInvites
  /\ audit = [a \in Accounts |-> [e \in EventNames |-> 0]]
  /\ loggedOut = {}
  /\ pc = [b \in Backends |-> "idle"]
  /\ call = [b \in Backends |-> NoCall]
  /\ held = [b \in Backends |-> {}]
  /\ calls = 0

-----------------------------------------------------------------------------
\* Transactions.

\* No other transaction holds a lock on a row.
Free(b, rows) == \A c \in Backends \ {b} : held[c] \cap rows = {}

Begin(b, statement, arguments) ==
  /\ pc[b] = "idle" /\ calls < MaxCalls
  /\ calls' = calls + 1
  /\ pc' = [pc EXCEPT ![b] = statement]
  /\ call' = [call EXCEPT ![b] = arguments]
  /\ UNCHANGED << data, held >>

\* The statement has run and the next one follows; rows are locked by it.
Continue(b, statement, rows) ==
  /\ pc' = [pc EXCEPT ![b] = statement]
  /\ held' = [held EXCEPT ![b] = @ \cup rows]
  /\ UNCHANGED << data, calls >>

\* Variant: a pooled connection goes back with its locks.
FinishWithLocks(b) ==
  /\ pc' = [pc EXCEPT ![b] = "idle"]
  /\ call' = [call EXCEPT ![b] = NoCall]
  /\ UNCHANGED << held, calls >>

\* COMMIT or ROLLBACK: the locks go.
Finish(b) ==
  /\ pc' = [pc EXCEPT ![b] = "idle"]
  /\ call' = [call EXCEPT ![b] = NoCall]
  /\ held' = [held EXCEPT ![b] = {}]
  /\ UNCHANGED calls

Return(b) == Finish(b) /\ UNCHANGED data

\* lock_timeout, a deadlock, a lost connection: nothing of it remains.
Abort(b) == pc[b] # "idle" /\ Return(b)

Appended(a, event) == [audit EXCEPT ![a][event] = @ + 1]

-----------------------------------------------------------------------------
\* What the functions read.
Active(a, u) == member[a][u].status = "active"
ActiveOwner(a, u) == Active(a, u) /\ member[a][u].role = "owner"
ActiveOwners(a) == {u \in Users : ActiveOwner(a, u)}
ManagerRole(r) == r \in {"owner", "admin"}
Unused == {s \in Sessions : session[s].status = "none"}

\* The row has the cookie's hash and is not revoked.  A caller comes with the
\* hash that a row has when the call begins: with any other one every function
\* returns without a change.
Current(c) == session[c.sid].status = "live" /\ session[c.sid].version = c.version

\* The first statement of most functions: the session, joined with the
\* membership of its user in its account, FOR UPDATE OF s.
AfterSession(op) ==
  CASE op = "update" -> "target"
    [] op = "accept" -> "invitation"
    [] op \in {"switch", "invite"} -> "account"

LockSession(b) ==
  /\ pc[b] = "session"
  /\ Free(b, {SessionRow(call[b].sid)})
  /\ \/ /\ Current(call[b])
        /\ Continue(b, AfterSession(call[b].op), {SessionRow(call[b].sid)})
        /\ UNCHANGED call
     \/ ~Current(call[b]) /\ Return(b)

-----------------------------------------------------------------------------
\* auth_update_membership_secure

BeginUpdate(b) ==
  \E s \in Sessions, u \in Users, change \in Changes :
    LET actor == member[session[s].account][session[s].user] IN
    /\ change # [role |-> Keep, status |-> Keep]
    /\ session[s].status = "live" /\ actor.status = "active" /\ ManagerRole(actor.role)
    /\ Begin(b, "session",
             [op |-> "update", sid |-> s, version |-> session[s].version,
              account |-> session[s].account, user |-> u, role |-> change.role, status |-> change.status,
              actorRole |-> actor.role, rows |-> {}])

\* The membership after the call.
Updated(c) ==
  LET m == member[c.account][c.user] IN
  [role |-> IF c.role = Keep THEN m.role ELSE c.role,
   status |-> IF c.status = Keep THEN m.status ELSE c.status]

\* An owner would stop being an active one.
DemotesOwner(c) ==
  /\ member[c.account][c.user].role = "owner"
  /\ Updated(c) # [role |-> "owner", status |-> "active"]

\* Only an owner touches an owner, or makes one.
MayUpdate(c) ==
  /\ member[c.account][c.user].status # "none"
  /\ c.actorRole = "owner" \/ "owner" \notin {member[c.account][c.user].role, c.role}

LockTarget(b) ==
  LET row == MemberRow(call[b].account, call[b].user) IN
  /\ pc[b] = "target" /\ Free(b, {row})
  /\ \/ /\ MayUpdate(call[b])
        /\ Continue(b, IF DemotesOwner(call[b]) THEN "owners" ELSE "write", {row})
        /\ UNCHANGED call
     \/ ~MayUpdate(call[b]) /\ Return(b)

\* PERFORM ... FOR UPDATE: the active owners when the statement starts ...
FindOwners(b) ==
  LET a == call[b].account IN
  /\ pc[b] = "owners"
  /\ call' = [call EXCEPT ![b].rows = {MemberRow(a, u) : u \in ActiveOwners(a)}]
  /\ Continue(b, "lock owners", {})

\* Variant: the owners are counted without being locked.
OwnersUnlocked(b) ==
  /\ pc[b] = "lock owners"
  /\ Continue(b, "count", {})
  /\ UNCHANGED call

\* ... and their locks.
LockOwners(b) ==
  /\ pc[b] = "lock owners" /\ Free(b, call[b].rows)
  /\ Continue(b, "count", call[b].rows)
  /\ UNCHANGED call

\* A statement of its own counts them again.
CountOwners(b) ==
  /\ pc[b] = "count"
  /\ \/ /\ Cardinality(ActiveOwners(call[b].account)) > 1
        /\ Continue(b, "write", {})
        /\ UNCHANGED call
     \/ Cardinality(ActiveOwners(call[b].account)) <= 1 /\ Return(b)

\* Variant: only a removal ends sessions.
EndsSessionsOnRemoval(c) == Updated(c).status = "removed"

EndsSessions(c) == Updated(c).status = "removed" \/ c.role # Keep

\* The sessions of the member in the account, whoever else uses them now.
SessionsOf(a, u) ==
  {s \in Sessions : session[s].status # "none" /\ session[s].account = a /\ session[s].user = u}

Revoked(rows) ==
  [s \in Sessions |-> IF s \in rows THEN [session[s] EXCEPT !.status = "revoked"]
                                    ELSE session[s]]

\* The row is written; it is known which sessions to revoke, if any.
WriteMembership(b) ==
  /\ pc[b] = "write"
  /\ call' = [call EXCEPT ![b].rows =
                IF EndsSessions(call[b])
                  THEN {SessionRow(s) : s \in SessionsOf(call[b].account, call[b].user)}
                  ELSE {}]
  /\ Continue(b, "revoke", {})

\* A session that was found and has left the account meanwhile is left alone.
CommitUpdate(b) ==
  LET c == call[b] IN
  /\ pc[b] = "revoke" /\ Free(b, c.rows)
  /\ member' = [member EXCEPT ![c.account][c.user] = Updated(c)]
  /\ session' = Revoked({s \in SessionsOf(c.account, c.user) : SessionRow(s) \in c.rows})
  /\ audit' = Appended(c.account, IF Updated(c).status = "removed" THEN "membership_removed"
                                                                   ELSE "membership_updated")
  /\ UNCHANGED << invite, loggedOut >>
  /\ Finish(b)

-----------------------------------------------------------------------------
\* auth_create_invitation

BeginInvite(b) ==
  \E s \in Sessions, i \in Invites, r \in Roles :
    /\ session[s].status = "live" /\ Active(session[s].account, session[s].user)
    /\ Begin(b, "session", [op |-> "invite", sid |-> s, version |-> session[s].version,
                            account |-> session[s].account, inv |-> i, role |-> r])

\* The inviter's membership is read FOR SHARE.
CreateInvitation(b) ==
  LET c == call[b]
      u == session[c.sid].user
      allowed == Active(c.account, u) /\ ManagerRole(member[c.account][u].role)
  IN
  /\ pc[b] = "account" /\ c.op = "invite"
  /\ Free(b, {MemberRow(c.account, u)})
  /\ \/ /\ allowed /\ invite[c.inv].status = "none"
        /\ invite' = [invite EXCEPT ![c.inv] =
                        [account |-> c.account, role |-> c.role, by |-> NoUser,
                         expired |-> FALSE, status |-> "pending"]]
        /\ audit' = Appended(c.account, "invitation_created")
        /\ UNCHANGED << member, session, loggedOut >>
        /\ Finish(b)
     \/ ~allowed /\ Return(b)

InvitationExpires(i) ==
  /\ invite[i].status = "pending" /\ ~invite[i].expired
  /\ invite' = [invite EXCEPT ![i].expired = TRUE]
  /\ UNCHANGED << member, session, audit, loggedOut, pc, call, held, calls >>

-----------------------------------------------------------------------------
\* auth_accept_invitation

BeginAccept(b) ==
  \E s \in Sessions, i \in Invites :
    /\ session[s].status = "live" /\ Active(session[s].account, session[s].user)
    /\ invite[i].status # "none"
    /\ Begin(b, "session", [op |-> "accept", sid |-> s, version |-> session[s].version,
                            inv |-> i])

Acceptable(i) == invite[i].status = "pending" /\ ~invite[i].expired

\* Of an invitation that was accepted only its acceptor gets an answer; no
\* answer changes anything.
LockInvitation(b) ==
  LET i == call[b].inv IN
  /\ pc[b] = "invitation" /\ Free(b, {InviteRow(i)})
  /\ \/ /\ Acceptable(i)
        /\ Continue(b, "membership", {InviteRow(i)})
        /\ UNCHANGED call
     \/ ~Acceptable(i) /\ Return(b)

\* The acceptor's membership, FOR UPDATE if there is one.
LockMembership(b) ==
  LET a == invite[call[b].inv].account
      u == session[call[b].sid].user
  IN
  /\ pc[b] = "membership" /\ Free(b, {MemberRow(a, u)})
  /\ \/ /\ member[a][u].status # "suspended"
        /\ Continue(b, "insert", IF member[a][u].status = "none" THEN {} ELSE {MemberRow(a, u)})
        /\ UNCHANGED call
     \/ member[a][u].status = "suspended" /\ Return(b)

\* The session goes to an account under a new hash.
Moved(s, a) == [session EXCEPT ![s].account = a, ![s].version = @ + 1]

\* INSERT ... ON CONFLICT DO NOTHING, then an UPDATE of a removed membership:
\* one that is there and not removed stays what it is.
AcceptInvitation(b) ==
  LET s == call[b].sid
      i == call[b].inv
      a == invite[i].account
      u == session[s].user
  IN
  /\ pc[b] = "insert" /\ Free(b, {MemberRow(a, u)})
  /\ member' = [member EXCEPT ![a][u] =
                  IF @.status \in {"none", "removed"}
                    THEN [role |-> invite[i].role, status |-> "active"] ELSE @]
  /\ invite' = [invite EXCEPT ![i].status = "accepted", ![i].by = u]
  /\ audit' = Appended(a, "invitation_accepted")
  /\ session' = Moved(s, a)
  /\ UNCHANGED loggedOut
  /\ Finish(b)

-----------------------------------------------------------------------------
\* auth_switch_account

BeginSwitch(b) ==
  \E s \in Sessions, a \in Accounts :
    /\ session[s].status = "live"
    /\ Begin(b, "session", [op |-> "switch", sid |-> s, version |-> session[s].version,
                            account |-> a])

\* Variant: the membership is read without a lock.
SwitchUnlocked(b) ==
  LET s == call[b].sid
      a == call[b].account
      u == session[s].user
      allowed == Active(session[s].account, u) /\ Active(a, u)
  IN
  /\ pc[b] = "account" /\ call[b].op = "switch"
  /\ \/ /\ allowed
        /\ session' = Moved(s, a)
        /\ UNCHANGED << member, invite, audit, loggedOut >>
        /\ Finish(b)
     \/ ~allowed /\ Return(b)

\* The present membership is only looked at, the next one is read FOR SHARE: in
\* between it can be suspended, which ends no session.
SwitchAccount(b) ==
  LET s == call[b].sid
      a == call[b].account
      u == session[s].user
      allowed == Active(session[s].account, u) /\ Active(a, u)
  IN
  /\ pc[b] = "account" /\ call[b].op = "switch"
  /\ Free(b, {MemberRow(a, u)})
  /\ \/ /\ allowed
        /\ session' = Moved(s, a)
        /\ UNCHANGED << member, invite, audit, loggedOut >>
        /\ Finish(b)
     \/ ~allowed /\ Return(b)

-----------------------------------------------------------------------------
\* auth_rotate_session and auth_revoke_session, which exclude each other
\* within a family.

BeginRotate(b) ==
  \E s \in Sessions :
    /\ session[s].status # "none"
    /\ Begin(b, "rotate", [op |-> "rotate", sid |-> s, version |-> session[s].version])

\* Variant: the family is not locked.
RotateOutsideFamily(b) ==
  LET old == session[call[b].sid] IN
  /\ pc[b] = "rotate" /\ Free(b, {SessionRow(call[b].sid)})
  /\ \/ /\ Current(call[b])
        /\ Free(b, {MemberRow(old.account, old.user)})
        /\ \E new \in Unused :
             session' = [session EXCEPT ![call[b].sid].status = "revoked",
                                        ![new] = [old EXCEPT !.version = 0]]
        /\ UNCHANGED << member, invite, audit, loggedOut >>
        /\ Finish(b)
     \/ ~Current(call[b]) /\ Return(b)

\* Variant: the row is not tested again once it is locked.
RotateUntested(b) ==
  LET old == session[call[b].sid] IN
  /\ pc[b] = "rotate"
  /\ Free(b, {Family(old.family), SessionRow(call[b].sid), MemberRow(old.account, old.user)})
  /\ \E new \in Unused :
       session' = [session EXCEPT ![call[b].sid].status = "revoked",
                                  ![new] = [old EXCEPT !.version = 0, !.status = "live"]]
  /\ UNCHANGED << member, invite, audit, loggedOut >>
  /\ Finish(b)

\* The old row is revoked and a new one inserted, whose foreign key needs the
\* membership's row: FOR KEY SHARE.
RotateSession(b) ==
  LET old == session[call[b].sid] IN
  /\ pc[b] = "rotate"
  /\ Free(b, {Family(old.family), SessionRow(call[b].sid)})
  /\ \/ /\ Current(call[b])
        /\ Free(b, {MemberRow(old.account, old.user)})
        /\ \E new \in Unused :
             session' = [session EXCEPT ![call[b].sid].status = "revoked",
                                        ![new] = [old EXCEPT !.version = 0]]
        /\ UNCHANGED << member, invite, audit, loggedOut >>
        /\ Finish(b)
     \/ ~Current(call[b]) /\ Return(b)

BeginLogout(b) ==
  \E s \in Sessions :
    /\ session[s].status # "none"
    /\ Begin(b, "logout", [op |-> "logout", family |-> session[s].family, rows |-> {}])

\* The rows of the family when the UPDATE starts ...
FindFamily(b) ==
  LET f == call[b].family IN
  /\ pc[b] = "logout" /\ Free(b, {Family(f)})
  /\ call' = [call EXCEPT ![b].rows =
       {SessionRow(s) : s \in {r \in Sessions : session[r].status # "none"
                                               /\ session[r].family = f}}]
  /\ Continue(b, "end family", {Family(f)})

\* ... are revoked.
EndFamily(b) ==
  /\ pc[b] = "end family" /\ Free(b, call[b].rows)
  /\ session' = Revoked({s \in Sessions : SessionRow(s) \in call[b].rows})
  /\ loggedOut' = loggedOut \cup {call[b].family}
  /\ UNCHANGED << member, invite, audit >>
  /\ Finish(b)

-----------------------------------------------------------------------------
\* auth_complete_provider_login: the first one makes the account, a later one
\* enters the user's own account if it may, or another one.
Candidates(u) ==
  IF Active(HomeOf[u], u) THEN {HomeOf[u]} ELSE {a \in Accounts : Active(a, u)}

FirstLogin(u) == \A a \in Accounts : member[a][u].status = "none"

Login(b) ==
  \E u \in Users :
    \E a \in IF FirstLogin(u) THEN {HomeOf[u]} ELSE Candidates(u), s \in Unused :
      /\ pc[b] = "idle" /\ calls < MaxCalls
      /\ Free(b, {MemberRow(a, u)})
      /\ member' = [member EXCEPT ![a][u] =
                      IF FirstLogin(u) THEN [role |-> "owner", status |-> "active"] ELSE @]
      /\ session' = [session EXCEPT ![s] = [account |-> a, user |-> u, family |-> s,
                                            version |-> 0, status |-> "live"]]
      /\ audit' = Appended(a, "login")
      /\ calls' = calls + 1
      /\ UNCHANGED << invite, loggedOut, pc, call, held >>

-----------------------------------------------------------------------------
Step(b) ==
  \/ BeginUpdate(b) \/ BeginInvite(b) \/ BeginAccept(b) \/ BeginSwitch(b)
  \/ BeginRotate(b) \/ BeginLogout(b) \/ Login(b)
  \/ LockSession(b)
  \/ LockTarget(b) \/ FindOwners(b) \/ LockOwners(b) \/ CountOwners(b)
  \/ WriteMembership(b) \/ CommitUpdate(b)
  \/ CreateInvitation(b)
  \/ LockInvitation(b) \/ LockMembership(b) \/ AcceptInvitation(b)
  \/ SwitchAccount(b) \/ RotateSession(b)
  \/ FindFamily(b) \/ EndFamily(b)
  \/ Abort(b)

Next == (\E b \in Backends : Step(b)) \/ (\E i \in Invites : InvitationExpires(i))

Spec == Init /\ [][Next]_vars

-----------------------------------------------------------------------------
\* Properties.

\* "Removing or demoting the last active owner is prohibited transactionally"
\* (data-model.md): whatever is demoted, removed, suspended and promoted at
\* the same time, an account that exists keeps an active owner.
AccountHasOwner ==
  \A a \in Accounts : (\E u \in Users : member[a][u].status # "none") => ActiveOwners(a) # {}

\* A removal leaves no session behind in the account, not even one that is
\* rotated, switched to the account or opened by a login meanwhile: a member
\* who is admitted again starts with new sessions only.
RemovedHaveNoLiveSession ==
  \A s \in Sessions : session[s].status = "live" =>
    member[session[s].account][session[s].user].status # "removed"

\* "Successful changes revoke every target session in the same transaction"
\* (0024_auth_secure_membership_update.sql): none in the account outlives a
\* change of its member's role.
RoleChangeEndsSessions ==
  [][\A a \in Accounts, u \in Users :
       /\ member[a][u].status \in {"active", "suspended"}
       /\ member'[a][u].role # member[a][u].role
       => \A s \in Sessions :
            ~(session'[s].status = "live" /\ session'[s].account = a /\ session'[s].user = u)]_vars

\* After a logout no session of the family is live, although a rotation of
\* one of them may be under way.
LogoutEndsFamily ==
  \A s \in Sessions : session[s].status = "live" => session[s].family \notin loggedOut

\* Of two rotations of one cookie at most one succeeds.
OneLiveSessionPerFamily ==
  \A s, t \in Sessions :
    session[s].status = "live" /\ session[t].status = "live" /\ session[s].family = session[t].family
    => s = t

=============================================================================
