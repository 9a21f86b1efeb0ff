---------------------------- MODULE Access_proofs ----------------------------
(***************************************************************************)
(* What Access promises for any number of accounts, users, sessions and    *)
(* concurrent transactions, with proofs.                                   *)
(***************************************************************************)
EXTENDS Access, TLAPS, FiniteSetTheorems

-----------------------------------------------------------------------------
\* The inductive invariant.

\* What a transaction carries, by the function that it runs.
UpdateCalls == [op : {"update"}, sid : Sessions, version : Nat, account : Accounts, user : Users,
                role : Roles \cup {Keep}, status : MembershipStatus \cup {Keep},
                actorRole : Roles, rows : SUBSET Rows]
InviteCalls == [op : {"invite"}, sid : Sessions, version : Nat, account : Accounts,
                inv : Invites, role : Roles]
AcceptCalls == [op : {"accept"}, sid : Sessions, version : Nat, inv : Invites]
SwitchCalls == [op : {"switch"}, sid : Sessions, version : Nat, account : Accounts]
RotateCalls == [op : {"rotate"}, sid : Sessions, version : Nat]
LogoutCalls == [op : {"logout"}, family : Sessions, rows : SUBSET Rows]

CallsAt(statement) ==
  CASE statement = "idle" -> {NoCall}
    [] statement = "session" -> UpdateCalls \cup InviteCalls \cup AcceptCalls \cup SwitchCalls
    [] statement = "account" -> InviteCalls \cup SwitchCalls
    [] statement \in {"invitation", "membership", "insert"} -> AcceptCalls
    [] statement \in {"target", "owners", "lock owners", "count", "write", "revoke"} -> UpdateCalls
    [] statement = "rotate" -> RotateCalls
    [] statement \in {"logout", "end family"} -> LogoutCalls

CallsTyped ==
  /\ call = [b \in Backends |-> call[b]]
  /\ \A b \in Backends : call[b] \in CallsAt(pc[b])

\* A row that is locked for writing is locked by one transaction.
LocksExclusive == \A b, c \in Backends : b # c => held[b] \cap held[c] = {}

\* Nobody is invited to an account that has no members.
InvitedToMembers ==
  \A i \in Invites : invite[i].status # "none" =>
    \E u \in Users : member[invite[i].account][u].status # "none"

\* An acceptance works on an invitation that exists.
InvitationFound ==
  \A b \in Backends : pc[b] \in {"membership", "insert"} => invite[call[b].inv].status # "none"

Target(b) == MemberRow(call[b].account, call[b].user)

\* From its lock to the commit an update holds the row that it changes.
TargetHeld ==
  \A b \in Backends : pc[b] \in {"owners", "lock owners", "count", "write", "revoke"} =>
    Target(b) \in held[b] /\ member[call[b].account][call[b].user].status # "none"

\* The update takes an active owner from the account.
TakesOwner(b) ==
  DemotesOwner(call[b]) /\ ActiveOwner(call[b].account, call[b].user)

\* The owners that it has found, or has locked.
Found(b) == IF pc[b] = "lock owners" THEN call[b].rows ELSE held[b]

\* Of two such updates of one account the later one has found the other's
\* target, which still was an active owner.
OwnersFound ==
  \A b, c \in Backends :
    /\ b # c
    /\ {pc[b], pc[c]} \subseteq {"lock owners", "count", "write", "revoke"}
    /\ call[b].account = call[c].account
    /\ TakesOwner(b) /\ TakesOwner(c)
    => Target(c) \in Found(b) \/ Target(b) \in Found(c)

\* What the count has shown stays true until the commit.
OwnerRemains ==
  \A b \in Backends :
    pc[b] \in {"write", "revoke"} /\ TakesOwner(b) =>
      \E u \in Users : u # call[b].user /\ ActiveOwner(call[b].account, u)

IInv ==
  /\ TypeOK /\ CallsTyped /\ LocksExclusive /\ InvitedToMembers /\ InvitationFound
  /\ TargetHeld /\ OwnersFound /\ OwnerRemains /\ AccountHasOwner

-----------------------------------------------------------------------------
\* Types.

DataTyped ==
  /\ member \in Members
  /\ session \in [Sessions -> SessionRows]
  /\ invite \in [Invites -> Invitations]
  /\ audit \in [Accounts -> [EventNames -> Nat]]
  /\ loggedOut \subseteq Sessions

\* A call begins with arguments that its first statement expects.
LEMMA BeginTyped ==
  ASSUME TypeOK, CallsTyped, NEW b \in Backends, NEW statement \in Statements \ {"idle"},
         NEW arguments \in CallsAt(statement), Begin(b, statement, arguments)
  PROVE  TypeOK' /\ CallsTyped'
<1>1. /\ pc' = [pc EXCEPT ![b] = statement] /\ call' = [call EXCEPT ![b] = arguments]
      /\ calls' = calls + 1 /\ UNCHANGED << member, session, invite, audit, loggedOut, held >>
  BY DEF Begin, data
<1>2. CallsTyped'
  BY <1>1 DEF CallsTyped, TypeOK
<1>3. TypeOK'
  BY <1>1 DEF CallsTyped, TypeOK
<1> QED BY <1>2, <1>3

\* A statement hands on what the next one expects.
LEMMA ContinueTyped ==
  ASSUME TypeOK, CallsTyped, NEW b \in Backends, NEW statement \in Statements \ {"idle"},
         NEW next \in CallsAt(statement), NEW rows \in SUBSET Rows,
         Continue(b, statement, rows), call' = [call EXCEPT ![b] = next]
  PROVE  TypeOK' /\ CallsTyped'
<1>1. /\ pc' = [pc EXCEPT ![b] = statement] /\ held' = [held EXCEPT ![b] = @ \cup rows]
      /\ UNCHANGED << member, session, invite, audit, loggedOut, calls >>
  BY DEF Continue, data
<1>2. CallsTyped'
  BY <1>1 DEF CallsTyped, TypeOK
<1>3. TypeOK'
  BY <1>1 DEF CallsTyped, TypeOK
<1> QED BY <1>2, <1>3

\* The end of a transaction leaves nothing behind but what it has written.
LEMMA FinishTyped ==
  ASSUME TypeOK, CallsTyped, NEW b \in Backends, Finish(b), DataTyped'
  PROVE  TypeOK' /\ CallsTyped'
<1>1. /\ pc' = [pc EXCEPT ![b] = "idle"] /\ call' = [call EXCEPT ![b] = NoCall]
      /\ held' = [held EXCEPT ![b] = {}] /\ UNCHANGED calls
  BY DEF Finish
<1>2. NoCall \in CallsAt("idle") /\ "idle" \in Statements
  BY DEF CallsAt, Statements
<1>3. CallsTyped'
  BY <1>1, <1>2 DEF CallsTyped, TypeOK
<1>4. TypeOK'
  BY <1>1, <1>2 DEF CallsTyped, TypeOK, DataTyped
<1> QED BY <1>3, <1>4

LEMMA ReturnTyped ==
  ASSUME TypeOK, CallsTyped, NEW b \in Backends, Return(b)
  PROVE  TypeOK' /\ CallsTyped'
<1>1. DataTyped'
  BY DEF TypeOK, DataTyped, Return, data
<1> QED BY <1>1, FinishTyped DEF Return


LEMMA CallShapes ==
  ASSUME CallsTyped, NEW b \in Backends
  PROVE  /\ pc[b] = "session" =>
              call[b] \in UpdateCalls \cup InviteCalls \cup AcceptCalls \cup SwitchCalls
         /\ pc[b] = "account" => call[b] \in InviteCalls \cup SwitchCalls
         /\ pc[b] \in {"invitation", "membership", "insert"} => call[b] \in AcceptCalls
         /\ pc[b] \in {"target", "owners", "lock owners", "count", "write", "revoke"} =>
              call[b] \in UpdateCalls
         /\ pc[b] = "rotate" => call[b] \in RotateCalls
         /\ pc[b] \in {"logout", "end family"} => call[b] \in LogoutCalls
BY DEF CallsTyped, CallsAt

LEMMA CallsUnchanged ==
  ASSUME CallsTyped, NEW b \in Backends, UNCHANGED call
  PROVE  call' = [call EXCEPT ![b] = call[b]]
BY DEF CallsTyped

LEMMA RowsAreRows ==
  /\ \A a \in Accounts, u \in Users : MemberRow(a, u) \in Rows
  /\ \A s \in Sessions : SessionRow(s) \in Rows /\ Family(s) \in Rows
  /\ \A i \in Invites : InviteRow(i) \in Rows
BY DEF Rows

\* The two ways in which an update remembers rows.
LEMMA RowsRemembered ==
  ASSUME CallsTyped, NEW b \in Backends, NEW rows \in SUBSET Rows,
         call' = [call EXCEPT ![b].rows = rows],
         call[b] \in UpdateCalls \cup LogoutCalls
  PROVE  /\ call' = [call EXCEPT ![b] = [call[b] EXCEPT !.rows = rows]]
         /\ call[b] \in UpdateCalls => [call[b] EXCEPT !.rows = rows] \in UpdateCalls
         /\ call[b] \in LogoutCalls => [call[b] EXCEPT !.rows = rows] \in LogoutCalls
<1>1. call' = [call EXCEPT ![b] = [call[b] EXCEPT !.rows = rows]]
  BY DEF CallsTyped
<1>2. ASSUME call[b] \in UpdateCalls PROVE [call[b] EXCEPT !.rows = rows] \in UpdateCalls
  BY <1>2 DEF UpdateCalls
<1>3. ASSUME call[b] \in LogoutCalls PROVE [call[b] EXCEPT !.rows = rows] \in LogoutCalls
  BY <1>3 DEF LogoutCalls
<1> QED BY <1>1, <1>2, <1>3

\* Whatever a function does, the tables and its own state stay well typed.
LEMMA StepTyped ==
  ASSUME TypeOK, CallsTyped, NEW b \in Backends, Step(b)
  PROVE  TypeOK' /\ CallsTyped'
<1> USE RowsAreRows
<1>1. CASE BeginUpdate(b)
  <2>1. PICK s \in Sessions, u \in Users, change \in Changes :
          Begin(b, "session",
             [op |-> "update", sid |-> s, version |-> session[s].version,
              account |-> session[s].account, user |-> u, role |-> change.role,
              status |-> change.status,
              actorRole |-> member[session[s].account][session[s].user].role, rows |-> {}])
    BY <1>1 DEF BeginUpdate
  <2>2. session[s] \in SessionRows
    BY DEF TypeOK
  <2>3. member[session[s].account][session[s].user].role \in Roles
    BY <2>2 DEF TypeOK, Members, SessionRows
  <2>4. change.role \in Roles \cup {Keep} /\ change.status \in MembershipStatus \cup {Keep}
    BY ChangesAssumption
  <2>5. [op |-> "update", sid |-> s, version |-> session[s].version,
         account |-> session[s].account, user |-> u, role |-> change.role,
         status |-> change.status,
         actorRole |-> member[session[s].account][session[s].user].role, rows |-> {}]
          \in UpdateCalls
    BY <2>2, <2>3, <2>4 DEF UpdateCalls, SessionRows
  <2>6. UpdateCalls \subseteq CallsAt("session") /\ "session" \in Statements \ {"idle"}
    BY DEF CallsAt, Statements
  <2> QED BY <2>1, <2>5, <2>6, BeginTyped
<1>2. CASE BeginInvite(b)
  <2>1. PICK s \in Sessions, i \in Invites, r \in Roles :
          Begin(b, "session", [op |-> "invite", sid |-> s, version |-> session[s].version,
                               account |-> session[s].account, inv |-> i, role |-> r])
    BY <1>2 DEF BeginInvite
  <2>2. session[s] \in SessionRows
    BY DEF TypeOK
  <2>3. [op |-> "invite", sid |-> s, version |-> session[s].version,
         account |-> session[s].account, inv |-> i, role |-> r] \in InviteCalls
    BY <2>2 DEF InviteCalls, SessionRows
  <2>4. InviteCalls \subseteq CallsAt("session") /\ "session" \in Statements \ {"idle"}
    BY DEF CallsAt, Statements
  <2> QED BY <2>1, <2>3, <2>4, BeginTyped
<1>3. CASE BeginAccept(b)
  <2>1. PICK s \in Sessions, i \in Invites :
          Begin(b, "session", [op |-> "accept", sid |-> s, version |-> session[s].version,
                               inv |-> i])
    BY <1>3 DEF BeginAccept
  <2>2. [op |-> "accept", sid |-> s, version |-> session[s].version, inv |-> i] \in AcceptCalls
    BY DEF AcceptCalls, TypeOK, SessionRows
  <2>3. AcceptCalls \subseteq CallsAt("session") /\ "session" \in Statements \ {"idle"}
    BY DEF CallsAt, Statements
  <2> QED BY <2>1, <2>2, <2>3, BeginTyped
<1>4. CASE BeginSwitch(b)
  <2>1. PICK s \in Sessions, a \in Accounts :
          Begin(b, "session", [op |-> "switch", sid |-> s, version |-> session[s].version,
                               account |-> a])
    BY <1>4 DEF BeginSwitch
  <2>2. [op |-> "switch", sid |-> s, version |-> session[s].version, account |-> a] \in SwitchCalls
    BY DEF SwitchCalls, TypeOK, SessionRows
  <2>3. SwitchCalls \subseteq CallsAt("session") /\ "session" \in Statements \ {"idle"}
    BY DEF CallsAt, Statements
  <2> QED BY <2>1, <2>2, <2>3, BeginTyped
<1>5. CASE BeginRotate(b)
  <2>1. PICK s \in Sessions :
          Begin(b, "rotate", [op |-> "rotate", sid |-> s, version |-> session[s].version])
    BY <1>5 DEF BeginRotate
  <2>2. [op |-> "rotate", sid |-> s, version |-> session[s].version] \in RotateCalls
    BY DEF RotateCalls, TypeOK, SessionRows
  <2>3. RotateCalls \subseteq CallsAt("rotate") /\ "rotate" \in Statements \ {"idle"}
    BY DEF CallsAt, Statements
  <2> QED BY <2>1, <2>2, <2>3, BeginTyped
<1>6. CASE BeginLogout(b)
  <2>1. PICK s \in Sessions :
          Begin(b, "logout", [op |-> "logout", family |-> session[s].family, rows |-> {}])
    BY <1>6 DEF BeginLogout
  <2>2. [op |-> "logout", family |-> session[s].family, rows |-> {}] \in LogoutCalls
    BY DEF LogoutCalls, TypeOK, SessionRows
  <2>3. LogoutCalls \subseteq CallsAt("logout") /\ "logout" \in Statements \ {"idle"}
    BY DEF CallsAt, Statements
  <2> QED BY <2>1, <2>2, <2>3, BeginTyped
<1>7. CASE Login(b)
  <2>1. PICK u \in Users :
          \E a \in IF FirstLogin(u) THEN {HomeOf[u]} ELSE Candidates(u), s \in Unused :
            /\ member' = [member EXCEPT ![a][u] =
                            IF FirstLogin(u) THEN [role |-> "owner", status |-> "active"] ELSE @]
            /\ session' = [session EXCEPT ![s] = [account |-> a, user |-> u, family |-> s,
                                                  version |-> 0, status |-> "live"]]
            /\ audit' = Appended(a, "login")
            /\ calls' = calls + 1
            /\ UNCHANGED << invite, loggedOut, pc, call, held >>
    BY <1>7 DEF Login
  <2>2. PICK a \in IF FirstLogin(u) THEN {HomeOf[u]} ELSE Candidates(u), s \in Unused :
            /\ member' = [member EXCEPT ![a][u] =
                            IF FirstLogin(u) THEN [role |-> "owner", status |-> "active"] ELSE @]
            /\ session' = [session EXCEPT ![s] = [account |-> a, user |-> u, family |-> s,
                                                  version |-> 0, status |-> "live"]]
            /\ audit' = Appended(a, "login")
            /\ calls' = calls + 1
            /\ UNCHANGED << invite, loggedOut, pc, call, held >>
    BY <2>1
  <2>3. a \in Accounts /\ s \in Sessions
    BY HomeAssumption DEF Candidates, Unused
  <2>4. member' \in Members
    BY <2>2, <2>3, RolesAssumption DEF TypeOK, Members, MembershipStatus
  <2>5. session' \in [Sessions -> SessionRows]
    BY <2>2, <2>3 DEF TypeOK, SessionRows, SessionStatus
  <2>6. audit' \in [Accounts -> [EventNames -> Nat]]
    BY <2>2, <2>3 DEF TypeOK, Appended, EventNames
  <2>7. TypeOK'
    BY <2>2, <2>4, <2>5, <2>6 DEF TypeOK
  <2>8. CallsTyped'
    BY <2>2 DEF CallsTyped
  <2> QED BY <2>7, <2>8
<1>8. CASE LockSession(b)
  <2>1. CASE Return(b)
    BY <2>1, ReturnTyped
  <2>2. CASE /\ Continue(b, AfterSession(call[b].op), {SessionRow(call[b].sid)})
             /\ UNCHANGED call
    <3>1. call[b] \in UpdateCalls \cup InviteCalls \cup AcceptCalls \cup SwitchCalls
      BY <1>8, CallShapes DEF LockSession
    <3>2. call[b].sid \in Sessions
      BY <3>1 DEF UpdateCalls, InviteCalls, AcceptCalls, SwitchCalls
    <3>3. CASE call[b] \in UpdateCalls
      <4>1. AfterSession(call[b].op) = "target"
        BY <3>3 DEF AfterSession, UpdateCalls
      <4>2. call[b] \in CallsAt("target") /\ "target" \in Statements \ {"idle"}
        BY <3>3 DEF CallsAt, Statements
      <4> QED BY <2>2, <3>2, <4>1, <4>2, CallsUnchanged, ContinueTyped
    <3>4. CASE call[b] \in AcceptCalls
      <4>1. AfterSession(call[b].op) = "invitation"
        BY <3>4 DEF AfterSession, AcceptCalls
      <4>2. call[b] \in CallsAt("invitation") /\ "invitation" \in Statements \ {"idle"}
        BY <3>4 DEF CallsAt, Statements
      <4> QED BY <2>2, <3>2, <4>1, <4>2, CallsUnchanged, ContinueTyped
    <3>5. CASE call[b] \in InviteCalls \cup SwitchCalls
      <4>1. AfterSession(call[b].op) = "account"
        BY <3>5 DEF AfterSession, InviteCalls, SwitchCalls
      <4>2. call[b] \in CallsAt("account") /\ "account" \in Statements \ {"idle"}
        BY <3>5 DEF CallsAt, Statements
      <4> QED BY <2>2, <3>2, <4>1, <4>2, CallsUnchanged, ContinueTyped
    <3> QED BY <3>1, <3>3, <3>4, <3>5
  <2> QED BY <1>8, <2>1, <2>2 DEF LockSession
<1>9. CASE pc[b] \in {"target", "owners", "lock owners", "count", "write"} /\
           (LockTarget(b) \/ FindOwners(b) \/ LockOwners(b) \/ CountOwners(b) \/ WriteMembership(b))
  <2>1. call[b] \in UpdateCalls
    BY <1>9, CallShapes
  <2>2. /\ MemberRow(call[b].account, call[b].user) \in Rows
        /\ call[b].rows \subseteq Rows /\ call[b].account \in Accounts
    BY <2>1 DEF UpdateCalls
  <2>3. \A statement \in {"owners", "lock owners", "count", "write", "revoke"} :
          UpdateCalls \subseteq CallsAt(statement) /\ statement \in Statements \ {"idle"}
    BY DEF CallsAt, Statements
  <2>4. CASE Return(b)
    BY <2>4, ReturnTyped
  <2>5. CASE LockTarget(b) /\ ~Return(b)
    <3>1. PICK statement \in {"owners", "write"} :
            Continue(b, statement, {MemberRow(call[b].account, call[b].user)}) /\ UNCHANGED call
      BY <2>5 DEF LockTarget
    <3> QED BY <2>1, <2>2, <2>3, <3>1, CallsUnchanged, ContinueTyped
  <2>6. CASE FindOwners(b)
    <3> DEFINE found == {MemberRow(call[b].account, u) : u \in ActiveOwners(call[b].account)}
    <3>1. found \in SUBSET Rows
      BY <2>2 DEF ActiveOwners
    <3>2. call' = [call EXCEPT ![b].rows = found] /\ Continue(b, "lock owners", {})
      BY <2>6 DEF FindOwners
    <3> DEFINE next == [call[b] EXCEPT !.rows = found]
    <3> HIDE DEF found
    <3>3. call' = [call EXCEPT ![b] = next] /\ next \in UpdateCalls
      BY <2>1, <3>1, <3>2, RowsRemembered
    <3> HIDE DEF next
    <3>4. /\ "lock owners" \in Statements \ {"idle"} /\ next \in CallsAt("lock owners")
          /\ {} \in SUBSET Rows
      BY <2>3, <3>3
    <3> QED BY <3>2, <3>3, <3>4, ContinueTyped
  <2>7. CASE LockOwners(b)
    BY <2>1, <2>2, <2>3, <2>7, CallsUnchanged, ContinueTyped DEF LockOwners
  <2>8. CASE CountOwners(b) /\ ~Return(b)
    <3>1. Continue(b, "write", {}) /\ UNCHANGED call
      BY <2>8 DEF CountOwners
    <3>2. /\ "write" \in Statements \ {"idle"} /\ call[b] \in CallsAt("write")
          /\ {} \in SUBSET Rows
      BY <2>1, <2>3
    <3> QED BY <3>1, <3>2, CallsUnchanged, ContinueTyped
  <2>9. CASE WriteMembership(b)
    <3> DEFINE found == IF EndsSessions(call[b])
                          THEN {SessionRow(s) : s \in SessionsOf(call[b].account, call[b].user)}
                          ELSE {}
    <3>1. found \in SUBSET Rows
      BY DEF SessionsOf
    <3>2. call' = [call EXCEPT ![b].rows = found] /\ Continue(b, "revoke", {})
      BY <2>9 DEF WriteMembership
    <3> DEFINE next == [call[b] EXCEPT !.rows = found]
    <3> HIDE DEF found
    <3>3. call' = [call EXCEPT ![b] = next] /\ next \in UpdateCalls
      BY <2>1, <3>1, <3>2, RowsRemembered
    <3> HIDE DEF next
    <3>4. /\ "revoke" \in Statements \ {"idle"} /\ next \in CallsAt("revoke")
          /\ {} \in SUBSET Rows
      BY <2>3, <3>3
    <3> QED BY <3>2, <3>3, <3>4, ContinueTyped
  <2> QED BY <1>9, <2>4, <2>5, <2>6, <2>7, <2>8, <2>9
<1>10. CASE CommitUpdate(b)
  <2>1. call[b] \in UpdateCalls
    BY <1>10, CallShapes DEF CommitUpdate
  <2>2. call[b].account \in Accounts /\ call[b].user \in Users
    BY <2>1 DEF UpdateCalls
  <2>3. Updated(call[b]) \in [role : Roles, status : MembershipStatus \cup {"none"}]
    BY <2>1, <2>2 DEF Updated, UpdateCalls, TypeOK, Members
  <2>4. member' \in Members
    BY <1>10, <2>2, <2>3 DEF CommitUpdate, TypeOK, Members
  <2>5. session' \in [Sessions -> SessionRows]
    BY <1>10 DEF CommitUpdate, Revoked, TypeOK, SessionRows, SessionStatus
  <2>6. audit' \in [Accounts -> [EventNames -> Nat]]
    BY <1>10, <2>2 DEF CommitUpdate, TypeOK, Appended, EventNames
  <2>7. DataTyped' /\ Finish(b)
    BY <1>10, <2>4, <2>5, <2>6 DEF DataTyped, CommitUpdate, TypeOK
  <2> QED BY <2>7, FinishTyped
<1>11. CASE CreateInvitation(b)
  <2>1. CASE Return(b)
    BY <2>1, ReturnTyped
  <2>2. CASE ~Return(b)
    <3>1. call[b] \in InviteCalls
      BY <1>11, CallShapes DEF CreateInvitation, SwitchCalls
    <3>2. call[b].account \in Accounts /\ call[b].inv \in Invites /\ call[b].role \in Roles
      BY <3>1 DEF InviteCalls
    <3>3. /\ invite' = [invite EXCEPT ![call[b].inv] =
                          [account |-> call[b].account, role |-> call[b].role, by |-> NoUser,
                           expired |-> FALSE, status |-> "pending"]]
          /\ audit' = Appended(call[b].account, "invitation_created")
          /\ UNCHANGED << member, session, loggedOut >> /\ Finish(b)
      BY <1>11, <2>2 DEF CreateInvitation
    <3>4. invite' \in [Invites -> Invitations]
      BY <3>2, <3>3 DEF TypeOK, Invitations
    <3>5. audit' \in [Accounts -> [EventNames -> Nat]]
      BY <3>2, <3>3 DEF TypeOK, Appended, EventNames
    <3>6. DataTyped'
      BY <3>3, <3>4, <3>5 DEF TypeOK, DataTyped
    <3> QED BY <3>3, <3>6, FinishTyped
  <2> QED BY <2>1, <2>2
<1>12. CASE LockInvitation(b) \/ LockMembership(b)
  <2>1. call[b] \in AcceptCalls
    BY <1>12, CallShapes DEF LockInvitation, LockMembership
  <2>2. call[b].inv \in Invites /\ call[b].sid \in Sessions
    BY <2>1 DEF AcceptCalls
  <2>3. MemberRow(invite[call[b].inv].account, session[call[b].sid].user) \in Rows
    BY <2>2 DEF TypeOK, Invitations, SessionRows
  <2>4. \A statement \in {"membership", "insert"} :
          AcceptCalls \subseteq CallsAt(statement) /\ statement \in Statements \ {"idle"}
    BY DEF CallsAt, Statements
  <2>5. CASE Return(b)
    BY <2>5, ReturnTyped
  <2>6. CASE LockInvitation(b) /\ ~Return(b)
    BY <2>1, <2>2, <2>4, <2>6, CallsUnchanged, ContinueTyped DEF LockInvitation
  <2>7. CASE LockMembership(b) /\ ~Return(b)
    <3>1. PICK rows \in {{}, {MemberRow(invite[call[b].inv].account, session[call[b].sid].user)}} :
            Continue(b, "insert", rows) /\ UNCHANGED call
      BY <2>7 DEF LockMembership
    <3> QED BY <2>1, <2>3, <2>4, <3>1, CallsUnchanged, ContinueTyped
  <2> QED BY <1>12, <2>5, <2>6, <2>7
<1>13. CASE AcceptInvitation(b)
  <2>1. call[b] \in AcceptCalls
    BY <1>13, CallShapes DEF AcceptInvitation
  <2>2. call[b].inv \in Invites /\ call[b].sid \in Sessions
    BY <2>1 DEF AcceptCalls
  <2>3. invite[call[b].inv] \in Invitations /\ session[call[b].sid] \in SessionRows
    BY <2>2 DEF TypeOK
  <2> DEFINE a == invite[call[b].inv].account
             u == session[call[b].sid].user
  <2>4. a \in Accounts /\ u \in Users /\ invite[call[b].inv].role \in Roles
    BY <2>3 DEF Invitations, SessionRows
  <2>5. PICK m \in [role : Roles, status : MembershipStatus \cup {"none"}] :
          member' = [member EXCEPT ![a][u] = m]
    <3>1. member[a][u] \in [role : Roles, status : MembershipStatus \cup {"none"}]
      BY <2>4 DEF TypeOK, Members
    <3>2. [role |-> invite[call[b].inv].role, status |-> "active"]
             \in [role : Roles, status : MembershipStatus \cup {"none"}]
      BY <2>4 DEF MembershipStatus
    <3>3. member' = [member EXCEPT ![a][u] =
                       IF @.status \in {"none", "removed"}
                         THEN [role |-> invite[call[b].inv].role, status |-> "active"] ELSE @]
      BY <1>13 DEF AcceptInvitation
    <3>4. CASE member[a][u].status \in {"none", "removed"}
      <4>1. member' = [member EXCEPT ![a][u] =
                         [role |-> invite[call[b].inv].role, status |-> "active"]]
        BY <3>3, <3>4
      <4> QED BY <3>2, <4>1
    <3>5. CASE member[a][u].status \notin {"none", "removed"}
      <4>1. member' = [member EXCEPT ![a][u] = member[a][u]]
        BY <3>3, <3>5
      <4> QED BY <3>1, <4>1
    <3> QED BY <3>4, <3>5
  <2>6. /\ invite' = [invite EXCEPT ![call[b].inv].status = "accepted", ![call[b].inv].by = u]
        /\ audit' = Appended(a, "invitation_accepted")
        /\ session' = Moved(call[b].sid, a)
        /\ UNCHANGED loggedOut /\ Finish(b)
    BY <1>13 DEF AcceptInvitation
  <2> HIDE DEF a, u
  <2>7. member' \in Members
    BY <2>4, <2>5 DEF TypeOK, Members
  <2>8. invite' \in [Invites -> Invitations]
    <3> DEFINE row == [invite[call[b].inv] EXCEPT !.status = "accepted", !.by = u]
    <3>1. row \in Invitations
      BY <2>3, <2>4 DEF Invitations
    <3>2. invite' = [invite EXCEPT ![call[b].inv] = row]
      BY <2>2, <2>6 DEF TypeOK
    <3> HIDE DEF row
    <3> QED BY <2>2, <3>1, <3>2 DEF TypeOK
  <2>9. audit' \in [Accounts -> [EventNames -> Nat]]
    BY <2>4, <2>6 DEF TypeOK, Appended, EventNames
  <2>10. session' \in [Sessions -> SessionRows]
    BY <2>2, <2>4, <2>6 DEF Moved, TypeOK, SessionRows
  <2>11. DataTyped'
    BY <2>6, <2>7, <2>8, <2>9, <2>10 DEF DataTyped, TypeOK
  <2> QED BY <2>6, <2>11, FinishTyped
<1>14. CASE SwitchAccount(b)
  <2>1. CASE Return(b)
    BY <2>1, ReturnTyped
  <2>2. CASE ~Return(b)
    <3>1. call[b] \in SwitchCalls
      BY <1>14, CallShapes DEF SwitchAccount, InviteCalls
    <3>2. call[b].account \in Accounts /\ call[b].sid \in Sessions
      BY <3>1 DEF SwitchCalls
    <3>3. session' = Moved(call[b].sid, call[b].account) /\ Finish(b)
          /\ UNCHANGED << member, invite, audit, loggedOut >>
      BY <1>14, <2>2 DEF SwitchAccount
    <3>4. session' \in [Sessions -> SessionRows]
      BY <3>2, <3>3 DEF Moved, TypeOK, SessionRows
    <3>5. DataTyped'
      BY <3>3, <3>4 DEF DataTyped, TypeOK
    <3> QED BY <3>3, <3>5, FinishTyped
  <2> QED BY <2>1, <2>2
<1>15. CASE RotateSession(b)
  <2>1. CASE Return(b)
    BY <2>1, ReturnTyped
  <2>2. CASE ~Return(b)
    <3>1. call[b].sid \in Sessions
      BY <1>15, CallShapes DEF RotateSession, RotateCalls
    <3>2. PICK new \in Unused :
             session' = [session EXCEPT ![call[b].sid].status = "revoked",
                                        ![new] = [session[call[b].sid] EXCEPT !.version = 0]]
      BY <1>15, <2>2 DEF RotateSession
    <3> DEFINE ended == [session EXCEPT ![call[b].sid].status = "revoked"]
               row == [session[call[b].sid] EXCEPT !.version = 0]
    <3>3. ended \in [Sessions -> SessionRows] /\ row \in SessionRows
      BY <3>1 DEF TypeOK, SessionRows, SessionStatus
    <3>4. session' = [ended EXCEPT ![new] = row]
      BY <3>2
    <3> HIDE DEF ended, row
    <3>5. session' \in [Sessions -> SessionRows]
      BY <3>3, <3>4
    <3>6. DataTyped' /\ Finish(b)
      BY <1>15, <2>2, <3>5 DEF DataTyped, TypeOK, RotateSession
    <3> QED BY <3>6, FinishTyped
  <2> QED BY <2>1, <2>2
<1>16. CASE FindFamily(b)
  <2>1. call[b] \in LogoutCalls /\ call[b].family \in Sessions
    BY <1>16, CallShapes DEF FindFamily, LogoutCalls
  <2> DEFINE found == {SessionRow(s) : s \in {r \in Sessions : session[r].status # "none"
                                                    /\ session[r].family = call[b].family}}
  <2>2. found \in SUBSET Rows
    OBVIOUS
  <2>3. call' = [call EXCEPT ![b].rows = found]
        /\ Continue(b, "end family", {Family(call[b].family)})
    BY <1>16 DEF FindFamily
  <2>4. LogoutCalls \subseteq CallsAt("end family") /\ "end family" \in Statements \ {"idle"}
    BY DEF CallsAt, Statements
  <2> DEFINE next == [call[b] EXCEPT !.rows = found]
  <2> HIDE DEF found
  <2>5. call' = [call EXCEPT ![b] = next] /\ next \in LogoutCalls
    BY <2>1, <2>2, <2>3, RowsRemembered
  <2> HIDE DEF next
  <2>6. {Family(call[b].family)} \in SUBSET Rows
    BY <2>1
  <2> QED BY <2>3, <2>4, <2>5, <2>6, ContinueTyped
<1>17. CASE EndFamily(b)
  <2>1. call[b].family \in Sessions
    BY <1>17, CallShapes DEF EndFamily, LogoutCalls
  <2>2. session' \in [Sessions -> SessionRows]
    BY <1>17 DEF EndFamily, Revoked, TypeOK, SessionRows, SessionStatus
  <2>3. DataTyped' /\ Finish(b)
    BY <1>17, <2>1, <2>2 DEF DataTyped, TypeOK, EndFamily
  <2> QED BY <2>3, FinishTyped
<1>18. CASE Abort(b)
  BY <1>18, ReturnTyped DEF Abort
<1>19. /\ LockTarget(b) => pc[b] = "target"
       /\ FindOwners(b) => pc[b] = "owners"
       /\ LockOwners(b) => pc[b] = "lock owners"
       /\ CountOwners(b) => pc[b] = "count"
       /\ WriteMembership(b) => pc[b] = "write"
  BY DEF LockTarget, FindOwners, LockOwners, CountOwners, WriteMembership
<1> QED
  BY <1>1, <1>2, <1>3, <1>4, <1>5, <1>6, <1>7, <1>8, <1>9, <1>10, <1>11, <1>12, <1>13, <1>14,
     <1>15, <1>16, <1>17, <1>18, <1>19 DEF Step

-----------------------------------------------------------------------------
\* What one step can touch.

\* It changes nothing of another transaction.
LEMMA OthersUntouched ==
  ASSUME TypeOK, CallsTyped, NEW b \in Backends, Step(b), NEW c \in Backends \ {b}
  PROVE  pc'[c] = pc[c] /\ call'[c] = call[c] /\ held'[c] = held[c]
<1>1. ASSUME NEW statement, NEW arguments, Begin(b, statement, arguments)
      PROVE  pc'[c] = pc[c] /\ call'[c] = call[c] /\ held'[c] = held[c]
  BY <1>1 DEF Begin, TypeOK, CallsTyped
<1>2. ASSUME NEW statement, NEW rows, Continue(b, statement, rows)
      PROVE  pc'[c] = pc[c] /\ held'[c] = held[c]
  BY <1>2 DEF Continue, TypeOK, CallsTyped
<1>3. ASSUME Finish(b)
      PROVE  pc'[c] = pc[c] /\ call'[c] = call[c] /\ held'[c] = held[c]
  BY <1>3 DEF Finish, TypeOK, CallsTyped
<1>4. CASE \/ BeginUpdate(b) \/ BeginInvite(b) \/ BeginAccept(b) \/ BeginSwitch(b)
           \/ BeginRotate(b) \/ BeginLogout(b)
  BY <1>1, <1>4 DEF BeginUpdate, BeginInvite, BeginAccept, BeginSwitch, BeginRotate, BeginLogout
<1>5. CASE Login(b)
  BY <1>5 DEF Login
<1>6. CASE \/ LockSession(b) \/ LockTarget(b) \/ LockOwners(b) \/ CountOwners(b)
           \/ LockInvitation(b) \/ LockMembership(b)
  BY <1>2, <1>3, <1>6
     DEF LockSession, LockTarget, LockOwners, CountOwners, LockInvitation, LockMembership, Return
<1>7. CASE FindOwners(b) \/ WriteMembership(b) \/ FindFamily(b)
  <2>1. pc'[c] = pc[c] /\ held'[c] = held[c]
    BY <1>2, <1>7 DEF FindOwners, WriteMembership, FindFamily
  <2>2. PICK rows : call' = [call EXCEPT ![b].rows = rows]
    BY <1>7 DEF FindOwners, WriteMembership, FindFamily
  <2>3. call'[c] = call[c]
    BY <2>2 DEF CallsTyped
  <2> QED BY <2>1, <2>3
<1>8. CASE \/ CommitUpdate(b) \/ CreateInvitation(b) \/ AcceptInvitation(b) \/ SwitchAccount(b)
           \/ RotateSession(b) \/ EndFamily(b) \/ Abort(b)
  <2>1. Finish(b)
    BY <1>8 DEF CommitUpdate, CreateInvitation, AcceptInvitation, SwitchAccount, RotateSession,
                EndFamily, Abort, Return
  <2> QED BY <2>1, <1>3
<1> QED BY <1>4, <1>5, <1>6, <1>7, <1>8 DEF Step

\* It locks only rows that no other transaction has locked.
LEMMA LocksStep ==
  ASSUME TypeOK, CallsTyped, LocksExclusive, NEW b \in Backends, Step(b)
  PROVE  LocksExclusive'
<1>1. \A c \in Backends \ {b} : held'[c] = held[c]
  BY OthersUntouched
<1>2. held'[b] = {} \/ \E rows : held'[b] = held[b] \cup rows /\ Free(b, rows)
  <2>1. ASSUME NEW statement, NEW arguments, Begin(b, statement, arguments)
        PROVE  held'[b] = held[b] \cup {} /\ Free(b, {})
    BY <2>1 DEF Begin, Free
  <2>2. ASSUME NEW statement, NEW rows, Continue(b, statement, rows)
        PROVE  held'[b] = held[b] \cup rows
    BY <2>2 DEF Continue, TypeOK
  <2>3. ASSUME Finish(b) PROVE held'[b] = {}
    BY <2>3 DEF Finish, TypeOK
  <2>4. Free(b, {})
    BY DEF Free
  <2>5. CASE \/ BeginUpdate(b) \/ BeginInvite(b) \/ BeginAccept(b) \/ BeginSwitch(b)
             \/ BeginRotate(b) \/ BeginLogout(b)
    BY <2>1, <2>5 DEF BeginUpdate, BeginInvite, BeginAccept, BeginSwitch, BeginRotate, BeginLogout
  <2>6. CASE Login(b)
    <3>1. held'[b] = held[b] \cup {}
      BY <2>6 DEF Login
    <3> QED BY <2>4, <3>1
  <2>7. CASE \/ LockSession(b) \/ LockTarget(b) \/ LockOwners(b) \/ LockInvitation(b)
    BY <2>2, <2>3, <2>7 DEF LockSession, LockTarget, LockOwners, LockInvitation, Return
  <2>8. CASE LockMembership(b)
    <3> DEFINE row == MemberRow(invite[call[b].inv].account, session[call[b].sid].user)
    <3>1. CASE Return(b)
      BY <2>3, <3>1 DEF Return
    <3>2. CASE ~Return(b)
      <4>1. Free(b, {row}) /\ \E rows \in {{}, {row}} : Continue(b, "insert", rows)
        BY <2>8, <3>2 DEF LockMembership
      <4> HIDE DEF row
      <4> QED BY <2>2, <2>4, <4>1
    <3> QED BY <3>1, <3>2
  <2>9. CASE FindOwners(b) \/ CountOwners(b) \/ WriteMembership(b)
    BY <2>2, <2>3, <2>4, <2>9 DEF FindOwners, CountOwners, WriteMembership, Return
  <2>10. CASE FindFamily(b)
    BY <2>2, <2>10 DEF FindFamily
  <2>11. CASE \/ CommitUpdate(b) \/ CreateInvitation(b) \/ AcceptInvitation(b) \/ SwitchAccount(b)
              \/ RotateSession(b) \/ EndFamily(b) \/ Abort(b)
    <3>1. Finish(b)
      BY <2>11 DEF CommitUpdate, CreateInvitation, AcceptInvitation, SwitchAccount, RotateSession,
                   EndFamily, Abort, Return
    <3> QED BY <2>3, <3>1
  <2> QED BY <2>5, <2>6, <2>7, <2>8, <2>9, <2>10, <2>11 DEF Step
<1>3. SUFFICES ASSUME NEW c \in Backends, NEW d \in Backends, c # d
               PROVE  held'[c] \cap held'[d] = {}
  BY DEF LocksExclusive
<1>4. \A e \in Backends \ {b} : held'[b] \cap held'[e] = {}
  BY <1>1, <1>2 DEF LocksExclusive, Free
<1> QED BY <1>1, <1>3, <1>4 DEF LocksExclusive


\* The three ways in which a membership changes: a first login makes an owner,
\* an invitation admits somebody to an account that has members, and an update
\* that holds the row commits.
Admits(a, u) ==
  /\ member[a][u].status \in {"none", "removed"}
  /\ member'[a][u].status = "active"
  /\ member'[a][u].role = "owner" \/ \E v \in Users : member[a][v].status # "none"

Commits(b, a, u) ==
  /\ pc[b] = "revoke" /\ a = call[b].account /\ u = call[b].user
  /\ member'[a][u] = Updated(call[b])
  /\ session' = Revoked({s \in SessionsOf(a, u) : SessionRow(s) \in call[b].rows})

LEMMA MemberStep ==
  ASSUME TypeOK, CallsTyped, LocksExclusive, InvitedToMembers, InvitationFound, TargetHeld,
         NEW b \in Backends, Step(b)
  PROVE  \/ UNCHANGED member
         \/ \E a \in Accounts, u \in Users :
              /\ Free(b, {MemberRow(a, u)})
              /\ member' \in Members
              /\ \A d \in Accounts, v \in Users :
                   d # a \/ v # u => member'[d][v] = member[d][v]
              /\ Admits(a, u) \/ Commits(b, a, u)
<1> USE RowsAreRows
<1>0. member' \in Members
  BY StepTyped DEF TypeOK
<1>1. CASE Login(b)
  <2>1. PICK u \in Users :
          \E a \in IF FirstLogin(u) THEN {HomeOf[u]} ELSE Candidates(u), s \in Unused :
            /\ Free(b, {MemberRow(a, u)})
            /\ member' = [member EXCEPT ![a][u] =
                            IF FirstLogin(u) THEN [role |-> "owner", status |-> "active"] ELSE @]
    BY <1>1 DEF Login
  <2>2. PICK a \in IF FirstLogin(u) THEN {HomeOf[u]} ELSE Candidates(u) :
            /\ Free(b, {MemberRow(a, u)})
            /\ member' = [member EXCEPT ![a][u] =
                            IF FirstLogin(u) THEN [role |-> "owner", status |-> "active"] ELSE @]
    BY <2>1
  <2>3. a \in Accounts
    BY HomeAssumption DEF Candidates
  <2>4. CASE FirstLogin(u)
    <3>1. member' = [member EXCEPT ![a][u] = [role |-> "owner", status |-> "active"]]
      BY <2>2, <2>4
    <3>2. \A d \in Accounts, v \in Users : d # a \/ v # u => member'[d][v] = member[d][v]
      BY <2>3, <3>1 DEF TypeOK, Members
    <3>3. member'[a][u] = [role |-> "owner", status |-> "active"]
      BY <2>3, <3>1 DEF TypeOK, Members
    <3>4. Admits(a, u)
      BY <2>3, <2>4, <3>3 DEF Admits, FirstLogin
    <3> QED BY <1>0, <2>2, <2>3, <3>2, <3>4
  <2>5. CASE ~FirstLogin(u)
    <3>1. member' = [member EXCEPT ![a][u] = member[a][u]]
      BY <2>2, <2>5
    <3>2. UNCHANGED member
      BY <2>3, <3>1 DEF TypeOK, Members
    <3> QED BY <3>2
  <2> QED BY <2>4, <2>5
<1>2. CASE AcceptInvitation(b)
  <2>1. call[b].inv \in Invites /\ call[b].sid \in Sessions
    BY <1>2, CallShapes DEF AcceptInvitation, AcceptCalls
  <2> DEFINE a == invite[call[b].inv].account
             u == session[call[b].sid].user
             new == [role |-> invite[call[b].inv].role, status |-> "active"]
  <2>2. a \in Accounts /\ u \in Users
    BY <2>1 DEF TypeOK, Invitations, SessionRows
  <2>3. /\ Free(b, {MemberRow(a, u)})
        /\ member' = [member EXCEPT ![a][u] =
                        IF @.status \in {"none", "removed"} THEN new ELSE @]
        /\ invite' = [invite EXCEPT ![call[b].inv].status = "accepted", ![call[b].inv].by = u]
    BY <1>2 DEF AcceptInvitation
  <2>4. CASE member[a][u].status \in {"none", "removed"}
    <3>1. member' = [member EXCEPT ![a][u] = new]
      BY <2>3, <2>4
    <3>2. \A d \in Accounts, v \in Users : d # a \/ v # u => member'[d][v] = member[d][v]
      BY <2>2, <3>1 DEF TypeOK, Members
    <3>3. member'[a][u] = new
      BY <2>2, <3>1 DEF TypeOK, Members
    <3>4. invite[call[b].inv].status # "none"
      BY <1>2 DEF InvitationFound, AcceptInvitation
    <3>5. \E v \in Users : member[a][v].status # "none"
      BY <2>1, <3>4 DEF InvitedToMembers
    <3>6. member'[a][u].status = "active"
      BY <3>3
    <3> HIDE DEF a, u
    <3>7. Admits(a, u)
      BY <2>4, <3>5, <3>6 DEF Admits
    <3> QED BY <1>0, <2>2, <2>3, <3>2, <3>7
  <2>5. CASE member[a][u].status \notin {"none", "removed"}
    <3>1. member' = [member EXCEPT ![a][u] = member[a][u]]
      BY <2>3, <2>5
    <3>2. UNCHANGED member
      BY <2>2, <3>1 DEF TypeOK, Members
    <3> QED BY <3>2
  <2> QED BY <2>4, <2>5
<1>3. CASE CommitUpdate(b)
  <2>1. call[b] \in UpdateCalls /\ pc[b] = "revoke"
    BY <1>3, CallShapes DEF CommitUpdate
  <2> DEFINE a == call[b].account
             u == call[b].user
  <2>2. a \in Accounts /\ u \in Users
    BY <2>1 DEF UpdateCalls
  <2>3. member' = [member EXCEPT ![a][u] = Updated(call[b])]
    BY <1>3 DEF CommitUpdate
  <2>4. Free(b, {MemberRow(a, u)})
    <3>1. MemberRow(a, u) \in held[b]
      BY <2>1 DEF TargetHeld, Target
    <3> QED BY <3>1 DEF LocksExclusive, Free
  <2>5. \A d \in Accounts, v \in Users : d # a \/ v # u => member'[d][v] = member[d][v]
    BY <2>2, <2>3 DEF TypeOK, Members
  <2>6. member'[a][u] = Updated(call[b])
    BY <2>2, <2>3 DEF TypeOK, Members
  <2>7. Commits(b, a, u)
    BY <1>3, <2>1, <2>6 DEF Commits, CommitUpdate
  <2> QED BY <1>0, <2>2, <2>4, <2>5, <2>7
<1>4. CASE ~Login(b) /\ ~AcceptInvitation(b) /\ ~CommitUpdate(b)
  <2>1. UNCHANGED member
    BY <1>4 DEF Step, Begin, Continue, Return, data, Abort,
         BeginUpdate, BeginInvite, BeginAccept, BeginSwitch, BeginRotate, BeginLogout,
         LockSession, LockTarget, FindOwners, LockOwners, CountOwners, WriteMembership,
         CreateInvitation, LockInvitation, LockMembership, SwitchAccount, RotateSession,
         FindFamily, EndFamily
  <2> QED BY <2>1
<1> QED BY <1>1, <1>2, <1>3, <1>4


LEMMA MemberChanges ==
  ASSUME TypeOK, CallsTyped, LocksExclusive, InvitedToMembers, InvitationFound, TargetHeld,
         NEW b \in Backends, Step(b),
         NEW a \in Accounts, NEW u \in Users, member'[a][u] # member[a][u]
  PROVE  Admits(a, u) \/ Commits(b, a, u)
BY MemberStep

\* No step erases a membership.
LEMMA MembersStay ==
  ASSUME TypeOK, CallsTyped, LocksExclusive, InvitedToMembers, InvitationFound, TargetHeld,
         NEW b \in Backends, Step(b),
         NEW a \in Accounts, NEW u \in Users, member[a][u].status # "none"
  PROVE  member'[a][u].status # "none"
<1>1. ASSUME Commits(b, a, u) PROVE member'[a][u].status # "none"
  <2>1. call[b] \in UpdateCalls
    BY <1>1, CallShapes DEF Commits
  <2>2. member'[a][u].status = IF call[b].status = Keep THEN member[a][u].status
                                                        ELSE call[b].status
    BY <1>1 DEF Commits, Updated
  <2> QED BY <2>1, <2>2 DEF UpdateCalls, MembershipStatus
<1> QED BY <1>1, MemberStep DEF Admits

\* A row that a transaction has locked is changed by that transaction only.
LEMMA LockedRowKept ==
  ASSUME TypeOK, CallsTyped, LocksExclusive, InvitedToMembers, InvitationFound, TargetHeld,
         NEW b \in Backends, Step(b), NEW c \in Backends \ {b},
         NEW a \in Accounts, NEW u \in Users, MemberRow(a, u) \in held[c]
  PROVE  member'[a][u] = member[a][u]
BY MemberStep DEF Free

\* What the owner guard is about stays as it is between the statements of an
\* update, whatever other transactions do.
Guarded(c) == pc[c] \in {"owners", "lock owners", "count", "write", "revoke"}

LEMMA OthersGuarded ==
  ASSUME TypeOK, CallsTyped, LocksExclusive, InvitedToMembers, InvitationFound, TargetHeld,
         NEW b \in Backends, Step(b), NEW c \in Backends \ {b}, Guarded(c)
  PROVE  /\ call[c] \in UpdateCalls
         /\ member'[call[c].account][call[c].user] = member[call[c].account][call[c].user]
         /\ TakesOwner(c)' <=> TakesOwner(c)
         /\ Found(c)' = Found(c)
<1>1. call[c] \in UpdateCalls /\ call[c].account \in Accounts /\ call[c].user \in Users
  BY CallShapes DEF Guarded, UpdateCalls
<1>2. Target(c) \in held[c]
  BY DEF TargetHeld, Guarded
<1>3. member'[call[c].account][call[c].user] = member[call[c].account][call[c].user]
  BY <1>1, <1>2, LockedRowKept DEF Target
<1>4. pc'[c] = pc[c] /\ call'[c] = call[c] /\ held'[c] = held[c]
  BY OthersUntouched
<1>5. TakesOwner(c)' <=> TakesOwner(c)
  BY <1>3, <1>4 DEF TakesOwner, DemotesOwner, Updated, ActiveOwner, Active
<1>6. Found(c)' = Found(c)
  BY <1>4 DEF Found
<1> QED BY <1>1, <1>3, <1>5, <1>6

\* A step of the transaction itself: it reaches the guard by locking its target,
\* and goes through it without changing what it is about.
LEMMA OwnGuarded ==
  ASSUME TypeOK, CallsTyped, NEW b \in Backends, Step(b), Guarded(b)'
  PROVE  /\ UNCHANGED member
         /\ call[b] \in UpdateCalls
         /\ call'[b].account = call[b].account /\ call'[b].user = call[b].user
         /\ TakesOwner(b)' <=> TakesOwner(b)
         /\ held[b] \subseteq held'[b]
         /\ \/ /\ LockTarget(b) /\ pc[b] = "target" /\ MayUpdate(call[b])
               /\ Target(b) \in held'[b]
               /\ pc'[b] = IF DemotesOwner(call[b]) THEN "owners" ELSE "write"
            \/ /\ FindOwners(b) /\ pc[b] = "owners" /\ pc'[b] = "lock owners"
               /\ call'[b].rows =
                    {MemberRow(call[b].account, u) : u \in ActiveOwners(call[b].account)}
            \/ /\ LockOwners(b) /\ pc[b] = "lock owners" /\ pc'[b] = "count"
               /\ held'[b] = held[b] \cup call[b].rows
            \/ /\ CountOwners(b) /\ pc[b] = "count" /\ pc'[b] = "write"
               /\ Cardinality(ActiveOwners(call[b].account)) > 1
            \/ WriteMembership(b) /\ pc[b] = "write" /\ pc'[b] = "revoke"
<1>1. ASSUME NEW statement, NEW rows, Continue(b, statement, rows)
      PROVE  pc'[b] = statement /\ held'[b] = held[b] \cup rows /\ UNCHANGED member
  BY <1>1 DEF Continue, TypeOK, data
<1>2. ASSUME Finish(b) PROVE FALSE
  BY <1>2 DEF Finish, TypeOK, Guarded
<1>3. ~ \/ BeginUpdate(b) \/ BeginInvite(b) \/ BeginAccept(b) \/ BeginSwitch(b)
        \/ BeginRotate(b) \/ BeginLogout(b)
  <2>1. ASSUME NEW arguments, Begin(b, "session", arguments) PROVE FALSE
    BY <2>1 DEF Begin, TypeOK, Guarded
  <2>2. ASSUME NEW arguments, Begin(b, "rotate", arguments) PROVE FALSE
    BY <2>2 DEF Begin, TypeOK, Guarded
  <2>3. ASSUME NEW arguments, Begin(b, "logout", arguments) PROVE FALSE
    BY <2>3 DEF Begin, TypeOK, Guarded
  <2> QED BY <2>1, <2>2, <2>3
         DEF BeginUpdate, BeginInvite, BeginAccept, BeginSwitch, BeginRotate, BeginLogout
<1>4. ~Login(b)
  BY DEF Login, Guarded
<1>5. ~LockSession(b)
  <2>1. SUFFICES ASSUME LockSession(b) PROVE FALSE
    OBVIOUS
  <2>2. pc'[b] = AfterSession(call[b].op)
    BY <1>1, <1>2, <2>1 DEF LockSession, Return
  <2>3. call[b].op \in {"update", "invite", "accept", "switch"}
    BY <2>1, CallShapes DEF LockSession, UpdateCalls, InviteCalls, AcceptCalls, SwitchCalls
  <2>4. AfterSession(call[b].op) \in {"target", "invitation", "account"}
    BY <2>3 DEF AfterSession
  <2> QED BY <2>2, <2>4 DEF Guarded
<1>6. ~ \/ CommitUpdate(b) \/ CreateInvitation(b) \/ AcceptInvitation(b) \/ SwitchAccount(b)
        \/ RotateSession(b) \/ EndFamily(b) \/ Abort(b)
  BY <1>2 DEF CommitUpdate, CreateInvitation, AcceptInvitation, SwitchAccount, RotateSession,
              EndFamily, Abort, Return
<1>7. ~ (LockInvitation(b) \/ LockMembership(b) \/ FindFamily(b))
  <2>1. ASSUME LockInvitation(b) PROVE FALSE
    <3>1. pc'[b] = "membership"
      BY <1>1, <1>2, <2>1 DEF LockInvitation, Return
    <3> QED BY <3>1 DEF Guarded
  <2>2. ASSUME LockMembership(b) PROVE FALSE
    <3>1. pc'[b] = "insert"
      BY <1>1, <1>2, <2>2 DEF LockMembership, Return
    <3> QED BY <3>1 DEF Guarded
  <2>3. ASSUME FindFamily(b) PROVE FALSE
    <3>1. pc'[b] = "end family"
      BY <1>1, <2>3 DEF FindFamily
    <3> QED BY <3>1 DEF Guarded
  <2> QED BY <2>1, <2>2, <2>3
<1>8. CASE LockTarget(b)
  <2>1. /\ MayUpdate(call[b]) /\ UNCHANGED call /\ pc[b] = "target"
        /\ Continue(b, IF DemotesOwner(call[b]) THEN "owners" ELSE "write", {Target(b)})
    BY <1>2, <1>8 DEF LockTarget, Return, Target
  <2>2. /\ pc'[b] = IF DemotesOwner(call[b]) THEN "owners" ELSE "write"
        /\ held'[b] = held[b] \cup {Target(b)} /\ UNCHANGED member
    BY <1>1, <2>1
  <2>3. call[b] \in UpdateCalls
    BY <2>1, CallShapes
  <2>4. TakesOwner(b)' <=> TakesOwner(b)
    BY <2>1, <2>2 DEF TakesOwner, DemotesOwner, Updated, ActiveOwner, Active
  <2> QED BY <1>8, <2>1, <2>2, <2>3, <2>4
<1>9. CASE FindOwners(b) \/ WriteMembership(b)
  <2>1. /\ pc[b] \in {"owners", "write"}
        /\ FindOwners(b) => pc[b] = "owners" /\ pc'[b] = "lock owners"
        /\ WriteMembership(b) => pc[b] = "write" /\ pc'[b] = "revoke"
        /\ held[b] \subseteq held'[b] /\ UNCHANGED member
    BY <1>1, <1>9 DEF FindOwners, WriteMembership
  <2>2. call[b] \in UpdateCalls
    BY <2>1, CallShapes
  <2>3. PICK rows : /\ call' = [call EXCEPT ![b].rows = rows]
                    /\ FindOwners(b) => rows =
                         {MemberRow(call[b].account, u) : u \in ActiveOwners(call[b].account)}
    BY <1>9, <2>1 DEF FindOwners, WriteMembership
  <2>4. /\ call'[b].account = call[b].account /\ call'[b].user = call[b].user
        /\ call'[b].role = call[b].role /\ call'[b].status = call[b].status
        /\ call'[b].rows = rows
    BY <2>2, <2>3 DEF CallsTyped, UpdateCalls
  <2>5. TakesOwner(b)' <=> TakesOwner(b)
    BY <2>1, <2>4 DEF TakesOwner, DemotesOwner, Updated, ActiveOwner, Active
  <2> QED BY <1>9, <2>1, <2>2, <2>3, <2>4, <2>5
<1>10. CASE LockOwners(b) \/ CountOwners(b)
  <2>1. /\ UNCHANGED << call, member >> /\ pc[b] \in {"lock owners", "count"}
        /\ LockOwners(b) => /\ pc[b] = "lock owners" /\ pc'[b] = "count"
                            /\ held'[b] = held[b] \cup call[b].rows
        /\ CountOwners(b) => /\ pc[b] = "count" /\ pc'[b] = "write" /\ held'[b] = held[b] \cup {}
                             /\ Cardinality(ActiveOwners(call[b].account)) > 1
    BY <1>1, <1>2, <1>10 DEF LockOwners, CountOwners, Return
  <2>2. call[b] \in UpdateCalls
    BY <2>1, CallShapes
  <2>3. TakesOwner(b)' <=> TakesOwner(b)
    BY <2>1 DEF TakesOwner, DemotesOwner, Updated, ActiveOwner, Active
  <2> QED BY <1>10, <2>1, <2>2, <2>3
<1> QED BY <1>3, <1>4, <1>5, <1>6, <1>7, <1>8, <1>9, <1>10 DEF Step

-----------------------------------------------------------------------------
\* The invariant, part by part.

LEMMA InvitedStep ==
  ASSUME IInv, NEW b \in Backends, Step(b)
  PROVE  InvitedToMembers'
<1> USE DEF IInv
<1>1. SUFFICES ASSUME NEW i \in Invites, invite'[i].status # "none"
               PROVE  \E u \in Users : member'[invite'[i].account][u].status # "none"
  BY DEF InvitedToMembers
<1>2. CASE invite'[i].account = invite[i].account /\ invite[i].status # "none"
  <2>1. PICK u \in Users : member[invite[i].account][u].status # "none"
    BY <1>2 DEF InvitedToMembers
  <2>2. invite[i].account \in Accounts
    BY DEF TypeOK, Invitations
  <2> QED BY <1>2, <2>1, <2>2, MembersStay
<1>3. CASE CreateInvitation(b) /\ ~Return(b)
  <2>1. call[b] \in InviteCalls
    BY <1>3, CallShapes DEF CreateInvitation, SwitchCalls
  <2>2. call[b].account \in Accounts /\ call[b].inv \in Invites /\ call[b].sid \in Sessions
    BY <2>1 DEF InviteCalls
  <2>3. /\ invite' = [invite EXCEPT ![call[b].inv] =
                        [account |-> call[b].account, role |-> call[b].role, by |-> NoUser,
                         expired |-> FALSE, status |-> "pending"]]
        /\ Active(call[b].account, session[call[b].sid].user)
        /\ UNCHANGED member
    BY <1>3 DEF CreateInvitation
  <2>4. session[call[b].sid].user \in Users
    BY <2>2 DEF TypeOK, SessionRows
  <2>5. CASE i = call[b].inv
    <3>1. invite'[i].account = call[b].account
      BY <2>2, <2>3, <2>5 DEF TypeOK
    <3>2. member'[call[b].account][session[call[b].sid].user].status # "none"
      BY <2>3 DEF Active
    <3> QED BY <2>4, <3>1, <3>2
  <2>6. CASE i # call[b].inv
    <3>1. invite'[i] = invite[i]
      BY <2>2, <2>3, <2>6 DEF TypeOK
    <3> QED BY <1>1, <1>2, <3>1
  <2> QED BY <2>5, <2>6
<1>4. CASE ~(CreateInvitation(b) /\ ~Return(b))
  <2>1. invite'[i].account = invite[i].account /\ invite[i].status # "none"
    <3>1. CASE AcceptInvitation(b)
      <4>1. call[b].inv \in Invites
        BY <3>1, CallShapes DEF AcceptInvitation, AcceptCalls
      <4>2. /\ invite' = [invite EXCEPT ![call[b].inv].status = "accepted",
                                        ![call[b].inv].by = session[call[b].sid].user]
            /\ invite[call[b].inv].status # "none"
        BY <3>1 DEF AcceptInvitation, InvitationFound
      <4> QED BY <1>1, <4>1, <4>2 DEF TypeOK, Invitations
    <3>2. CASE ~AcceptInvitation(b)
      <4>1. UNCHANGED invite
        BY <1>4, <3>2 DEF Step, Begin, Continue, Return, data, Abort, Login,
             BeginUpdate, BeginInvite, BeginAccept, BeginSwitch, BeginRotate, BeginLogout,
             LockSession, LockTarget, FindOwners, LockOwners, CountOwners, WriteMembership,
             CommitUpdate, CreateInvitation, LockInvitation, LockMembership, SwitchAccount,
             RotateSession, FindFamily, EndFamily
      <4> QED BY <1>1, <4>1
    <3> QED BY <3>1, <3>2
  <2> QED BY <1>2, <2>1
<1> QED BY <1>3, <1>4

\* No step takes an invitation back to where it was before its creation.
LEMMA InvitesStay ==
  ASSUME TypeOK, CallsTyped, NEW b \in Backends, Step(b),
         NEW i \in Invites, invite[i].status # "none"
  PROVE  invite'[i].status # "none"
<1>1. CASE AcceptInvitation(b)
  <2>1. invite' = [invite EXCEPT ![call[b].inv].status = "accepted",
                                 ![call[b].inv].by = session[call[b].sid].user]
    BY <1>1 DEF AcceptInvitation
  <2> QED BY <2>1 DEF TypeOK, Invitations
<1>2. CASE CreateInvitation(b) /\ ~Return(b)
  <2>1. invite' = [invite EXCEPT ![call[b].inv] =
                     [account |-> call[b].account, role |-> call[b].role, by |-> NoUser,
                      expired |-> FALSE, status |-> "pending"]]
    BY <1>2 DEF CreateInvitation
  <2> QED BY <2>1 DEF TypeOK
<1>3. CASE ~AcceptInvitation(b) /\ ~(CreateInvitation(b) /\ ~Return(b))
  <2>1. UNCHANGED invite
    BY <1>3 DEF Step, Begin, Continue, Return, data, Abort, Login,
         BeginUpdate, BeginInvite, BeginAccept, BeginSwitch, BeginRotate, BeginLogout,
         LockSession, LockTarget, FindOwners, LockOwners, CountOwners, WriteMembership,
         CommitUpdate, CreateInvitation, LockInvitation, LockMembership, SwitchAccount,
         RotateSession, FindFamily, EndFamily
  <2> QED BY <2>1
<1> QED BY <1>1, <1>2, <1>3

\* An acceptance that goes on to the membership has found an open invitation.
LEMMA AcceptOnItsWay ==
  ASSUME TypeOK, CallsTyped, NEW b \in Backends, Step(b), pc'[b] \in {"membership", "insert"}
  PROVE  /\ UNCHANGED call /\ call[b] \in AcceptCalls
         /\ \/ LockInvitation(b) /\ Acceptable(call[b].inv)
            \/ LockMembership(b)
<1>1. ASSUME NEW statement, NEW rows, Continue(b, statement, rows)
      PROVE  pc'[b] = statement
  BY <1>1 DEF Continue, TypeOK
<1>2. ASSUME Finish(b) PROVE FALSE
  BY <1>2 DEF Finish, TypeOK
<1>3. ~ \/ BeginUpdate(b) \/ BeginInvite(b) \/ BeginAccept(b) \/ BeginSwitch(b)
        \/ BeginRotate(b) \/ BeginLogout(b)
  <2>1. ASSUME NEW arguments, Begin(b, "session", arguments) PROVE FALSE
    BY <2>1 DEF Begin, TypeOK
  <2>2. ASSUME NEW arguments, Begin(b, "rotate", arguments) PROVE FALSE
    BY <2>2 DEF Begin, TypeOK
  <2>3. ASSUME NEW arguments, Begin(b, "logout", arguments) PROVE FALSE
    BY <2>3 DEF Begin, TypeOK
  <2> QED BY <2>1, <2>2, <2>3
         DEF BeginUpdate, BeginInvite, BeginAccept, BeginSwitch, BeginRotate, BeginLogout
<1>4. ~Login(b)
  BY DEF Login
<1>5. ~LockSession(b)
  <2>1. SUFFICES ASSUME LockSession(b) PROVE FALSE
    OBVIOUS
  <2>2. pc'[b] = AfterSession(call[b].op)
    BY <1>1, <1>2, <2>1 DEF LockSession, Return
  <2>3. call[b].op \in {"update", "invite", "accept", "switch"}
    BY <2>1, CallShapes DEF LockSession, UpdateCalls, InviteCalls, AcceptCalls, SwitchCalls
  <2>4. AfterSession(call[b].op) \in {"target", "invitation", "account"}
    BY <2>3 DEF AfterSession
  <2> QED BY <2>2, <2>4
<1>6. ~ \/ CommitUpdate(b) \/ CreateInvitation(b) \/ AcceptInvitation(b) \/ SwitchAccount(b)
        \/ RotateSession(b) \/ EndFamily(b) \/ Abort(b)
  BY <1>2 DEF CommitUpdate, CreateInvitation, AcceptInvitation, SwitchAccount, RotateSession,
              EndFamily, Abort, Return
<1>7. ~ \/ LockTarget(b) \/ FindOwners(b) \/ LockOwners(b) \/ CountOwners(b)
        \/ WriteMembership(b) \/ FindFamily(b)
  <2>1. ASSUME LockTarget(b) PROVE FALSE
    <3>1. pc'[b] = IF DemotesOwner(call[b]) THEN "owners" ELSE "write"
      BY <1>1, <1>2, <2>1 DEF LockTarget, Return
    <3> QED BY <3>1
  <2>2. ASSUME FindOwners(b) PROVE pc'[b] = "lock owners"
    BY <1>1, <2>2 DEF FindOwners
  <2>3. ASSUME LockOwners(b) PROVE pc'[b] = "count"
    BY <1>1, <2>3 DEF LockOwners
  <2>4. ASSUME CountOwners(b) PROVE pc'[b] = "write"
    BY <1>1, <1>2, <2>4 DEF CountOwners, Return
  <2>5. ASSUME WriteMembership(b) PROVE pc'[b] = "revoke"
    BY <1>1, <2>5 DEF WriteMembership
  <2>6. ASSUME FindFamily(b) PROVE pc'[b] = "end family"
    BY <1>1, <2>6 DEF FindFamily
  <2> QED BY <2>1, <2>2, <2>3, <2>4, <2>5, <2>6
<1>8. LockInvitation(b) \/ LockMembership(b)
  BY <1>3, <1>4, <1>5, <1>6, <1>7 DEF Step
<1>9. UNCHANGED call /\ (LockInvitation(b) => Acceptable(call[b].inv))
  BY <1>2, <1>8 DEF LockInvitation, LockMembership, Return
<1>10. call[b] \in AcceptCalls
  BY <1>8, CallShapes DEF LockInvitation, LockMembership
<1> QED BY <1>8, <1>9, <1>10

LEMMA InvitationFoundStep ==
  ASSUME IInv, NEW b \in Backends, Step(b)
  PROVE  InvitationFound'
<1> USE DEF IInv
<1>1. SUFFICES ASSUME NEW c \in Backends, pc'[c] \in {"membership", "insert"}
               PROVE  invite'[call'[c].inv].status # "none"
  BY DEF InvitationFound
<1>2. CASE c # b
  <2>1. pc'[c] = pc[c] /\ call'[c] = call[c]
    BY <1>2, OthersUntouched
  <2>2. call[c].inv \in Invites
    BY <1>1, <2>1, CallShapes DEF AcceptCalls
  <2>3. invite[call[c].inv].status # "none"
    BY <1>1, <2>1 DEF InvitationFound
  <2> QED BY <2>1, <2>2, <2>3, InvitesStay
<1>3. CASE c = b
  <2>1. /\ UNCHANGED call /\ call[b].inv \in Invites
        /\ \/ LockInvitation(b) /\ Acceptable(call[b].inv)
           \/ LockMembership(b)
    BY <1>1, <1>3, AcceptOnItsWay DEF AcceptCalls
  <2>2. invite[call[b].inv].status # "none"
    BY <2>1 DEF Acceptable, LockMembership, InvitationFound
  <2> QED BY <1>3, <2>1, <2>2, InvitesStay
<1> QED BY <1>2, <1>3

LEMMA TargetHeldStep ==
  ASSUME IInv, NEW b \in Backends, Step(b)
  PROVE  TargetHeld'
<1> USE DEF IInv
<1>1. SUFFICES ASSUME NEW c \in Backends, Guarded(c)'
               PROVE  /\ MemberRow(call'[c].account, call'[c].user) \in held'[c]
                      /\ member'[call'[c].account][call'[c].user].status # "none"
  BY DEF TargetHeld, Guarded, Target
<1>2. CASE c # b
  <2>1. pc'[c] = pc[c] /\ call'[c] = call[c] /\ held'[c] = held[c] /\ Guarded(c)
    BY <1>1, <1>2, OthersUntouched DEF Guarded
  <2>2. member'[call[c].account][call[c].user] = member[call[c].account][call[c].user]
    BY <1>2, <2>1, OthersGuarded
  <2> QED BY <2>1, <2>2 DEF TargetHeld, Target, Guarded
<1>3. CASE c = b
  <2>1. /\ UNCHANGED member
        /\ call'[b].account = call[b].account /\ call'[b].user = call[b].user
        /\ held[b] \subseteq held'[b]
        /\ \/ MayUpdate(call[b]) /\ Target(b) \in held'[b]
           \/ Guarded(b)
    BY <1>1, <1>3, OwnGuarded DEF Guarded
  <2> QED BY <1>3, <2>1 DEF TargetHeld, Target, Guarded, MayUpdate
<1> QED BY <1>2, <1>3

LEMMA OwnersFoundStep ==
  ASSUME IInv, NEW b \in Backends, Step(b)
  PROVE  OwnersFound'
<1> USE DEF IInv
<1> DEFINE Past(c) == pc[c] \in {"lock owners", "count", "write", "revoke"}
\* The acting transaction and another one.
<1>1. ASSUME NEW c \in Backends \ {b}, Past(b)', Past(c)', call'[b].account = call'[c].account,
             TakesOwner(b)', TakesOwner(c)'
      PROVE  Target(c)' \in Found(b)' \/ Target(b)' \in Found(c)'
  <2>1. pc'[c] = pc[c] /\ call'[c] = call[c] /\ Guarded(c) /\ Past(c)
    BY <1>1, OthersUntouched DEF Guarded
  <2>2. TakesOwner(c) /\ Found(c)' = Found(c) /\ call[c] \in UpdateCalls
    BY <1>1, <2>1, OthersGuarded
  <2>3. Guarded(b)'
    BY <1>1 DEF Guarded
  <2>4. /\ call'[b].account = call[b].account /\ call'[b].user = call[b].user
        /\ TakesOwner(b) /\ Target(b)' = Target(b) /\ Target(c)' = Target(c)
        /\ call[b].account = call[c].account
    BY <1>1, <2>1, <2>3, OwnGuarded DEF Target
  <2>5. ~LockTarget(b)
    <3>1. SUFFICES ASSUME LockTarget(b) PROVE FALSE
      OBVIOUS
    <3>2. pc[b] = "target"
      BY <3>1 DEF LockTarget
    <3>3. pc'[b] = IF DemotesOwner(call[b]) THEN "owners" ELSE "write"
      BY <2>3, <3>2, OwnGuarded
    <3> QED BY <1>1, <2>4, <3>3 DEF TakesOwner
  <2>6. CASE FindOwners(b)
    <3>1. pc[b] = "owners"
      BY <2>6 DEF FindOwners
    <3>2. pc'[b] = "lock owners" /\ call'[b].rows =
             {MemberRow(call[b].account, u) : u \in ActiveOwners(call[b].account)}
      BY <2>3, <3>1, OwnGuarded
    <3>3. call[c].user \in ActiveOwners(call[b].account)
      BY <2>2, <2>4 DEF TakesOwner, ActiveOwners, UpdateCalls
    <3>4. MemberRow(call[b].account, call[c].user) \in call'[b].rows
      BY <3>2, <3>3
    <3> QED BY <2>4, <3>2, <3>4 DEF Found, Target
  <2>7. CASE ~FindOwners(b)
    <3>1. Past(b) /\ Found(b) \subseteq Found(b)'
      <4>1. \/ /\ pc[b] = "lock owners" /\ pc'[b] = "count"
               /\ held'[b] = held[b] \cup call[b].rows
            \/ pc[b] = "count" /\ pc'[b] = "write" /\ held[b] \subseteq held'[b]
            \/ pc[b] = "write" /\ pc'[b] = "revoke" /\ held[b] \subseteq held'[b]
        BY <2>3, <2>5, <2>7, OwnGuarded
      <4> QED BY <4>1 DEF Found
    <3>2. Target(c) \in Found(b) \/ Target(b) \in Found(c)
      BY <2>1, <2>2, <2>4, <3>1 DEF OwnersFound
    <3> QED BY <2>2, <2>4, <3>1, <3>2
  <2> QED BY <2>6, <2>7
\* Two others.
<1>2. ASSUME NEW c \in Backends \ {b}, NEW d \in Backends \ {b}, c # d, Past(c)', Past(d)',
             call'[c].account = call'[d].account, TakesOwner(c)', TakesOwner(d)'
      PROVE  Target(d)' \in Found(c)' \/ Target(c)' \in Found(d)'
  <2>1. /\ pc'[c] = pc[c] /\ call'[c] = call[c] /\ Guarded(c) /\ Past(c)
        /\ pc'[d] = pc[d] /\ call'[d] = call[d] /\ Guarded(d) /\ Past(d)
    BY <1>2, OthersUntouched DEF Guarded
  <2>2. /\ TakesOwner(c) /\ Found(c)' = Found(c) /\ TakesOwner(d) /\ Found(d)' = Found(d)
        /\ Target(c)' = Target(c) /\ Target(d)' = Target(d)
    BY <1>2, <2>1, OthersGuarded DEF Target
  <2>3. Target(d) \in Found(c) \/ Target(c) \in Found(d)
    BY <1>2, <2>1, <2>2 DEF OwnersFound
  <2> QED BY <2>2, <2>3
<1> QED BY <1>1, <1>2 DEF OwnersFound

\* Behind the locks an update that takes an owner is alone in its account.
LEMMA AloneBehindLocks ==
  ASSUME TypeOK, CallsTyped, LocksExclusive, TargetHeld, OwnersFound,
         NEW b \in Backends, NEW c \in Backends, b # c,
         pc[b] \in {"write", "revoke"}, pc[c] \in {"write", "revoke"},
         call[b].account = call[c].account, TakesOwner(b), TakesOwner(c)
  PROVE  FALSE
<1>1. Target(b) \in held[b] /\ Target(c) \in held[c]
  BY DEF TargetHeld
<1>2. Target(c) \in held[b] \/ Target(b) \in held[c]
  BY DEF OwnersFound, Found
<1> QED BY <1>1, <1>2 DEF LocksExclusive

LEMMA OwnerRemainsStep ==
  ASSUME IInv, NEW b \in Backends, Step(b)
  PROVE  OwnerRemains'
<1> USE DEF IInv
<1>1. SUFFICES ASSUME NEW c \in Backends, pc'[c] \in {"write", "revoke"}, TakesOwner(c)'
               PROVE  \E u \in Users : u # call'[c].user /\ ActiveOwner(call[c].account, u)'
  BY DEF OwnerRemains, ActiveOwner, Active
<1>2. Guarded(c)'
  BY <1>1 DEF Guarded
<1>3. CASE c # b
  <2>1. pc'[c] = pc[c] /\ call'[c] = call[c] /\ Guarded(c)
    BY <1>2, <1>3, OthersUntouched DEF Guarded
  <2>2. TakesOwner(c) /\ call[c] \in UpdateCalls
    BY <1>1, <1>3, <2>1, OthersGuarded
  <2> DEFINE a == call[c].account
  <2>3. PICK u \in Users : u # call[c].user /\ ActiveOwner(a, u)
    BY <1>1, <2>1, <2>2 DEF OwnerRemains
  <2>4. a \in Accounts
    BY <2>2 DEF UpdateCalls
  <2>5. ActiveOwner(a, u)'
    <3>1. SUFFICES ASSUME ~ActiveOwner(a, u)' PROVE FALSE
      OBVIOUS
    <3>2. member'[a][u] # member[a][u]
      BY <2>1, <2>3, <3>1 DEF ActiveOwner, Active
    <3>3. Commits(b, a, u)
      BY <2>3, <2>4, <3>2, MemberStep DEF Admits, ActiveOwner, Active
    <3>4. TakesOwner(b)
      BY <2>1, <2>3, <3>1, <3>3 DEF Commits, TakesOwner, DemotesOwner, ActiveOwner, Active
    <3> QED BY <1>1, <1>3, <2>1, <2>2, <3>3, <3>4, AloneBehindLocks DEF Commits
  <2> QED BY <2>1, <2>3, <2>5
<1>4. CASE c = b
  <2>1. /\ UNCHANGED member /\ TakesOwner(b) /\ call[b] \in UpdateCalls
        /\ call'[b].account = call[b].account /\ call'[b].user = call[b].user
    BY <1>1, <1>2, <1>4, OwnGuarded
  <2>2. \/ LockTarget(b) /\ pc'[b] = IF DemotesOwner(call[b]) THEN "owners" ELSE "write"
        \/ CountOwners(b) /\ Cardinality(ActiveOwners(call[b].account)) > 1
        \/ WriteMembership(b) /\ pc[b] = "write"
    BY <1>1, <1>2, <1>4, OwnGuarded
  <2>3. CASE LockTarget(b) /\ pc'[b] = IF DemotesOwner(call[b]) THEN "owners" ELSE "write"
    BY <1>1, <1>4, <2>1, <2>3 DEF TakesOwner
  <2>4. CASE Cardinality(ActiveOwners(call[b].account)) > 1
    <3> DEFINE owners == ActiveOwners(call[b].account)
    <3>1. owners # {} /\ owners # {call[b].user}
      <4>1. Cardinality({}) = 0 /\ Cardinality({call[b].user}) = 1
        BY FS_EmptySet, FS_Singleton
      <4> QED BY <2>4, <4>1
    <3>2. PICK u \in owners : u # call[b].user
      BY <3>1
    <3>3. u \in Users /\ ActiveOwner(call[b].account, u)
      BY <3>2 DEF ActiveOwners
    <3> QED BY <1>4, <2>1, <3>2, <3>3 DEF ActiveOwner, Active
  <2>5. CASE pc[b] = "write"
    <3>1. PICK u \in Users : u # call[b].user /\ ActiveOwner(call[b].account, u)
      BY <2>1, <2>5 DEF OwnerRemains
    <3> QED BY <1>4, <2>1, <3>1 DEF ActiveOwner, Active
  <2> QED BY <2>2, <2>3, <2>4, <2>5
<1> QED BY <1>3, <1>4

\* An active owner that a commit does not take stays one.
LEMMA HasOwnerStep ==
  ASSUME IInv, NEW b \in Backends, Step(b)
  PROVE  AccountHasOwner'
<1> USE DEF IInv
<1>1. SUFFICES ASSUME NEW a \in Accounts, NEW w \in Users, member'[a][w].status # "none"
               PROVE  \E v \in Users : ActiveOwner(a, v)'
  BY DEF AccountHasOwner, ActiveOwners, ActiveOwner, Active
<1>2. CASE UNCHANGED member
  BY <1>1, <1>2 DEF AccountHasOwner, ActiveOwners, ActiveOwner, Active
<1>3. ASSUME NEW u \in Users, Admits(a, u),
             \A v \in Users \ {u} : member'[a][v] = member[a][v]
      PROVE  \E v \in Users : ActiveOwner(a, v)'
  <2>1. CASE member'[a][u].role = "owner"
    BY <1>3, <2>1 DEF Admits, ActiveOwner, Active
  <2>2. CASE \E v \in Users : member[a][v].status # "none"
    <3>1. PICK v \in Users : ActiveOwner(a, v)
      BY <2>2 DEF AccountHasOwner, ActiveOwners
    <3>2. v # u
      BY <1>3, <3>1 DEF Admits, ActiveOwner, Active
    <3> QED BY <1>3, <3>1, <3>2 DEF ActiveOwner, Active
  <2> QED BY <1>3, <2>1, <2>2 DEF Admits
<1>4. ASSUME NEW u \in Users, Commits(b, a, u),
             \A v \in Users \ {u} : member'[a][v] = member[a][v]
      PROVE  \E v \in Users : ActiveOwner(a, v)'
  <2>1. pc[b] = "revoke" /\ a = call[b].account /\ u = call[b].user
    BY <1>4 DEF Commits
  <2>2. CASE TakesOwner(b)
    <3>1. PICK v \in Users : v # u /\ ActiveOwner(a, v)
      BY <2>1, <2>2 DEF OwnerRemains
    <3> QED BY <1>4, <3>1 DEF ActiveOwner, Active
  <2>3. CASE ~TakesOwner(b)
    <3>1. member[a][u].status # "none"
      BY <2>1 DEF TargetHeld
    <3>2. PICK v \in Users : ActiveOwner(a, v)
      BY <3>1 DEF AccountHasOwner, ActiveOwners
    <3>3. CASE v # u
      BY <1>4, <3>2, <3>3 DEF ActiveOwner, Active
    <3>4. CASE v = u
      <4>1. member'[a][u] = [role |-> "owner", status |-> "active"]
        BY <1>4, <2>1, <2>3, <3>2, <3>4
           DEF Commits, TakesOwner, DemotesOwner, ActiveOwner, Active
      <4> QED BY <4>1 DEF ActiveOwner, Active
    <3> QED BY <3>3, <3>4
  <2> QED BY <2>2, <2>3
<1>5. CASE \E d \in Accounts, u \in Users :
             /\ \A e \in Accounts, v \in Users :
                  e # d \/ v # u => member'[e][v] = member[e][v]
             /\ Admits(d, u) \/ Commits(b, d, u)
  <2>1. PICK d \in Accounts, u \in Users :
             /\ \A e \in Accounts, v \in Users :
                  e # d \/ v # u => member'[e][v] = member[e][v]
             /\ Admits(d, u) \/ Commits(b, d, u)
    BY <1>5
  <2>2. CASE d = a
    BY <1>3, <1>4, <2>1, <2>2
  <2>3. CASE d # a
    BY <1>1, <2>1, <2>3 DEF AccountHasOwner, ActiveOwners, ActiveOwner, Active
  <2> QED BY <2>2, <2>3
<1> QED BY <1>2, <1>5, MemberStep

-----------------------------------------------------------------------------
\* The theorems.

LEMMA InitIInv == Init => IInv
<1>1. SUFFICES ASSUME Init PROVE IInv
  OBVIOUS
<1> USE <1>1 DEF Init
<1>2. \A b \in Backends : pc[b] = "idle" /\ held[b] = {} /\ call[b] = NoCall
  OBVIOUS
<1>3. TypeOK
  <2>1. "idle" \in Statements
    BY DEF Statements
  <2> QED BY <2>1, FirstAssumption DEF TypeOK, EventNames
<1>4. CallsTyped
  BY DEF CallsTyped, CallsAt
<1>5. LocksExclusive /\ InvitationFound /\ TargetHeld /\ OwnersFound /\ OwnerRemains
  BY <1>2 DEF LocksExclusive, InvitationFound, TargetHeld, OwnersFound, OwnerRemains
<1>6. InvitedToMembers
  BY FirstAssumption DEF InvitedToMembers
<1>7. AccountHasOwner
  BY FirstAssumption DEF AccountHasOwner, ActiveOwners, ActiveOwner, Active
<1> QED BY <1>3, <1>4, <1>5, <1>6, <1>7 DEF IInv

\* Only memberships, invitations, calls and locks matter to the safety parts.
LEMMA SafetyFrame ==
  ASSUME IInv, UNCHANGED << member, pc, call, held >>
  PROVE  LocksExclusive' /\ TargetHeld' /\ OwnersFound' /\ OwnerRemains' /\ AccountHasOwner'
<1> USE DEF IInv
<1>1. \A b \in Backends : /\ TakesOwner(b)' <=> TakesOwner(b)
                         /\ Found(b)' = Found(b) /\ Target(b)' = Target(b)
  BY DEF TakesOwner, DemotesOwner, Updated, ActiveOwner, Active, Found, Target
<1>2. LocksExclusive'
  BY DEF LocksExclusive
<1>3. TargetHeld'
  BY DEF TargetHeld, Target
<1>4. OwnersFound'
  BY <1>1 DEF OwnersFound
<1>5. OwnerRemains'
  BY <1>1 DEF OwnerRemains, ActiveOwner, Active
<1>6. AccountHasOwner'
  BY DEF AccountHasOwner, ActiveOwners, ActiveOwner, Active
<1> QED BY <1>2, <1>3, <1>4, <1>5, <1>6

LEMMA ExpiresIInv ==
  ASSUME IInv, NEW i \in Invites, InvitationExpires(i)
  PROVE  IInv'
<1> USE DEF IInv
<1>1. /\ invite' = [invite EXCEPT ![i].expired = TRUE]
      /\ UNCHANGED << member, session, audit, loggedOut, pc, call, held, calls >>
  BY DEF InvitationExpires
<1>2. invite' \in [Invites -> Invitations]
  BY <1>1 DEF TypeOK, Invitations
<1>3. \A j \in Invites : invite'[j].status = invite[j].status
                         /\ invite'[j].account = invite[j].account
  BY <1>1 DEF TypeOK, Invitations
<1>4. TypeOK' /\ CallsTyped'
  BY <1>1, <1>2 DEF TypeOK, CallsTyped
<1>5. InvitedToMembers'
  BY <1>1, <1>3 DEF InvitedToMembers
<1>6. InvitationFound'
  <2>1. SUFFICES ASSUME NEW b \in Backends, pc[b] \in {"membership", "insert"}
                 PROVE  invite'[call[b].inv].status # "none"
    BY <1>1 DEF InvitationFound
  <2>2. call[b].inv \in Invites
    BY <2>1, CallShapes DEF AcceptCalls
  <2> QED BY <1>3, <2>1, <2>2 DEF InvitationFound
<1>7. LocksExclusive' /\ TargetHeld' /\ OwnersFound' /\ OwnerRemains' /\ AccountHasOwner'
  BY <1>1, SafetyFrame
<1> QED BY <1>4, <1>5, <1>6, <1>7

LEMMA NextIInv == IInv /\ [Next]_vars => IInv'
<1>1. SUFFICES ASSUME IInv, [Next]_vars PROVE IInv'
  OBVIOUS
<1>2. CASE \E b \in Backends : Step(b)
  <2>1. PICK b \in Backends : Step(b)
    BY <1>2
  <2>2. TypeOK' /\ CallsTyped' /\ LocksExclusive'
    BY <1>1, <2>1, StepTyped, LocksStep DEF IInv
  <2> QED
    BY <1>1, <2>1, <2>2, InvitedStep, InvitationFoundStep, TargetHeldStep, OwnersFoundStep,
       OwnerRemainsStep, HasOwnerStep DEF IInv
<1>3. CASE \E i \in Invites : InvitationExpires(i)
  BY <1>1, <1>3, ExpiresIInv
<1>4. CASE UNCHANGED vars
  <2>1. UNCHANGED << member, session, invite, audit, loggedOut, pc, call, held, calls >>
    BY <1>4 DEF vars, data
  <2>2. TypeOK' /\ CallsTyped' /\ InvitedToMembers' /\ InvitationFound'
    BY <1>1, <2>1 DEF IInv, TypeOK, CallsTyped, InvitedToMembers, InvitationFound
  <2> QED BY <1>1, <2>1, <2>2, SafetyFrame DEF IInv
<1> QED BY <1>1, <1>2, <1>3, <1>4 DEF Next

\* The tables and the state of every transaction stay well typed, and a
\* transaction that has ended holds no lock.
THEOREM AccessTypeCorrect == Spec => []TypeOK
<1>1. IInv => TypeOK
  BY DEF IInv
<1> QED BY InitIInv, NextIInv, <1>1, PTL DEF Spec

\* However many owners demote, suspend and remove each other at the same time,
\* with how many calls and connections soever, no account loses its last one.
THEOREM OwnerAlways == Spec => []AccountHasOwner
<1>1. IInv => AccountHasOwner
  BY DEF IInv
<1> QED BY InitIInv, NextIInv, <1>1, PTL DEF Spec

-----------------------------------------------------------------------------
\* What one step does to the sessions.

Used == {s \in Sessions : session[s].status # "none"}

Ends == \E rows \in SUBSET Used : session' = Revoked(rows)

Moves(b) == \E s \in Sessions, a \in Accounts :
  /\ session' = Moved(s, a)
  /\ Free(b, {MemberRow(a, session[s].user)})
  /\ member'[a][session[s].user].status \in {"active", "suspended"}

Rotates(b) == \E old \in Sessions, new \in Unused :
  /\ session[old].status = "live" /\ UNCHANGED << member, loggedOut >>
  /\ Free(b, {Family(session[old].family)})
  /\ Free(b, {MemberRow(session[old].account, session[old].user)})
  /\ session' = [session EXCEPT ![old].status = "revoked",
                                ![new] = [session[old] EXCEPT !.version = 0]]

Enters(b) == \E u \in Users, a \in Accounts, new \in Unused :
  /\ Free(b, {MemberRow(a, u)})
  /\ member'[a][u].status = "active" /\ UNCHANGED loggedOut
  /\ session' = [session EXCEPT ![new] = [account |-> a, user |-> u, family |-> new,
                                          version |-> 0, status |-> "live"]]

\* The sessions that a logout will end are rows of its family, all of those that
\* there are: a rotation cannot add one while the family is locked.
LogoutFound ==
  \A b \in Backends : pc[b] \in {"logout", "end family"} =>
    /\ session[call[b].family].status # "none"
    /\ pc[b] = "end family" =>
         /\ Family(call[b].family) \in held[b]
         /\ \A s \in Sessions : SessionRow(s) \in call[b].rows <=>
              session[s].status # "none" /\ session[s].family = call[b].family

\* Every step treats the sessions in one of these ways.
LEMMA SessionShapes ==
  ASSUME IInv, LogoutFound, NEW b \in Backends, Step(b)
  PROVE  UNCHANGED session \/ Ends \/ Moves(b) \/ Rotates(b) \/ Enters(b)
<1> USE DEF IInv
<1>0. TypeOK' /\ \A rows, more : Free(b, rows \cup more) => Free(b, rows) /\ Free(b, more)
  BY StepTyped DEF Free
<1>1. CASE Login(b)
  <2>1. PICK u \in Users :
          \E a \in IF FirstLogin(u) THEN {HomeOf[u]} ELSE Candidates(u), s \in Unused :
            /\ Free(b, {MemberRow(a, u)}) /\ UNCHANGED loggedOut
            /\ member' = [member EXCEPT ![a][u] =
                            IF FirstLogin(u) THEN [role |-> "owner", status |-> "active"] ELSE @]
            /\ session' = [session EXCEPT ![s] = [account |-> a, user |-> u, family |-> s,
                                                  version |-> 0, status |-> "live"]]
    BY <1>1 DEF Login
  <2>2. PICK a \in IF FirstLogin(u) THEN {HomeOf[u]} ELSE Candidates(u), s \in Unused :
            /\ Free(b, {MemberRow(a, u)}) /\ UNCHANGED loggedOut
            /\ member' = [member EXCEPT ![a][u] =
                            IF FirstLogin(u) THEN [role |-> "owner", status |-> "active"] ELSE @]
            /\ session' = [session EXCEPT ![s] = [account |-> a, user |-> u, family |-> s,
                                                  version |-> 0, status |-> "live"]]
    BY <2>1
  <2>3. a \in Accounts
    BY HomeAssumption DEF Candidates
  <2>4. member'[a][u] = IF FirstLogin(u) THEN [role |-> "owner", status |-> "active"]
                                         ELSE member[a][u]
    BY <2>2, <2>3 DEF TypeOK, Members
  <2>5. ~FirstLogin(u) => Active(a, u)
    BY <2>2 DEF Candidates
  <2>6. member'[a][u].status = "active"
    BY <2>4, <2>5 DEF Active
  <2> QED BY <2>2, <2>3, <2>6 DEF Enters
<1>2. CASE CommitUpdate(b)
  <2>1. session' = Revoked({s \in SessionsOf(call[b].account, call[b].user) :
                              SessionRow(s) \in call[b].rows})
    BY <1>2 DEF CommitUpdate
  <2>2. SessionsOf(call[b].account, call[b].user) \subseteq Used
    BY DEF SessionsOf, Used
  <2> QED BY <2>1, <2>2 DEF Ends
<1>3. CASE EndFamily(b)
  <2>1. session' = Revoked({s \in Sessions : SessionRow(s) \in call[b].rows})
    BY <1>3 DEF EndFamily
  <2>2. {s \in Sessions : SessionRow(s) \in call[b].rows} \subseteq Used
    BY <1>3 DEF EndFamily, LogoutFound, Used
  <2> QED BY <2>1, <2>2 DEF Ends
<1>4. CASE AcceptInvitation(b)
  <2>1. call[b].inv \in Invites /\ call[b].sid \in Sessions
    BY <1>4, CallShapes DEF AcceptInvitation, AcceptCalls
  <2> DEFINE i == call[b].inv
             s == call[b].sid
             a == invite[i].account
             u == session[s].user
  <2>2. a \in Accounts /\ u \in Users
    BY <2>1 DEF TypeOK, Invitations, SessionRows
  <2>3. /\ Free(b, {MemberRow(a, u)}) /\ session' = Moved(s, a)
        /\ member' = [member EXCEPT ![a][u] =
                        IF @.status \in {"none", "removed"}
                          THEN [role |-> invite[i].role, status |-> "active"] ELSE @]
    BY <1>4 DEF AcceptInvitation
  <2>4. s \in Sessions /\ u = session[s].user
    BY <2>1
  <2> HIDE DEF i, s, a, u
  <2>5. member'[a][u] = IF member[a][u].status \in {"none", "removed"}
                          THEN [role |-> invite[i].role, status |-> "active"] ELSE member[a][u]
    BY <2>2, <2>3 DEF TypeOK, Members
  <2>6. member[a][u] \in [role : Roles, status : MembershipStatus \cup {"none"}]
    BY <2>2 DEF TypeOK, Members
  <2>7. member[a][u].status \in {"none", "active", "suspended", "removed"}
    BY <2>6 DEF MembershipStatus
  <2>8. member'[a][u].status \in {"active", "suspended"}
    BY <2>5, <2>7
  <2> QED BY <2>2, <2>3, <2>4, <2>8 DEF Moves
<1>5. CASE SwitchAccount(b)
  <2>1. CASE Return(b)
    BY <2>1 DEF Return, data
  <2>2. CASE ~Return(b)
    <3>1. call[b] \in SwitchCalls
      BY <1>5, CallShapes DEF SwitchAccount, InviteCalls
    <3>2. /\ call[b].sid \in Sessions /\ call[b].account \in Accounts
      BY <3>1 DEF SwitchCalls
    <3>3. /\ Free(b, {MemberRow(call[b].account, session[call[b].sid].user)})
          /\ session' = Moved(call[b].sid, call[b].account) /\ UNCHANGED member
          /\ Active(call[b].account, session[call[b].sid].user)
      BY <1>5, <2>2 DEF SwitchAccount
    <3> QED BY <3>2, <3>3 DEF Moves, Active
  <2> QED BY <2>1, <2>2
<1>6. CASE RotateSession(b)
  <2>1. CASE Return(b)
    BY <2>1 DEF Return, data
  <2>2. CASE ~Return(b)
    <3>1. call[b].sid \in Sessions
      BY <1>6, CallShapes DEF RotateSession, RotateCalls
    <3>2. PICK new \in Unused :
            session' = [session EXCEPT ![call[b].sid].status = "revoked",
                                       ![new] = [session[call[b].sid] EXCEPT !.version = 0]]
      BY <1>6, <2>2 DEF RotateSession
    <3>3. /\ Free(b, {Family(session[call[b].sid].family), SessionRow(call[b].sid)})
          /\ Free(b, {MemberRow(session[call[b].sid].account, session[call[b].sid].user)})
          /\ session[call[b].sid].status = "live" /\ UNCHANGED << member, loggedOut >>
      BY <1>6, <2>2 DEF RotateSession, Current
    <3>4. Free(b, {Family(session[call[b].sid].family)})
      BY <3>3 DEF Free
    <3> QED BY <3>1, <3>2, <3>3, <3>4 DEF Rotates
  <2> QED BY <2>1, <2>2
<1>7. CASE ~ \/ Login(b) \/ CommitUpdate(b) \/ EndFamily(b) \/ AcceptInvitation(b)
             \/ SwitchAccount(b) \/ RotateSession(b)
  <2>1. UNCHANGED session
    BY <1>7 DEF Step, Begin, Continue, Return, data, Abort,
         BeginUpdate, BeginInvite, BeginAccept, BeginSwitch, BeginRotate, BeginLogout,
         LockSession, LockTarget, FindOwners, LockOwners, CountOwners, WriteMembership,
         CreateInvitation, LockInvitation, LockMembership, FindFamily
  <2> QED BY <2>1
<1> QED BY <1>1, <1>2, <1>3, <1>4, <1>5, <1>6, <1>7

\* What becomes of one session: it stays, is revoked, goes to an account that
\* has its user, succeeds a live one by rotation, or is opened by a login.
Fate(b, s) ==
  \/ session'[s] = session[s]
  \/ /\ session[s].status # "none" /\ session'[s].status = "revoked"
     /\ session'[s].family = session[s].family
  \/ /\ session'[s].family = session[s].family /\ session'[s].status = session[s].status
     /\ Free(b, {MemberRow(session'[s].account, session'[s].user)})
     /\ member'[session'[s].account][session'[s].user].status \in {"active", "suspended"}
  \/ \E old \in Sessions :
       /\ session[s].status = "none" /\ session'[s].status = "live"
       /\ session[old].status = "live" /\ session'[s].family = session[old].family
       /\ session'[s].account = session[old].account /\ session'[s].user = session[old].user
       /\ Free(b, {Family(session[old].family)})
       /\ Free(b, {MemberRow(session[old].account, session[old].user)})
       /\ UNCHANGED << member, loggedOut >>
  \/ /\ session[s].status = "none" /\ session'[s].status = "live" /\ session'[s].family = s
     /\ Free(b, {MemberRow(session'[s].account, session'[s].user)})
     /\ member'[session'[s].account][session'[s].user].status = "active"
     /\ UNCHANGED loggedOut

LEMMA SessionFates ==
  ASSUME IInv, LogoutFound, NEW b \in Backends, Step(b), NEW s \in Sessions
  PROVE  Fate(b, s)
<1> USE DEF IInv
<1>0. \A t \in Sessions : session[t] \in SessionRows
  BY DEF TypeOK
<1>1. CASE Ends
  <2>1. PICK rows \in SUBSET Used : session' = Revoked(rows)
    BY <1>1 DEF Ends
  <2>2. session'[s] = IF s \in rows THEN [session[s] EXCEPT !.status = "revoked"] ELSE session[s]
    BY <2>1 DEF Revoked
  <2> QED BY <1>0, <2>1, <2>2 DEF Fate, Used, SessionRows
<1>2. CASE Moves(b)
  <2>1. PICK t \in Sessions, a \in Accounts :
          /\ session' = Moved(t, a)
          /\ Free(b, {MemberRow(a, session[t].user)})
          /\ member'[a][session[t].user].status \in {"active", "suspended"}
    BY <1>2 DEF Moves
  <2>2. CASE s = t
    <3>1. session'[s] = [session[s] EXCEPT !.account = a, !.version = @ + 1]
      BY <2>1, <2>2 DEF Moved, TypeOK
    <3>2. /\ session'[s].account = a /\ session'[s].user = session[s].user
          /\ session'[s].family = session[s].family /\ session'[s].status = session[s].status
      BY <1>0, <3>1 DEF SessionRows
    <3> QED BY <2>1, <2>2, <3>2 DEF Fate
  <2>3. CASE s # t
    BY <2>1, <2>3 DEF Fate, Moved, TypeOK
  <2> QED BY <2>2, <2>3
<1>3. CASE Rotates(b)
  <2>1. PICK old \in Sessions, new \in Unused :
          /\ session[old].status = "live" /\ UNCHANGED << member, loggedOut >>
          /\ Free(b, {Family(session[old].family)})
          /\ Free(b, {MemberRow(session[old].account, session[old].user)})
          /\ session' = [session EXCEPT ![old].status = "revoked",
                                        ![new] = [session[old] EXCEPT !.version = 0]]
    BY <1>3 DEF Rotates
  <2>2. new \in Sessions /\ session[new].status = "none" /\ old # new
    BY <2>1 DEF Unused
  <2>3. CASE s = new
    <3>1. session'[s] = [session[old] EXCEPT !.version = 0]
      BY <2>1, <2>2, <2>3 DEF TypeOK
    <3>2. /\ session'[s].account = session[old].account /\ session'[s].user = session[old].user
          /\ session'[s].family = session[old].family /\ session'[s].status = "live"
      BY <1>0, <2>1, <3>1 DEF SessionRows
    <3> QED BY <2>1, <2>2, <2>3, <3>2 DEF Fate
  <2>4. CASE s = old
    <3>1. session'[s] = [session[s] EXCEPT !.status = "revoked"]
      BY <2>1, <2>2, <2>4 DEF TypeOK
    <3>2. session'[s].status = "revoked" /\ session'[s].family = session[s].family
      BY <1>0, <3>1 DEF SessionRows
    <3> QED BY <2>1, <2>4, <3>2 DEF Fate
  <2>5. CASE s # new /\ s # old
    BY <2>1, <2>2, <2>5 DEF Fate, TypeOK
  <2> QED BY <2>3, <2>4, <2>5
<1>4. CASE Enters(b)
  <2>1. PICK u \in Users, a \in Accounts, new \in Unused :
          /\ Free(b, {MemberRow(a, u)})
          /\ member'[a][u].status = "active" /\ UNCHANGED loggedOut
          /\ session' = [session EXCEPT ![new] = [account |-> a, user |-> u, family |-> new,
                                                  version |-> 0, status |-> "live"]]
    BY <1>4 DEF Enters
  <2>2. new \in Sessions /\ session[new].status = "none"
    BY <2>1 DEF Unused
  <2>3. CASE s = new
    <3>1. session'[s] = [account |-> a, user |-> u, family |-> new, version |-> 0,
                         status |-> "live"]
      BY <2>1, <2>2, <2>3 DEF TypeOK
    <3>2. /\ session'[s].account = a /\ session'[s].user = u
          /\ session'[s].family = s /\ session'[s].status = "live"
      BY <2>3, <3>1
    <3> QED BY <2>1, <2>2, <2>3, <3>2 DEF Fate
  <2>4. CASE s # new
    BY <2>1, <2>2, <2>4 DEF Fate, TypeOK
  <2> QED BY <2>3, <2>4
<1>5. CASE UNCHANGED session
  BY <1>5 DEF Fate
<1> QED BY <1>1, <1>2, <1>3, <1>4, <1>5, SessionShapes

-----------------------------------------------------------------------------
\* Families.

\* A family bears the name of its first session, which stays on record: so no
\* login opens a session in a family that is there already.
FamilyOpen ==
  \A s \in Sessions : session[s].status # "none" => session[session[s].family].status # "none"

LoggedOutKnown == \A f \in loggedOut : session[f].status # "none"

\* Rows of session are never deleted.
LEMMA UsedStays ==
  ASSUME IInv, LogoutFound, NEW b \in Backends, Step(b),
         NEW s \in Sessions, session[s].status # "none"
  PROVE  session'[s].status # "none" /\ session'[s].family = session[s].family
BY SessionFates DEF Fate

LEMMA FamilyOpenStep ==
  ASSUME IInv, LogoutFound, FamilyOpen, NEW b \in Backends, Step(b)
  PROVE  FamilyOpen'
<1>1. SUFFICES ASSUME NEW s \in Sessions, session'[s].status # "none"
               PROVE  session'[session'[s].family].status # "none"
  BY DEF FamilyOpen
<1>2. \A t \in Sessions : session[t].family \in Sessions
  BY DEF IInv, TypeOK, SessionRows
<1>3. CASE session[s].status # "none"
  BY <1>2, <1>3, UsedStays DEF FamilyOpen
<1>4. CASE session[s].status = "none"
  <2>1. CASE session'[s].family = s
    BY <1>1, <2>1
  <2>2. CASE \E old \in Sessions : session[old].status = "live"
                                   /\ session'[s].family = session[old].family
    BY <1>2, <2>2, UsedStays DEF FamilyOpen
  <2>3. Fate(b, s)
    BY SessionFates
  <2> QED BY <1>1, <1>4, <2>1, <2>2, <2>3, Zenon DEF Fate
<1> QED BY <1>3, <1>4

\* A transaction is on its way to end a family only by these two statements.
LEMMA OwnLogout ==
  ASSUME TypeOK, CallsTyped, NEW b \in Backends, Step(b), pc'[b] \in {"logout", "end family"}
  PROVE  BeginLogout(b) \/ FindFamily(b)
<1>1. ASSUME NEW statement, NEW rows, Continue(b, statement, rows)
      PROVE  pc'[b] = statement
  BY <1>1 DEF Continue, TypeOK
<1>2. ~Finish(b)
  BY DEF Finish, TypeOK
<1>3. ~ \/ BeginUpdate(b) \/ BeginInvite(b) \/ BeginAccept(b) \/ BeginSwitch(b) \/ BeginRotate(b)
  <2>1. ASSUME NEW arguments, Begin(b, "session", arguments) PROVE FALSE
    BY <2>1 DEF Begin, TypeOK
  <2>2. ASSUME NEW arguments, Begin(b, "rotate", arguments) PROVE FALSE
    BY <2>2 DEF Begin, TypeOK
  <2> QED BY <2>1, <2>2 DEF BeginUpdate, BeginInvite, BeginAccept, BeginSwitch, BeginRotate
<1>4. ~Login(b)
  BY DEF Login
<1>5. ~LockSession(b)
  <2>1. SUFFICES ASSUME LockSession(b) PROVE FALSE
    OBVIOUS
  <2>2. pc'[b] = AfterSession(call[b].op)
    BY <1>1, <1>2, <2>1 DEF LockSession, Return
  <2>3. call[b].op \in {"update", "invite", "accept", "switch"}
    BY <2>1, CallShapes DEF LockSession, UpdateCalls, InviteCalls, AcceptCalls, SwitchCalls
  <2>4. AfterSession(call[b].op) \in {"target", "invitation", "account"}
    BY <2>3 DEF AfterSession
  <2> QED BY <2>2, <2>4
<1>6. ~ \/ CommitUpdate(b) \/ CreateInvitation(b) \/ AcceptInvitation(b) \/ SwitchAccount(b)
        \/ RotateSession(b) \/ EndFamily(b) \/ Abort(b)
  BY <1>2 DEF CommitUpdate, CreateInvitation, AcceptInvitation, SwitchAccount, RotateSession,
              EndFamily, Abort, Return
<1>7. ~LockTarget(b)
  <2>1. ASSUME LockTarget(b) PROVE pc'[b] \in {"owners", "write"}
    BY <1>1, <1>2, <2>1 DEF LockTarget, Return
  <2> QED BY <2>1
<1>8. ~ \/ FindOwners(b) \/ LockOwners(b) \/ CountOwners(b) \/ WriteMembership(b)
        \/ LockInvitation(b) \/ LockMembership(b)
  <2>1. ASSUME \/ FindOwners(b) \/ LockOwners(b) \/ CountOwners(b) \/ WriteMembership(b)
               \/ LockInvitation(b) \/ LockMembership(b)
        PROVE  pc'[b] \in {"lock owners", "count", "write", "revoke", "membership", "insert"}
    BY <1>1, <1>2, <2>1
       DEF FindOwners, LockOwners, CountOwners, WriteMembership, LockInvitation, LockMembership,
           Return
  <2> QED BY <2>1
<1> QED BY <1>3, <1>4, <1>5, <1>6, <1>7, <1>8 DEF Step

\* What a logout has found stays complete: the lock of the family keeps every
\* rotation of it out, and a login opens a family of its own.
LEMMA LogoutFoundStep ==
  ASSUME IInv, LogoutFound, FamilyOpen, NEW b \in Backends, Step(b)
  PROVE  LogoutFound'
<1>1. SUFFICES ASSUME NEW c \in Backends, pc'[c] \in {"logout", "end family"}
      PROVE  /\ session'[call'[c].family].status # "none"
             /\ pc'[c] = "end family" =>
                  /\ Family(call'[c].family) \in held'[c]
                  /\ \A s \in Sessions : SessionRow(s) \in call'[c].rows <=>
                       session'[s].status # "none" /\ session'[s].family = call'[c].family
  BY DEF LogoutFound
<1>2. TypeOK /\ CallsTyped
  BY DEF IInv
<1>3. CASE c # b
  <2> DEFINE f == call[c].family
  <2>1. pc'[c] = pc[c] /\ call'[c] = call[c] /\ held'[c] = held[c]
    BY <1>2, <1>3, OthersUntouched
  <2>2. f \in Sessions
    BY <1>1, <1>2, <2>1, CallShapes DEF LogoutCalls
  <2>3. session[f].status # "none" /\ session'[f].status # "none"
    BY <1>1, <2>1, <2>2, UsedStays DEF LogoutFound
  <2>4. ASSUME pc[c] = "end family", NEW s \in Sessions
        PROVE  (session'[s].status # "none" /\ session'[s].family = f)
                 <=> (session[s].status # "none" /\ session[s].family = f)
    <3>1. Family(f) \in held[c]
      BY <2>4 DEF LogoutFound
    <3>2. \A old \in Sessions : Free(b, {Family(session[old].family)}) => session[old].family # f
      BY <1>3, <3>1 DEF Free
    <3>3. CASE session[s].status # "none"
      BY <3>3, UsedStays
    <3>4. CASE session[s].status = "none"
      <4>1. s # f
        BY <2>3, <3>4
      <4>2. Fate(b, s)
        BY SessionFates
      <4>3. session'[s].status = "none" \/ session'[s].family # f
        BY <3>2, <3>4, <4>1, <4>2, Zenon DEF Fate
      <4> QED BY <3>4, <4>3
    <3> QED BY <3>3, <3>4
  <2>5. pc[c] = "end family" =>
          /\ Family(f) \in held[c]
          /\ \A s \in Sessions : SessionRow(s) \in call[c].rows <=>
               session[s].status # "none" /\ session[s].family = f
    BY DEF LogoutFound
  <2> QED BY <2>1, <2>3, <2>4, <2>5
<1>4. CASE c = b
  <2>1. CASE BeginLogout(b)
    <3>1. PICK s \in Sessions :
            /\ session[s].status # "none"
            /\ Begin(b, "logout", [op |-> "logout", family |-> session[s].family, rows |-> {}])
      BY <2>1 DEF BeginLogout
    <3>2. /\ pc'[b] = "logout" /\ UNCHANGED session
          /\ call'[b] = [op |-> "logout", family |-> session[s].family, rows |-> {}]
      BY <1>2, <3>1 DEF Begin, data, TypeOK, CallsTyped
    <3>3. call'[b].family = session[s].family
      BY <3>2
    <3> QED BY <1>4, <3>1, <3>2, <3>3 DEF FamilyOpen
  <2>2. CASE FindFamily(b)
    <3> DEFINE f == call[b].family
               rows == {SessionRow(s) : s \in {r \in Sessions : session[r].status # "none"
                                                               /\ session[r].family = f}}
    <3>1. call[b] \in LogoutCalls /\ pc[b] = "logout"
      BY <1>2, <2>2, CallShapes DEF FindFamily
    <3>2. call' = [call EXCEPT ![b].rows = rows] /\ Continue(b, "end family", {Family(f)})
      BY <2>2 DEF FindFamily
    <3>3. \A s \in Sessions : SessionRow(s) \in rows <=>
            session[s].status # "none" /\ session[s].family = f
      BY DEF SessionRow
    <3> HIDE DEF rows
    <3>4. call'[b].family = f /\ call'[b].rows = rows
      BY <1>2, <3>1, <3>2 DEF CallsTyped, LogoutCalls
    <3>5. Family(f) \in held'[b] /\ UNCHANGED session
      BY <1>2, <3>2 DEF Continue, data, TypeOK
    <3>6. session[f].status # "none"
      BY <3>1 DEF LogoutFound
    <3> QED BY <1>4, <3>3, <3>4, <3>5, <3>6
  <2> QED BY <1>1, <1>2, <1>4, <2>1, <2>2, OwnLogout
<1> QED BY <1>3, <1>4

\* Only the end of a logout adds a family to those that are logged out.
LEMMA LoggedOutStep ==
  ASSUME TypeOK, CallsTyped, NEW b \in Backends, Step(b)
  PROVE  \/ UNCHANGED loggedOut
         \/ /\ pc[b] = "end family" /\ loggedOut' = loggedOut \cup {call[b].family}
            /\ session' = Revoked({s \in Sessions : SessionRow(s) \in call[b].rows})
BY DEF Step, Begin, Continue, Return, data, Abort, Finish, Login,
       BeginUpdate, BeginInvite, BeginAccept, BeginSwitch, BeginRotate, BeginLogout,
       LockSession, LockTarget, FindOwners, LockOwners, CountOwners, WriteMembership,
       CommitUpdate, CreateInvitation, LockInvitation, LockMembership, AcceptInvitation,
       SwitchAccount, RotateSession, FindFamily, EndFamily

LEMMA LoggedOutKnownStep ==
  ASSUME IInv, LogoutFound, LoggedOutKnown, NEW b \in Backends, Step(b)
  PROVE  LoggedOutKnown'
<1>1. loggedOut \subseteq Sessions /\ TypeOK /\ CallsTyped
  BY DEF IInv, TypeOK
<1>2. CASE UNCHANGED loggedOut
  BY <1>1, <1>2, UsedStays DEF LoggedOutKnown
<1>3. CASE pc[b] = "end family" /\ loggedOut' = loggedOut \cup {call[b].family}
  <2>1. call[b].family \in Sessions
    BY <1>1, <1>3, CallShapes DEF LogoutCalls
  <2>2. session[call[b].family].status # "none"
    BY <1>3 DEF LogoutFound
  <2> QED BY <1>1, <1>3, <2>1, <2>2, UsedStays DEF LoggedOutKnown
<1> QED BY <1>1, <1>2, <1>3, LoggedOutStep

\* A logout revokes every live session of its family, and no step brings one
\* back to it.
LEMMA LogoutStep ==
  ASSUME IInv, LogoutFound, LoggedOutKnown, LogoutEndsFamily, NEW b \in Backends, Step(b)
  PROVE  LogoutEndsFamily'
<1>1. SUFFICES ASSUME NEW s \in Sessions, session'[s].status = "live"
               PROVE  session'[s].family \notin loggedOut'
  BY DEF LogoutEndsFamily
<1>2. TypeOK /\ CallsTyped
  BY DEF IInv
<1>3. CASE UNCHANGED loggedOut
  <2>1. CASE session[s].status = "live" /\ session'[s].family = session[s].family
    BY <1>3, <2>1 DEF LogoutEndsFamily
  <2>2. CASE \E old \in Sessions : session[old].status = "live"
                                   /\ session'[s].family = session[old].family
    BY <1>3, <2>2 DEF LogoutEndsFamily
  <2>3. CASE session[s].status = "none" /\ session'[s].family = s
    BY <1>3, <2>3 DEF LoggedOutKnown
  <2>4. Fate(b, s)
    BY SessionFates
  <2> QED BY <1>1, <2>1, <2>2, <2>3, <2>4, Zenon DEF Fate
<1>4. CASE /\ pc[b] = "end family" /\ loggedOut' = loggedOut \cup {call[b].family}
           /\ session' = Revoked({t \in Sessions : SessionRow(t) \in call[b].rows})
  <2>1. session'[s] = IF SessionRow(s) \in call[b].rows
                        THEN [session[s] EXCEPT !.status = "revoked"] ELSE session[s]
    BY <1>4 DEF Revoked
  <2>2. session[s] \in SessionRows
    BY <1>2 DEF TypeOK
  <2>3. SessionRow(s) \notin call[b].rows /\ session'[s] = session[s]
    BY <1>1, <2>1, <2>2 DEF SessionRows
  <2>4. session[s].family # call[b].family
    BY <1>1, <1>4, <2>3 DEF LogoutFound
  <2>5. session[s].family \notin loggedOut
    BY <1>1, <2>3 DEF LogoutEndsFamily
  <2> QED BY <1>4, <2>3, <2>4, <2>5
<1> QED BY <1>2, <1>3, <1>4, LoggedOutStep

\* A rotation passes the one live session of its family on.
LEMMA OneLiveStep ==
  ASSUME IInv, LogoutFound, FamilyOpen, OneLiveSessionPerFamily, NEW b \in Backends, Step(b)
  PROVE  OneLiveSessionPerFamily'
<1>1. SUFFICES ASSUME NEW s \in Sessions, NEW t \in Sessions,
                      session'[s].status = "live", session'[t].status = "live",
                      session'[s].family = session'[t].family
               PROVE  s = t
  BY DEF OneLiveSessionPerFamily
<1>2. \A r \in Sessions : session[r] \in SessionRows /\ session[r].family \in Sessions
  BY DEF IInv, TypeOK, SessionRows
<1>3. ASSUME \A r \in {s, t} : session[r].status = "live" /\ session'[r].family = session[r].family
      PROVE  s = t
  BY <1>1, <1>3 DEF OneLiveSessionPerFamily
<1>4. CASE Ends
  <2>1. PICK rows \in SUBSET Used : session' = Revoked(rows)
    BY <1>4 DEF Ends
  <2>2. \A r \in {s, t} : session'[r] = IF r \in rows
                                        THEN [session[r] EXCEPT !.status = "revoked"] ELSE session[r]
    BY <2>1 DEF Revoked
  <2>3. \A r \in {s, t} : session'[r] = session[r]
    BY <1>1, <1>2, <2>2 DEF SessionRows
  <2> QED BY <1>1, <1>3, <2>3
<1>5. CASE Moves(b)
  <2>1. PICK m \in Sessions, a \in Accounts : session' = Moved(m, a)
    BY <1>5 DEF Moves
  <2>2. \A r \in Sessions : r # m => session'[r] = session[r]
    BY <2>1 DEF Moved, IInv, TypeOK
  <2>3. session'[m] = [session[m] EXCEPT !.account = a, !.version = @ + 1]
    BY <2>1 DEF Moved, IInv, TypeOK
  <2>4. session'[m].status = session[m].status /\ session'[m].family = session[m].family
    BY <1>2, <2>3 DEF SessionRows
  <2> QED BY <1>1, <1>3, <2>2, <2>4
<1>6. CASE Rotates(b)
  <2>1. PICK old \in Sessions, new \in Unused :
          /\ session[old].status = "live"
          /\ session' = [session EXCEPT ![old].status = "revoked",
                                        ![new] = [session[old] EXCEPT !.version = 0]]
    BY <1>6 DEF Rotates
  <2>2. new \in Sessions /\ session[new].status = "none" /\ old # new
    BY <2>1 DEF Unused
  <2>3. session'[new] = [session[old] EXCEPT !.version = 0]
        /\ session'[old] = [session[old] EXCEPT !.status = "revoked"]
        /\ \A r \in Sessions : r # old /\ r # new => session'[r] = session[r]
    BY <2>1, <2>2 DEF IInv, TypeOK
  <2>4. session'[new].family = session[old].family /\ session'[old].status = "revoked"
    BY <1>2, <2>3 DEF SessionRows
  <2>5. ASSUME NEW r \in Sessions, session'[r].status = "live",
               session'[r].family = session[old].family
        PROVE  r = new
    <3>1. r # old
      BY <2>4, <2>5
    <3>2. CASE r # new
      <4>1. session[r].status = "live" /\ session[r].family = session[old].family
        BY <2>3, <2>5, <3>1, <3>2, Zenon
      <4> QED BY <2>1, <3>1, <4>1, Zenon DEF OneLiveSessionPerFamily
    <3> QED BY <3>2
  <2>6. CASE s = new \/ t = new
    BY <1>1, <2>4, <2>5, <2>6
  <2>7. CASE s # new /\ t # new
    BY <1>1, <1>3, <2>3, <2>4, <2>7
  <2> QED BY <2>6, <2>7
<1>7. CASE Enters(b)
  <2>1. PICK new \in Unused, a \in Accounts, u \in Users :
          session' = [session EXCEPT ![new] = [account |-> a, user |-> u, family |-> new,
                                               version |-> 0, status |-> "live"]]
    BY <1>7 DEF Enters
  <2>2. new \in Sessions /\ session[new].status = "none"
    BY <2>1 DEF Unused
  <2>3. session'[new].family = new /\ \A r \in Sessions : r # new => session'[r] = session[r]
    BY <2>1, <2>2 DEF IInv, TypeOK
  <2>4. ASSUME NEW r \in Sessions, session'[r].status = "live", session'[r].family = new
        PROVE  r = new
    BY <2>2, <2>3, <2>4 DEF FamilyOpen
  <2>5. CASE s = new \/ t = new
    BY <1>1, <2>3, <2>4, <2>5
  <2>6. CASE s # new /\ t # new
    BY <1>1, <1>3, <2>3, <2>6
  <2> QED BY <2>5, <2>6
<1>8. CASE UNCHANGED session
  BY <1>1, <1>3, <1>8
<1> QED BY <1>4, <1>5, <1>6, <1>7, <1>8, SessionShapes

-----------------------------------------------------------------------------
\* Members who leave or change their role.

\* The update has found every live session of its member in the account: while
\* it holds the member's row none can be added.
SessionsFound ==
  \A b \in Backends : pc[b] = "revoke" /\ EndsSessions(call[b]) =>
    \A s \in SessionsOf(call[b].account, call[b].user) :
      session[s].status = "live" => SessionRow(s) \in call[b].rows

LEMMA SessionsFoundStep ==
  ASSUME IInv, LogoutFound, SessionsFound, NEW b \in Backends, Step(b)
  PROVE  SessionsFound'
<1> USE DEF IInv
<1>1. SUFFICES ASSUME NEW c \in Backends, pc'[c] = "revoke", EndsSessions(call[c])',
                      NEW s \in Sessions, session'[s].status = "live",
                      session'[s].account = call'[c].account,
                      session'[s].user = call'[c].user
               PROVE  SessionRow(s) \in call'[c].rows
  BY DEF SessionsFound, SessionsOf
<1>2. Guarded(c)'
  BY <1>1 DEF Guarded
<1>3. CASE c # b
  <2>1. pc'[c] = pc[c] /\ call'[c] = call[c] /\ held'[c] = held[c] /\ Guarded(c)
    BY <1>2, <1>3, OthersUntouched DEF Guarded
  <2>2. member'[call[c].account][call[c].user] = member[call[c].account][call[c].user]
    BY <1>3, <2>1, OthersGuarded
  <2>3. EndsSessions(call[c])
    BY <1>1, <2>1, <2>2 DEF EndsSessions, Updated
  <2>4. MemberRow(session'[s].account, session'[s].user) \in held[c]
    BY <1>1, <2>1 DEF TargetHeld, Target, Guarded
  <2>5. ~Free(b, {MemberRow(session'[s].account, session'[s].user)})
    BY <1>3, <2>4 DEF Free
  <2>6. Fate(b, s)
    BY SessionFates
  <2>7. session'[s] = session[s]
    <3>1. ASSUME NEW old \in Sessions, session'[s].account = session[old].account,
                 session'[s].user = session[old].user,
                 Free(b, {MemberRow(session[old].account, session[old].user)})
          PROVE  FALSE
      BY <2>5, <3>1
    <3>2. session'[s].status # "revoked"
      BY <1>1
    <3> QED BY <2>5, <2>6, <3>1, <3>2, Zenon DEF Fate
  <2>8. s \in SessionsOf(call[c].account, call[c].user) /\ session[s].status = "live"
    BY <1>1, <2>1, <2>7 DEF SessionsOf
  <2> QED BY <1>1, <2>1, <2>3, <2>8 DEF SessionsFound
<1>4. CASE c = b
  <2>1. WriteMembership(b) /\ UNCHANGED member /\ call[b] \in UpdateCalls
    BY <1>1, <1>2, <1>4, OwnGuarded
  <2> DEFINE rows == IF EndsSessions(call[b])
                       THEN {SessionRow(r) : r \in SessionsOf(call[b].account, call[b].user)}
                       ELSE {}
  <2>2. call' = [call EXCEPT ![b].rows = rows] /\ UNCHANGED session
    BY <2>1 DEF WriteMembership, Continue, data
  <2> HIDE DEF rows
  <2>3. /\ call'[b].account = call[b].account /\ call'[b].user = call[b].user
        /\ call'[b].role = call[b].role /\ call'[b].status = call[b].status
        /\ call'[b].rows = rows
    BY <2>1, <2>2 DEF CallsTyped, UpdateCalls
  <2>4. EndsSessions(call[b])
    BY <1>1, <1>4, <2>1, <2>3 DEF EndsSessions, Updated
  <2>5. s \in SessionsOf(call[b].account, call[b].user)
    BY <1>1, <1>4, <2>2, <2>3 DEF SessionsOf
  <2> QED BY <1>4, <2>3, <2>4, <2>5 DEF rows
<1> QED BY <1>3, <1>4

\* A commit that ends sessions leaves none of its member in the account.
LEMMA CommitEndsSessions ==
  ASSUME IInv, SessionsFound, NEW b \in Backends, NEW a \in Accounts, NEW u \in Users,
         Commits(b, a, u), EndsSessions(call[b]),
         NEW s \in Sessions, session'[s].account = a, session'[s].user = u
  PROVE  session'[s].status # "live"
<1> DEFINE rows == {t \in SessionsOf(a, u) : SessionRow(t) \in call[b].rows}
<1>1. SUFFICES ASSUME session'[s].status = "live" PROVE FALSE
  OBVIOUS
<1>2. session[s] \in SessionRows
  BY DEF IInv, TypeOK
<1>3. session'[s] = IF s \in rows THEN [session[s] EXCEPT !.status = "revoked"] ELSE session[s]
  BY DEF Commits, Revoked
<1>4. s \notin rows /\ session'[s] = session[s]
  <2> HIDE DEF rows
  <2> QED BY <1>1, <1>2, <1>3 DEF SessionRows
<1>5. s \in SessionsOf(a, u)
  BY <1>1, <1>4 DEF SessionsOf
<1>6. pc[b] = "revoke" /\ a = call[b].account /\ u = call[b].user
  BY DEF Commits
<1>7. SessionRow(s) \in call[b].rows
  BY <1>1, <1>4, <1>5, <1>6 DEF SessionsFound
<1> QED BY <1>4, <1>5, <1>7

\* Nobody who is removed gets a session: it would need his row, and read it.
LEMMA RemovedStep ==
  ASSUME IInv, LogoutFound, SessionsFound, RemovedHaveNoLiveSession, NEW b \in Backends, Step(b)
  PROVE  RemovedHaveNoLiveSession'
<1> USE DEF IInv
<1>1. SUFFICES ASSUME NEW s \in Sessions, session'[s].status = "live",
                      member'[session'[s].account][session'[s].user].status = "removed"
               PROVE  FALSE
  BY DEF RemovedHaveNoLiveSession
<1>2. session'[s].account \in Accounts /\ session'[s].user \in Users
  <2>1. TypeOK'
    BY StepTyped
  <2> QED BY <2>1 DEF TypeOK, SessionRows
<1>3. Fate(b, s)
  BY SessionFates
<1>4. CASE session'[s] = session[s]
  <2> DEFINE a == session[s].account
             u == session[s].user
  <2>1. member[a][u].status # "removed" /\ member'[a][u].status = "removed"
    BY <1>1, <1>4 DEF RemovedHaveNoLiveSession
  <2>2. a \in Accounts /\ u \in Users /\ ~Admits(a, u)
    BY <1>2, <1>4, <2>1 DEF Admits
  <2> HIDE DEF a, u
  <2>3. Commits(b, a, u)
    BY <2>1, <2>2, MemberChanges
  <2>4. EndsSessions(call[b])
    BY <2>1, <2>3 DEF Commits, EndsSessions
  <2>5. session'[s].account = a /\ session'[s].user = u
    BY <1>4 DEF a, u
  <2> QED BY <1>1, <2>2, <2>3, <2>4, <2>5, CommitEndsSessions
<1>5. ASSUME NEW old \in Sessions, session[old].status = "live", UNCHANGED member,
             session'[s].account = session[old].account, session'[s].user = session[old].user
      PROVE  FALSE
  BY <1>1, <1>5 DEF RemovedHaveNoLiveSession
<1>6. session'[s].status # "revoked"
  BY <1>1
<1>7. member'[session'[s].account][session'[s].user].status \notin {"active", "suspended"}
  BY <1>1
<1> QED BY <1>3, <1>4, <1>5, <1>6, <1>7, Zenon DEF Fate

\* The role of a member changes by an update that revokes.
LEMMA RoleChangeStep ==
  ASSUME IInv, SessionsFound, NEW b \in Backends, Step(b),
         NEW a \in Accounts, NEW u \in Users,
         member[a][u].status \in {"active", "suspended"},
         member'[a][u].role # member[a][u].role,
         NEW s \in Sessions
  PROVE  ~(session'[s].status = "live" /\ session'[s].account = a /\ session'[s].user = u)
<1> USE DEF IInv
<1>1. Commits(b, a, u)
  BY MemberStep DEF Admits
<1>2. call[b].role # Keep
  BY <1>1 DEF Commits, Updated
<1>3. EndsSessions(call[b])
  BY <1>2 DEF EndsSessions
<1> QED BY <1>1, <1>3, CommitEndsSessions

-----------------------------------------------------------------------------
\* The theorems about sessions.

SessInv ==
  /\ IInv /\ LogoutFound /\ FamilyOpen /\ LoggedOutKnown /\ SessionsFound
  /\ LogoutEndsFamily /\ OneLiveSessionPerFamily /\ RemovedHaveNoLiveSession

LEMMA InitSessInv == Init => SessInv
<1>1. SUFFICES ASSUME Init PROVE SessInv
  OBVIOUS
<1> USE <1>1 DEF Init
<1>2. IInv
  BY InitIInv
<1>3. LogoutFound /\ SessionsFound
  BY DEF LogoutFound, SessionsFound
<1>4. LoggedOutKnown /\ LogoutEndsFamily
  BY DEF LoggedOutKnown, LogoutEndsFamily
<1>5. FamilyOpen /\ OneLiveSessionPerFamily /\ RemovedHaveNoLiveSession
  BY FirstSessionsAssumption DEF FamilyOpen, OneLiveSessionPerFamily, RemovedHaveNoLiveSession
<1> QED BY <1>2, <1>3, <1>4, <1>5 DEF SessInv

LEMMA NextSessInv == SessInv /\ [Next]_vars => SessInv'
<1>1. SUFFICES ASSUME SessInv, [Next]_vars PROVE SessInv'
  OBVIOUS
<1>2. IInv'
  BY <1>1, NextIInv DEF SessInv
<1>3. CASE \E b \in Backends : Step(b)
  <2>1. PICK b \in Backends : Step(b)
    BY <1>3
  <2> QED
    BY <1>1, <1>2, <2>1, LogoutFoundStep, FamilyOpenStep, LoggedOutKnownStep, SessionsFoundStep,
       LogoutStep, OneLiveStep, RemovedStep DEF SessInv
<1>4. CASE UNCHANGED << member, session, loggedOut, pc, call, held >>
  <2>1. LogoutFound' /\ FamilyOpen' /\ LoggedOutKnown'
    BY <1>1, <1>4 DEF SessInv, LogoutFound, FamilyOpen, LoggedOutKnown
  <2>2. SessionsFound'
    BY <1>1, <1>4 DEF SessInv, SessionsFound, SessionsOf, EndsSessions, Updated
  <2>3. LogoutEndsFamily' /\ OneLiveSessionPerFamily' /\ RemovedHaveNoLiveSession'
    BY <1>1, <1>4
       DEF SessInv, LogoutEndsFamily, OneLiveSessionPerFamily, RemovedHaveNoLiveSession
  <2> QED BY <1>2, <2>1, <2>2, <2>3 DEF SessInv
<1> QED BY <1>1, <1>3, <1>4 DEF Next, InvitationExpires, vars, data

\* auth_revoke_session ends its whole family for good: a rotation that is under
\* way cannot leave a live successor behind.
THEOREM LogoutIsFinal == Spec => []LogoutEndsFamily
<1>1. SessInv => LogoutEndsFamily
  BY DEF SessInv
<1> QED BY InitSessInv, NextSessInv, <1>1, PTL DEF Spec

\* However many connections rotate one cookie, auth_rotate_session leaves one
\* live session in its family.
THEOREM RotationsShareFamily == Spec => []OneLiveSessionPerFamily
<1>1. SessInv => OneLiveSessionPerFamily
  BY DEF SessInv
<1> QED BY InitSessInv, NextSessInv, <1>1, PTL DEF Spec

\* A removal by auth_update_membership_secure leaves no live session in the
\* account: none that was rotated, moved there or opened meanwhile.
THEOREM RemovalsEndSessions == Spec => []RemovedHaveNoLiveSession
<1>1. SessInv => RemovedHaveNoLiveSession
  BY DEF SessInv
<1> QED BY InitSessInv, NextSessInv, <1>1, PTL DEF Spec

\* The transaction that changes a member's role revokes every session that he
\* has in the account.
THEOREM RoleChangesRevoke == Spec => RoleChangeEndsSessions
<1> DEFINE A == \A a \in Accounts, u \in Users :
       /\ member[a][u].status \in {"active", "suspended"}
       /\ member'[a][u].role # member[a][u].role
       => \A s \in Sessions :
            ~(session'[s].status = "live" /\ session'[s].account = a /\ session'[s].user = u)
<1>1. SessInv /\ [Next]_vars => [A]_vars
  <2>1. SUFFICES ASSUME SessInv, Next PROVE A
    OBVIOUS
  <2>2. CASE \E b \in Backends : Step(b)
    <3>1. PICK b \in Backends : Step(b)
      BY <2>2
    <3> QED BY <2>1, <3>1, RoleChangeStep DEF SessInv
  <2>3. CASE \E i \in Invites : InvitationExpires(i)
    BY <2>3 DEF InvitationExpires
  <2> QED BY <2>1, <2>2, <2>3 DEF Next
<1> QED BY InitSessInv, NextSessInv, <1>1, PTL DEF Spec, RoleChangeEndsSessions

=============================================================================
