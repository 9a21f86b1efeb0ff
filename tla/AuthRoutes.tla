----------------------------- MODULE AuthRoutes -----------------------------
(***************************************************************************)
(* The routes that a signed-in browser calls, as apps/api/src/auth.ts and  *)
(* memberships.ts answer them: sessions named by a cookie that every       *)
(* GET /auth/session, every account switch and every accepted invitation   *)
(* replaces.  A call is answered in one step and its answer travels back   *)
(* on its own, so answers arrive in any order.  What the SQL functions     *)
(* behind the routes do under concurrency is the subject of Access; here   *)
(* each of them is one step.                                               *)
(***************************************************************************)
EXTENDS Naturals, FiniteSets

CONSTANTS
  Accounts,
  NoAccount,
  Home,        \* the account in which a login opens its session
  RoleIn,      \* the user's role in each account
  Register,    \* the assessments of each account, newest first
  Drafts,      \* assessments that have no delivery yet
  NoItem,
  Callers,     \* who can have a call under way
  MaxTokens,   \* bound on the session tokens ever issued
  MaxVersion,  \* bound on the progress of the assessments
  MaxFaults    \* bound on refused, failed and lost calls

ASSUME HomeAssumption  == Home \in Accounts /\ NoAccount \notin Accounts
ASSUME BoundAssumption == MaxTokens \in Nat /\ MaxVersion \in Nat /\ MaxFaults \in Nat

VARIABLES
  issued,   \* the number of tokens issued
  family,   \* the login from which a token descends, by its first token
  account,  \* the active account of the session a token names
  known,    \* tokens whose hash a session row holds, revoked or not
  live,     \* tokens of sessions that are neither revoked nor over
  joined,   \* accounts in which the user is an active member
  version,  \* how far the assessments have come
  call,     \* the call of each caller, with its answer once there is one
  faults

rows       == << issued, family, account, known, live, joined >>
serverVars == << rows, version, call, faults >>

Tokens  == 1..MaxTokens
NoToken == 0
Keep    == MaxTokens + 1      \* an answer without Set-Cookie

Silent == [route |-> "none"]

\* What fetch sends: the cookie is the one in the jar at that moment.
Request(route, token, a, item) ==
  [route |-> route, token |-> token, account |-> a, item |-> item, code |-> 0]

Asked(c, route) == call[c].route = route /\ call[c].code = 0
Answered(c)     == call[c].route # "none" /\ call[c].code # 0
SetCookie(c)    == IF Answered(c) THEN call[c].set ELSE Keep

\* Only an answer about results tells how far the assessment has come.
Reply(c, code, set, a) ==
  call' = [call EXCEPT ![c] = [route |-> @.route, account |-> @.account, item |-> @.item,
             code |-> code, set |-> set, active |-> a,
             version |-> IF @.route = "results" THEN version ELSE 0]]

\* resolveAuthSession: a session that is revoked or over is no session.
Resolved(t) == t \in live

\* sessionForAccount: the cookie's session decides, never the account of the URL.
CodeFor(t, a) ==
  CASE ~Resolved(t)                      -> 401
    [] Resolved(t) /\ account[t] # a     -> 403
    [] Resolved(t) /\ account[t] = a     -> 200

------------------------------------------------------------------------------
(***************************************************************************)
(* The session store.                                                      *)
(***************************************************************************)

Next1 == issued + 1

\* completeProviderLogin: a new family in the user's own account.
OpenSession ==
  /\ issued' = Next1
  /\ family' = [family EXCEPT ![Next1] = Next1]
  /\ account' = [account EXCEPT ![Next1] = Home]
  /\ known' = known \cup {Next1}
  /\ live' = live \cup {Next1}

\* rotateAuthSession: the old row stays and is revoked.
Rotated(t) ==
  /\ issued' = Next1
  /\ family' = [family EXCEPT ![Next1] = family[t]]
  /\ account' = [account EXCEPT ![Next1] = account[t]]
  /\ known' = known \cup {Next1}
  /\ live' = (live \ {t}) \cup {Next1}

\* switchAuthAccount: the row gets the new token hash, and nothing remembers the
\* old one.
MovedTo(t, a) ==
  /\ issued' = Next1
  /\ family' = [family EXCEPT ![Next1] = family[t]]
  /\ account' = [account EXCEPT ![Next1] = a]
  /\ known' = (known \ {t}) \cup {Next1}
  /\ live' = (live \ {t}) \cup {Next1}

\* acceptAuthInvitation: likewise, but an invitation that this user has accepted
\* before is accepted again and the session stays as it is.
Joins(t, a) == MovedTo(t, a) /\ joined' = joined \cup {a}
JoinedBefore(t, a) == a \in joined \ {Home} /\ UNCHANGED rows

\* listSessionAccounts: a session that is over has no accounts, which is no error.
ActiveOf(t) == IF Resolved(t) THEN account[t] ELSE NoAccount

\* revokeAuthSession: the whole family, found through any token a row holds.
Ended(t) == live' = IF t \in known THEN {u \in live : family[u] # family[t]} ELSE live

------------------------------------------------------------------------------
(***************************************************************************)
(* The routes.                                                             *)
(***************************************************************************)

\* GET /auth/session, GET /auth/me: the answer describes the session as it was
\* before the rotation.
ServeSession(c) ==
  LET t == call[c].token IN
  /\ Asked(c, "session")
  /\ \/ Resolved(t) /\ Rotated(t) /\ Reply(c, 200, Next1, account[t])
     \/ ~Resolved(t) /\ Reply(c, 401, Keep, NoAccount)
        /\ UNCHANGED << issued, family, account, known, live >>
  /\ UNCHANGED << joined, version, faults >>

\* Variant: the replacement is stored but not handed out.
SwitchAnswerBare(c) == Keep

SwitchAnswer(c) == Next1

ServeSwitch(c) ==
  LET t == call[c].token
      a == call[c].account
  IN
  /\ Asked(c, "switch")
  /\ \/ t \in live /\ a \in joined /\ MovedTo(t, a) /\ Reply(c, 200, SwitchAnswer(c), a)
     \/ ~(t \in live /\ a \in joined)
        /\ Reply(c, IF t = NoToken THEN 401 ELSE 403, Keep, NoAccount)
        /\ UNCHANGED << issued, family, account, known, live >>
  /\ UNCHANGED << joined, version, faults >>

\* POST /invitations/accept: the user was invited once to each other account.
ServeAccept(c) ==
  LET t == call[c].token
      a == call[c].account
  IN
  /\ Asked(c, "accept")
  /\ \/ Resolved(t) /\ a \notin joined /\ Joins(t, a) /\ Reply(c, 200, Next1, a)
     \/ Resolved(t) /\ JoinedBefore(t, a) /\ Reply(c, 200, Keep, account[t])
     \/ (~Resolved(t) \/ a = Home) /\ UNCHANGED rows /\ Reply(c, 400, Keep, NoAccount)
  /\ UNCHANGED << version, faults >>

\* Without a cookie, or with one no row holds, there is nothing to revoke: 204
\* all the same.
ServeLogout(c) ==
  /\ Asked(c, "logout")
  /\ Ended(call[c].token)
  /\ Reply(c, 204, NoToken, NoAccount)
  /\ UNCHANGED << issued, family, account, known, joined, version, faults >>

\* GET /accounts
ServeAccounts(c) ==
  LET t == call[c].token IN
  /\ Asked(c, "accounts")
  /\ Reply(c, IF t = NoToken THEN 401 ELSE 200, Keep, ActiveOf(t))
  /\ UNCHANGED << rows, version, faults >>

\* The register and the team, notifications, delivery and reports, and every
\* change within an account.  What a change does there, and why it is refused, is
\* modelled by CustomerApi and Access; here it succeeds or not.
ScopedRoutes == {"lists", "notes", "results", "change", "submit"}

\* The tenant's store has no delivery of a draft, and no assessment of another
\* account.
MissingItem(c) ==
  LET listed == Register[call[c].account] IN
  /\ call[c].route = "results"
  /\ call[c].item \in Drafts \/ \A n \in DOMAIN listed : listed[n] # call[c].item

ServeScoped(c) ==
  LET code == CodeFor(call[c].token, call[c].account) IN
  /\ call[c].route \in ScopedRoutes /\ call[c].code = 0
  /\ \/ Reply(c, IF code = 200 /\ MissingItem(c) THEN 404 ELSE code, Keep, NoAccount)
     \/ code = 200 /\ call[c].route \in {"change", "submit"} /\ Reply(c, 409, Keep, NoAccount)
  /\ UNCHANGED << rows, version, faults >>

\* sealTransient and openTransient: the login cookie is opened at the callback if
\* it is not over, and names the start it is of.
Sealed(f, provider) == [state |-> f, provider |-> provider]
Opens(cookie, f, provider) == cookie = Sealed(f, provider)

\* A callback opens a session if the cookie is of the start that the state and the
\* provider of the URL name, the provider redeems the code for an identity that is
\* valid, and the store takes it.  Any failure is a 401.
Callback(c, provider) ==
  /\ Asked(c, provider)
  /\ \/ Opens(call[c].item, c, provider) /\ OpenSession /\ Reply(c, 302, Next1, Home)
     \/ Reply(c, 401, Keep, NoAccount) /\ UNCHANGED << issued, family, account, known, live >>
  /\ UNCHANGED << joined, version, faults >>

ServeGitHubCallback(c) == Callback(c, "github")
ServeGoogleCallback(c) == Callback(c, "google")

Serve(c) ==
  \/ ServeSession(c) \/ ServeSwitch(c) \/ ServeAccept(c) \/ ServeLogout(c)
  \/ ServeAccounts(c) \/ ServeScoped(c)
  \/ ServeGitHubCallback(c) \/ ServeGoogleCallback(c)

\* auditMiddleware: what cannot be recorded is not done, unless it only reads.
Mutations == {"switch", "accept", "logout", "change", "submit"}

ServeUnaudited(c) ==
  /\ faults < MaxFaults
  /\ call[c].route \in Mutations /\ call[c].code = 0
  /\ faults' = faults + 1
  /\ Reply(c, 503, Keep, NoAccount)
  /\ UNCHANGED << rows, version >>

\* withAuthRole: the database is not there, and nothing was done.
FailureCode(route) ==
  CASE route \in {"switch", "accept"}               -> 400
    [] route = "accounts"                           -> 500
    [] route \in ScopedRoutes \cup {"session", "logout"} -> 503

ServeFails(c) ==
  /\ faults < MaxFaults
  /\ call[c].route \in ScopedRoutes \cup {"session", "switch", "accept", "logout", "accounts"}
  /\ call[c].code = 0
  /\ faults' = faults + 1
  /\ Reply(c, FailureCode(call[c].route), Keep, NoAccount)
  /\ UNCHANGED << rows, version >>

\* The worker publishes more of the assessments.
Progress ==
  /\ version < MaxVersion
  /\ version' = version + 1
  /\ UNCHANGED << rows, call, faults >>

\* Another administrator changes the user's role, or the sessions run out.
SessionsEnd ==
  /\ faults < MaxFaults
  /\ live # {}
  /\ live' = {}
  /\ faults' = faults + 1
  /\ UNCHANGED << issued, family, account, known, joined, version, call >>

InitServer ==
  /\ issued = 1
  /\ family = [t \in Tokens |-> IF t = 1 THEN 1 ELSE NoToken]
  /\ account = [t \in Tokens |-> IF t = 1 THEN Home ELSE NoAccount]
  /\ known = {1}
  /\ live = {1}
  /\ joined = {Home}
  /\ version = 0
  /\ call = [c \in Callers |-> Silent]
  /\ faults = 0
=============================================================================
