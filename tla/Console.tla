------------------------------ MODULE Console ------------------------------
(***************************************************************************)
(* The customer console (apps/web/src/App.tsx with packages/ui/            *)
(* api-client.ts) in one tab of a browser, and logins in its other         *)
(* windows, which share the cookies.  Each handler of the tab is an async  *)
(* function: a slot holds one that is running, the call it awaits is the   *)
(* call of that slot, and between two calls other handlers run.            *)
(***************************************************************************)
EXTENDS AuthRoutes, SequencesExt

CONSTANTS
  Slots,     \* handlers that may run at once in the tab, by number
  Flows,     \* windows in which a login may be under way
  MaxRounds  \* bound on the handlers started

ASSUME CallersAssumption == Slots \subseteq Nat /\ Slots \cap Flows = {} /\ Callers = Slots \cup Flows
ASSUME FiniteAssumption  == IsFiniteSet(Slots) /\ IsFiniteSet(Flows)
ASSUME RoundsAssumption  == MaxRounds \in Nat /\ MaxTokens > 2 * MaxRounds + Cardinality(Flows)

VARIABLES
  jar,         \* the session cookie
  transient,   \* the login cookie: of the start that set it last
  window,      \* where each login is
  stray,       \* an answer with a session cookie never reached the browser
  auth,        \* authState
  active,      \* activeAccount: of the last list of accounts
  register,    \* whose assessments are shown, and whether any is under way
  selected,    \* selectedAssessmentId
  results,     \* the delivery and reports shown
  timerSel,    \* the selection that the timer's refresh closed over
  generation,  \* resultsGeneration
  busy, resultsBusy,
  task,        \* the handler in each slot
  rounds       \* the number of handlers started

browser == << jar, transient, window, stray >>
shown   == << active, register, selected, results, timerSel >>
page    == << auth, shown, generation, busy, resultsBusy, task >>
vars    == << serverVars, browser, page, rounds >>

NoResults == [item |-> NoItem, version |-> 0]
NoList    == [account |-> NoAccount, open |-> FALSE]
Idle      == [op |-> "none"]
NoLogin   == [state |-> NoItem]

Free(i) == task[i] = Idle /\ call[i] = Silent

\* The account and its role, as the list of accounts gave them.
ReadsRegister(a) == RoleIn[a] # "billing"
Open(a) == ReadsRegister(a) /\ version < MaxVersion /\ ToSet(Register[a]) \ Drafts # {}

\* The tab was opened and everything it asked for has been answered.
InitConsole ==
  /\ InitServer
  /\ jar = 1 /\ transient = NoLogin /\ window = [f \in Flows |-> "shut"] /\ stray = FALSE
  /\ auth = "signed_in"
  /\ active = Home /\ register = [account |-> Home, open |-> Open(Home)]
  /\ selected = Head(Register[Home]) /\ results = [item |-> selected, version |-> 0]
  /\ timerSel = selected /\ generation = 0 /\ busy = FALSE /\ resultsBusy = FALSE
  /\ task = [i \in Slots |-> Idle]
  /\ rounds = 0

------------------------------------------------------------------------------
(***************************************************************************)
(* What the handlers are made of.                                          *)
(***************************************************************************)

Await(i, route, token, a, item) == call' = [call EXCEPT ![i] = Request(route, token, a, item)]

Finish(i) == task' = [task EXCEPT ![i] = Idle] /\ call' = [call EXCEPT ![i] = Silent]

\* Variant: every snapshot is shown, whichever refresh it is of.
NeverStale(i) == FALSE

\* isStale of refreshResults
IsStale(i) == task[i].gen # generation

Awaiting(i, route) == task[i] # Idle /\ task[i].op # "gone" /\ Answered(i) /\ call[i].route = route
Ok(i) == call[i].code \in {200, 204}

\* refreshWorkspace up to its first await, in a handler that closed over sel.
RefreshWorkspace(i, op, sel, token) ==
  /\ generation' = generation + 1
  /\ busy' = TRUE
  /\ task' = [task EXCEPT ![i] = [op |-> op, gen |-> generation + 1, sel |-> sel]]
  /\ Await(i, "accounts", token, NoAccount, NoItem)

\* Refreshes are the handlers that end with setBusy(false).
IsRefresh(i) == task[i].op # "results"

\* Variant: the flag is reset where the refresh succeeds, not in finally.
EndRefreshWhenDone(i) ==
  Finish(i) /\ busy' = IF IsRefresh(i) /\ Ok(i) THEN FALSE ELSE busy

\* The end of refreshWorkspace, with which each handler that called it ends.
EndRefresh(i) == Finish(i) /\ busy' = IF IsRefresh(i) THEN FALSE ELSE busy

------------------------------------------------------------------------------
(***************************************************************************)
(* Handlers that the user, the timer or the browser start.                 *)
(***************************************************************************)

\* The slots are alike: a handler takes the first free one.
Starts(i) ==
  /\ Free(i) /\ \A k \in Slots : Free(k) => i <= k
  /\ rounds < MaxRounds /\ rounds' = rounds + 1

\* The page is opened or reloaded: what it was waiting for is answered to
\* nobody.
Load(i) ==
  /\ Starts(i)
  /\ auth' = "checking"
  /\ active' = NoAccount /\ register' = NoList /\ selected' = NoItem /\ results' = NoResults
  /\ timerSel' = NoItem /\ busy' = FALSE /\ resultsBusy' = FALSE
  /\ task' = [k \in Slots |->
               IF k = i THEN [op |-> "boot", gen |-> 0, sel |-> NoItem]
               ELSE IF task[k] = Idle THEN Idle ELSE [op |-> "gone"]]
  /\ Await(i, "session", jar, NoAccount, NoItem)
  /\ UNCHANGED << rows, version, faults, browser, generation >>

SignedIn == auth = "signed_in"

\* Retry is offered without an account, or beside an error: downloads and marking
\* a notification, which are left out, leave one there at any time.
Retry(i) ==
  /\ Starts(i) /\ SignedIn
  /\ active # NoAccount \/ ~busy
  /\ RefreshWorkspace(i, "refresh", selected, jar)
  /\ UNCHANGED << rows, version, faults, browser, auth, shown, resultsBusy >>

\* The timer runs while an assessment of the register is under way.
TimerTicks(i) ==
  /\ Starts(i) /\ SignedIn /\ active # NoAccount /\ register.open
  /\ RefreshWorkspace(i, "refresh", timerSel, jar)
  /\ UNCHANGED << rows, version, faults, browser, auth, shown, resultsBusy >>

\* refreshResults up to its first await, for the generation just begun.
RefreshResults(i, item) ==
  /\ generation' = generation + 1
  /\ resultsBusy' = TRUE
  /\ task' = [task EXCEPT ![i] = [op |-> "results", gen |-> generation + 1, sel |-> NoItem]]
  /\ Await(i, "notes", jar, active, item)

SelectAssessment(i) ==
  /\ Starts(i) /\ SignedIn /\ active # NoAccount /\ ReadsRegister(active)
  /\ register.account # NoAccount
  /\ \E item \in ToSet(Register[register.account]) :
       selected' = item /\ RefreshResults(i, item)
  /\ results' = NoResults
  /\ UNCHANGED << rows, version, faults, browser, auth, active, register, timerSel, busy >>

RefreshCurrentResults(i) ==
  /\ Starts(i) /\ SignedIn /\ active # NoAccount /\ ReadsRegister(active) /\ ~resultsBusy
  /\ RefreshResults(i, selected)
  /\ UNCHANGED << rows, version, faults, browser, auth, shown, busy >>

\* switchAccount and acceptInvitation wait for their call, then for the session.
AskMove(i) ==
  /\ Starts(i) /\ SignedIn /\ active # NoAccount /\ ~busy
  /\ \E route \in {"switch", "accept"}, a \in Accounts \ {active} :
       Await(i, route, jar, a, NoItem)
  /\ task' = [task EXCEPT ![i] = [op |-> "move", gen |-> 0, sel |-> selected]]
  /\ UNCHANGED << rows, version, faults, browser, auth, shown, generation, busy, resultsBusy >>

\* What the views let a role do.
Offers(role, route) ==
  \/ role \in {"owner", "admin"} /\ route \in {"submit", "change"}
  \/ role = "operator" /\ route = "submit"

\* createInvitation, createAssessment and queueAssessment; updateMember and
\* removeMember, which are busy from the start.
AskChange(i) ==
  /\ Starts(i) /\ SignedIn /\ active # NoAccount /\ ~busy
  /\ \E route \in {"submit", "change"} :
       /\ Offers(RoleIn[active], route)
       /\ Await(i, route, jar, active, NoItem)
       /\ busy' = (route = "change")
  /\ task' = [task EXCEPT ![i] = [op |-> "change", gen |-> 0, sel |-> selected]]
  /\ UNCHANGED << rows, version, faults, browser, auth, shown, generation, resultsBusy >>

Logout(i) ==
  /\ Starts(i) /\ SignedIn
  /\ busy' = TRUE
  /\ task' = [task EXCEPT ![i] = [op |-> "logout", gen |-> 0, sel |-> NoItem]]
  /\ Await(i, "logout", jar, NoAccount, NoItem)
  /\ UNCHANGED << rows, version, faults, browser, auth, shown, generation, resultsBusy >>

------------------------------------------------------------------------------
(***************************************************************************)
(* Answers.  The browser has stored the cookie of an answer before the     *)
(* handler that awaits it runs.                                            *)
(***************************************************************************)

JarAfter(c) == IF SetCookie(c) = Keep THEN jar ELSE SetCookie(c)
Stored(c)   == jar' = JarAfter(c) /\ UNCHANGED << transient, window, stray >>

\* The first call of switchAccount, acceptInvitation and the changes.
GotMove(i) ==
  /\ \/ Awaiting(i, "switch") \/ Awaiting(i, "accept")
  /\ Stored(i)
  /\ \/ /\ Ok(i) /\ Await(i, "session", JarAfter(i), NoAccount, NoItem) /\ UNCHANGED task
     \/ /\ ~Ok(i) /\ Finish(i)
  /\ UNCHANGED << rows, version, faults, auth, shown, generation, busy, resultsBusy >>

GotChange(i) ==
  /\ \/ Awaiting(i, "submit") \/ Awaiting(i, "change")
  /\ \/ Ok(i) /\ RefreshWorkspace(i, task[i].op, task[i].sel, jar)
     \/ /\ ~Ok(i) /\ Finish(i) /\ UNCHANGED generation
        /\ busy' = IF call[i].route = "change" THEN FALSE ELSE busy
  /\ UNCHANGED << rows, version, faults, browser, auth, shown, resultsBusy >>

GotSession(i) ==
  /\ Awaiting(i, "session")
  /\ Stored(i)
  /\ \/ /\ Ok(i)
        /\ auth' = IF task[i].op = "boot" THEN "signed_in" ELSE auth
        /\ RefreshWorkspace(i, task[i].op, task[i].sel, JarAfter(i))
     \/ /\ ~Ok(i)
        /\ auth' = CASE task[i].op = "boot" /\ call[i].code = 401 -> "signed_out"
                     [] task[i].op = "boot" /\ call[i].code # 401 -> "unavailable"
                     [] task[i].op # "boot" -> auth
        /\ Finish(i)
        /\ UNCHANGED << generation, busy >>
  /\ UNCHANGED << rows, version, faults, shown, resultsBusy >>

\* An account that may not read assessments has an empty register, at once.
GotAccounts(i) ==
  LET a == call[i].active IN
  /\ Awaiting(i, "accounts")
  /\ \/ /\ ~Ok(i) /\ EndRefresh(i) /\ UNCHANGED << shown, resultsBusy >>
     \/ /\ Ok(i) /\ a = NoAccount
        /\ active' = a /\ timerSel' = IF a = active THEN timerSel ELSE selected
        /\ EndRefresh(i) /\ UNCHANGED << register, selected, results, resultsBusy >>
     \/ /\ Ok(i) /\ a # NoAccount /\ ReadsRegister(a)
        /\ active' = a /\ timerSel' = IF a = active THEN timerSel ELSE selected
        /\ Await(i, "lists", jar, a, NoItem)
        /\ UNCHANGED << register, selected, results, resultsBusy, busy, task >>
     \/ /\ Ok(i) /\ a # NoAccount /\ ~ReadsRegister(a)
        /\ active' = a /\ register' = NoList /\ selected' = NoItem /\ timerSel' = NoItem
        /\ resultsBusy' = TRUE
        /\ Await(i, "notes", jar, a, NoItem)
        /\ UNCHANGED << results, busy, task >>
  /\ UNCHANGED << rows, version, faults, browser, auth, generation >>

\* The account's own choice if it is in the list, else the newest.
Choice(sel, a) == IF sel \in ToSet(Register[a]) THEN sel ELSE Head(Register[a])

GotLists(i) ==
  LET a == call[i].account IN
  /\ Awaiting(i, "lists")
  /\ \/ /\ ~Ok(i) /\ EndRefresh(i) /\ UNCHANGED << shown, resultsBusy >>
     \/ /\ Ok(i)
        /\ register' = [account |-> a, open |-> Open(a)]
        /\ selected' = Choice(task[i].sel, a)
        /\ timerSel' = selected'
        /\ resultsBusy' = TRUE
        /\ Await(i, "notes", jar, a, selected')
        /\ UNCHANGED << active, results, busy, task >>
  /\ UNCHANGED << rows, version, faults, browser, auth, generation >>

\* Variant: the flag is reset where the results are shown, not in finally.
SettledWhenShown(i) == resultsBusy' = IF IsStale(i) \/ ~Ok(i) THEN resultsBusy ELSE FALSE

Settled(i) == resultsBusy' = IF IsStale(i) THEN resultsBusy ELSE FALSE

GotNotes(i) ==
  /\ Awaiting(i, "notes")
  /\ \/ /\ Ok(i) /\ ~IsStale(i) /\ call[i].item # NoItem
        /\ Await(i, "results", jar, call[i].account, call[i].item)
        /\ UNCHANGED << results, busy, resultsBusy, task >>
     \/ /\ IsStale(i) \/ ~Ok(i) \/ call[i].item = NoItem
        /\ results' = IF Ok(i) /\ ~IsStale(i) THEN NoResults ELSE results
        /\ Settled(i) /\ EndRefresh(i)
  /\ UNCHANGED << rows, version, faults, browser, auth, active, register, selected, timerSel,
                  generation >>

\* A 404 means that a draft is selected.
GotResults(i) ==
  /\ Awaiting(i, "results")
  /\ results' = CASE IsStale(i) -> results
                  [] ~IsStale(i) /\ Ok(i) -> [item |-> call[i].item, version |-> call[i].version]
                  [] ~IsStale(i) /\ call[i].code = 404 -> NoResults
                  [] ~IsStale(i) /\ ~Ok(i) /\ call[i].code # 404 -> results
  /\ Settled(i) /\ EndRefresh(i)
  /\ UNCHANGED << rows, version, faults, browser, auth, active, register, selected, timerSel,
                  generation >>

\* finally: the tab is signed out whatever the answer was.
GotLogout(i) ==
  /\ Awaiting(i, "logout")
  /\ Stored(i)
  /\ auth' = "signed_out"
  /\ active' = NoAccount /\ register' = NoList /\ selected' = NoItem /\ results' = NoResults
  /\ timerSel' = NoItem /\ busy' = FALSE
  /\ Finish(i)
  /\ UNCHANGED << rows, version, faults, generation, resultsBusy >>

\* An answer to a page that was left.
GotByNobody(i) ==
  /\ task[i].op = "gone" /\ Answered(i)
  /\ stray' = (stray \/ SetCookie(i) \in Tokens)
  /\ Finish(i)
  /\ UNCHANGED << rows, version, faults, jar, transient, window, auth, shown, generation,
                  busy, resultsBusy >>

\* The answer is lost on its way: to the handler it is a network error.
AnswerLost(i) ==
  /\ faults < MaxFaults /\ Answered(i) /\ call[i].code # 599
  /\ faults' = faults + 1
  /\ stray' = (stray \/ SetCookie(i) \in Tokens)
  /\ Reply(i, 599, Keep, NoAccount)
  /\ UNCHANGED << rows, version, jar, transient, window, page >>

------------------------------------------------------------------------------
(***************************************************************************)
(* A login in another window.                                              *)
(***************************************************************************)

\* From the sign-in screen that any window shows by then.  One login cookie serves
\* all of them.
Start(f, provider) ==
  /\ window[f] = "shut" /\ auth = "signed_out"
  /\ window' = [window EXCEPT ![f] = provider]
  /\ transient' = Sealed(f, provider)
  /\ UNCHANGED << serverVars, jar, stray, page >>

GitHubStart(f) == Start(f, "github")
GoogleStart(f) == Start(f, "google")

\* The provider sends the browser back with the state of this window's start.
ReturnFromProvider(f) ==
  /\ window[f] \in {"github", "google"}
  /\ window' = [window EXCEPT ![f] = "callback"]
  /\ Await(f, window[f], jar, NoAccount, transient)
  /\ UNCHANGED << rows, version, faults, jar, transient, stray, page >>

\* Whatever became of it, the login cookie is cleared; a failure of the network
\* leaves it.
GotCallback(f) ==
  /\ window[f] = "callback" /\ Answered(f)
  /\ window' = [window EXCEPT ![f] = "done"]
  /\ jar' = JarAfter(f)
  /\ transient' = IF call[f].code \in {302, 401} THEN NoLogin ELSE transient
  /\ call' = [call EXCEPT ![f] = Silent]
  /\ UNCHANGED << rows, version, faults, stray, page >>

\* transientMaxAgeSeconds are over.
LoginCookieLapses ==
  /\ transient # NoLogin
  /\ transient' = NoLogin
  /\ UNCHANGED << serverVars, jar, window, stray, page >>

------------------------------------------------------------------------------

UserActs(i) ==
  \/ Load(i) \/ Retry(i) \/ TimerTicks(i) \/ SelectAssessment(i) \/ RefreshCurrentResults(i)
  \/ AskMove(i) \/ AskChange(i) \/ Logout(i)

Continue(i) ==
  \/ GotMove(i) \/ GotChange(i) \/ GotSession(i) \/ GotAccounts(i) \/ GotLists(i)
  \/ GotNotes(i) \/ GotResults(i) \/ GotLogout(i) \/ GotByNobody(i)

LogIn(f) == GitHubStart(f) \/ GoogleStart(f) \/ ReturnFromProvider(f) \/ GotCallback(f)

ServerActs ==
  \/ \E c \in Callers : (Serve(c) \/ ServeUnaudited(c) \/ ServeFails(c)) /\ UNCHANGED << browser, page >>
  \/ (Progress \/ SessionsEnd) /\ UNCHANGED << browser, page >>

Next ==
  \/ \E i \in Slots : UserActs(i)
  \/ \E i \in Slots : (Continue(i) \/ AnswerLost(i)) /\ UNCHANGED rounds
  \/ (\E f \in Flows : LogIn(f)) /\ UNCHANGED rounds
  \/ LoginCookieLapses /\ UNCHANGED rounds
  \/ ServerActs /\ UNCHANGED rounds

\* fetch settles: the server answers or the connection fails, and the event loop
\* runs what waits for it.
Fairness ==
  /\ \A c \in Callers : WF_vars(Serve(c) /\ UNCHANGED << browser, page, rounds >>)
  /\ \A i \in Slots : WF_vars(Continue(i) /\ UNCHANGED rounds)

Spec == InitConsole /\ [][Next]_vars /\ Fairness

------------------------------------------------------------------------------

\* Every request replaces the session's token, so the browser must follow: as
\* long as no answer with a cookie was lost, the only live session of the login
\* that the jar's token descends from is the jar's, or the one in an answer that
\* is on its way to the browser.  Tabs, switches and rotations that overlap never
\* leave a live session behind that no cookie names (auth.ts:622-688).
JarFollowsRotation ==
  ~stray /\ jar \in Tokens =>
    \A u \in live : family[u] = family[jar] => u = jar \/ \E c \in Callers : SetCookie(c) = u

\* Refreshes overlap and their answers arrive in any order; the delivery that is
\* shown of one assessment is never replaced by an older one (App.tsx:288).
ResultsNeverGoBack ==
  [][results'.item = results.item => results'.version >= results.version]_vars

\* Whatever fails or is lost, and however handlers overlap, the page does not
\* stay at its boot screen, and what it disables while the workspace refreshes or
\* changes becomes usable again (App.tsx:351-358, 441-455).
ConsoleSettles == /\ auth = "checking" ~> auth # "checking"
                  /\ busy ~> ~busy

\* A handler that reads results for generation g, which is the newest.
ReadsNewest(g) ==
  /\ generation = g
  /\ \E i \in Slots : /\ task[i].op \notin {"none", "gone"} /\ task[i].gen = g
                      /\ call[i].route \in {"notes", "results"}

\* The newest reading of results gives the controls of the results view back,
\* whatever fails and whichever older handlers are still running, unless a newer
\* one overtakes it (App.tsx:316-319).  Nothing of the kind holds of a reading
\* that was overtaken: the flag it set or left is not its own to reset, and the
\* newer one may have reset it before or may never read results.
NewestResultsRelease ==
  \A g \in 1..MaxRounds : ReadsNewest(g) ~> (~resultsBusy \/ generation # g)
=============================================================================
