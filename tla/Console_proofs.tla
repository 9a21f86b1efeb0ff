--------------------------- MODULE Console_proofs ----------------------------
(***************************************************************************)
(* Theorems about Console, for every number of handlers, windows, accounts *)
(* and tokens: the cookie of the tab follows the rotation of the session   *)
(* (JarInv), and what is shown of an assessment is never replaced by an    *)
(* older reading of it (ResultsInv).                                       *)
(***************************************************************************)
EXTENDS Console, TLAPS, FiniteSetTheorems

------------------------------------------------------------------------------
(*****************************************************************************)
(* The session tokens. What makes JarFollowsRotation inductive is where a    *)
(* token can be: in the jar, in a request, or in one answer (Fresh). The     *)
(* lemmas of this part say what keeps it, of a step by its effect on the     *)
(* tokens alone.                                                             *)
(*****************************************************************************)

\* The token that the request of a caller carries, as long as it is not answered.
Carried(c) == IF call[c].route # "none" /\ call[c].code = 0 THEN call[c].token ELSE NoToken

\* The token that an answer on its way gives to the browser.
Given(c) == IF SetCookie(c) \in Tokens THEN SetCookie(c) ELSE NoToken

\* A login has at most one live session.
OneLive == \A u, v \in live : family[u] = family[v] => u = v

\* A token on its way is not in the jar yet, and no request carries it: its session
\* is the live one of its family, unless the whole family is over.
Fresh(c) ==
  Given(c) # NoToken =>
    /\ Given(c) # jar
    /\ \A d \in Callers : Carried(d) # Given(c) /\ (Given(d) = Given(c) => d = c)
    /\ \A u \in live : family[u] = family[Given(c)] => u = Given(c)

\* JarFollowsRotation, for an answer that was not lost.
JarOk ==
  ~stray /\ jar # NoToken =>
    \A u \in live : family[u] = family[jar] => u = jar \/ \E c \in Callers : Given(c) = u

\* The session rows, as far as tokens are concerned.
RowsOk ==
  /\ issued \in 1..MaxTokens
  /\ family = [t \in Tokens |-> family[t]]
  /\ \A t \in 1..issued : family[t] \in 1..issued
  /\ live \subseteq 1..issued
  /\ jar \in 0..issued

\* The invariant of the cookies, apart from the shape and the number of calls.
CookieInv ==
  /\ RowsOk /\ OneLive /\ JarOk
  /\ \A c \in Callers : Carried(c) \in 0..issued /\ Given(c) \in 0..issued /\ Fresh(c)

\* Nothing changes for the other callers.
Others(c) == \A d \in Callers \ {c} : Carried(d)' = Carried(d) /\ Given(d)' = Given(d)

\* A request that is sent carries what is in the jar, or nothing.
LEMMA SendKeeps ==
  ASSUME CookieInv, NEW c \in Callers, Others(c),
         UNCHANGED << issued, family, live, jar, stray >>,
         Given(c) = NoToken, Given(c)' = NoToken, Carried(c)' \in {jar, NoToken}
  PROVE  CookieInv'
<1> USE DEF NoToken
<1>1. \A d \in Callers : Given(d)' = Given(d)
  BY DEF Others
<1>2. RowsOk' /\ OneLive'
  BY DEF CookieInv, RowsOk, OneLive, Tokens
<1>3. JarOk'
  BY <1>1 DEF CookieInv, JarOk
<1>4. \A d \in Callers : Carried(d)' \in 0..issued' /\ Given(d)' \in 0..issued'
  BY <1>1 DEF CookieInv, RowsOk, Others
<1>5. ASSUME NEW d \in Callers PROVE Fresh(d)'
  <2>1. Fresh(d)
    BY DEF CookieInv
  <2>2. \A b \in Callers : Carried(b)' \in {Carried(b), jar, NoToken}
    BY DEF Others
  <2>3. QED BY <1>1, <2>1, <2>2 DEF Fresh
<1>6. QED BY <1>2, <1>3, <1>4, <1>5 DEF CookieInv

\* An answer is stored, and what follows carries what the jar holds then.
LEMMA StoreKeeps ==
  ASSUME CookieInv, NEW c \in Callers, Others(c),
         UNCHANGED << issued, family, live, stray >>,
         jar' \in {jar, NoToken, Given(c)}, Given(c) # NoToken => jar' = Given(c),
         Given(c)' = NoToken, Carried(c)' \in {jar', NoToken}
  PROVE  CookieInv'
<1> USE DEF NoToken
<1>1. \A d \in Callers : Given(d)' \in {Given(d), NoToken} /\ (d # c => Given(d)' = Given(d))
  BY DEF Others
<1>2. RowsOk' /\ OneLive'
  BY DEF CookieInv, RowsOk, OneLive, Tokens
<1>3. JarOk'
  <2>1. CASE Given(c) # NoToken
    BY <2>1 DEF CookieInv, Fresh, JarOk
  <2>2. CASE Given(c) = NoToken
    <3>1. \A d \in Callers : Given(d)' = Given(d)
      BY <1>1, <2>2
    <3>2. QED BY <2>2, <3>1 DEF CookieInv, JarOk
  <2>3. QED BY <2>1, <2>2
<1>4. \A d \in Callers : Carried(d)' \in 0..issued' /\ Given(d)' \in 0..issued'
  BY <1>1, <1>2 DEF CookieInv, RowsOk, Others
<1>5. ASSUME NEW d \in Callers PROVE Fresh(d)'
  <2>1. Fresh(d) /\ Fresh(c)
    BY DEF CookieInv
  <2>2. \A b \in Callers : Carried(b)' \in {Carried(b), jar', NoToken}
    BY DEF Others
  <2> SUFFICES ASSUME Given(d)' # NoToken PROVE Fresh(d)'
    BY DEF Fresh
  <2>3. d # c /\ Given(d)' = Given(d)
    BY <1>1
  <2>4. Given(d) # jar'
    BY <2>1, <2>3 DEF Fresh
  <2>5. QED BY <1>1, <2>1, <2>2, <2>3, <2>4 DEF Fresh
<1>6. QED BY <1>2, <1>3, <1>4, <1>5 DEF CookieInv

\* An answer goes to nobody: if it held a token, that is on record.
LEMMA DropKeeps ==
  ASSUME CookieInv, NEW c \in Callers, Others(c),
         UNCHANGED << issued, family, live, jar >>,
         stray' = (stray \/ Given(c) # NoToken),
         Given(c)' = NoToken, Carried(c)' = NoToken
  PROVE  CookieInv'
<1> USE DEF NoToken
<1>1. \A d \in Callers : Given(d)' \in {Given(d), NoToken} /\ (d # c => Given(d)' = Given(d))
  BY DEF Others
<1>2. RowsOk' /\ OneLive'
  BY DEF CookieInv, RowsOk, OneLive, Tokens
<1>3. JarOk'
  <2>1. SUFFICES ASSUME ~stray' PROVE JarOk'
    BY DEF JarOk
  <2>2. \A d \in Callers : Given(d)' = Given(d)
    BY <1>1, <2>1
  <2>3. QED BY <2>1, <2>2 DEF CookieInv, JarOk
<1>4. \A d \in Callers : Carried(d)' \in 0..issued' /\ Given(d)' \in 0..issued'
  BY <1>1, <1>2 DEF CookieInv, RowsOk, Others
<1>5. ASSUME NEW d \in Callers PROVE Fresh(d)'
  <2>1. Fresh(d)
    BY DEF CookieInv
  <2>2. \A b \in Callers : Carried(b)' \in {Carried(b), NoToken}
    BY DEF Others
  <2>3. QED BY <1>1, <2>1, <2>2 DEF Fresh
<1>6. QED BY <1>2, <1>3, <1>4, <1>5 DEF CookieInv

\* A session may end at any time, with or without an answer.
LEMMA EndKeeps ==
  ASSUME CookieInv, UNCHANGED << issued, family, jar, stray >>, live' \subseteq live,
         \A d \in Callers : Given(d)' = Given(d) /\ Carried(d)' \in {Carried(d), NoToken}
  PROVE  CookieInv'
<1> USE DEF NoToken
<1>1. RowsOk' /\ OneLive' /\ JarOk'
  BY DEF CookieInv, RowsOk, OneLive, JarOk, Tokens
<1>2. \A d \in Callers : Carried(d)' \in 0..issued' /\ Given(d)' \in 0..issued'
  BY <1>1 DEF CookieInv, RowsOk
<1>3. ASSUME NEW d \in Callers PROVE Fresh(d)'
  <2>1. Fresh(d)
    BY DEF CookieInv
  <2>2. QED BY <2>1 DEF Fresh
<1>4. QED BY <1>1, <1>2, <1>3 DEF CookieInv

\* A live session gets a new token, which is on its way in the answer: whoever else
\* has the old one comes too late.
LEMMA RotateKeeps ==
  ASSUME CookieInv, NEW c \in Callers, Others(c), UNCHANGED << jar, stray >>,
         Carried(c) \in live, Given(c) = NoToken,
         issued' = issued + 1, issued' <= MaxTokens,
         family' = [family EXCEPT ![issued + 1] = family[Carried(c)]],
         live' = (live \ {Carried(c)}) \cup {issued + 1},
         Given(c)' = issued + 1, Carried(c)' = NoToken
  PROVE  CookieInv'
<1> USE DEF NoToken
<1> DEFINE t == Carried(c)
           n == issued + 1
<1>0. /\ issued \in Nat /\ issued >= 1 /\ n \in Tokens /\ t \in 1..issued
      /\ \A x \in 1..issued : x # n
  BY BoundAssumption DEF CookieInv, RowsOk, Tokens
<1>1. family'[n] = family[t] /\ \A x \in 1..issued : family'[x] = family[x]
  BY <1>0, BoundAssumption DEF CookieInv, RowsOk, Tokens
<1>2. RowsOk'
  <2>1. \A x \in 1..issued' : family'[x] \in 1..issued'
    BY <1>0, <1>1 DEF CookieInv, RowsOk
  <2>2. family' = [x \in Tokens |-> family'[x]]
    BY DEF CookieInv, RowsOk
  <2>3. issued' \in 1..MaxTokens /\ live' \subseteq 1..issued' /\ jar' \in 0..issued'
    BY <1>0, BoundAssumption DEF CookieInv, RowsOk
  <2>4. QED BY <2>1, <2>2, <2>3 DEF RowsOk, Tokens
<1>3. \A u \in live' : u = n \/ (u \in live /\ u # t /\ u \in 1..issued)
  BY DEF CookieInv, RowsOk
<1>4. \A u \in live' : u # n => family'[u] # family[t]
  BY <1>0, <1>1, <1>3 DEF CookieInv, OneLive
<1>5. OneLive'
  BY <1>1, <1>3, <1>4 DEF CookieInv, OneLive
<1>6. \A d \in Callers : d # c => Given(d)' = Given(d) /\ Given(d) \in 0..issued
  BY DEF Others, CookieInv
<1>7. JarOk'
  <2>1. SUFFICES ASSUME ~stray, jar # NoToken, NEW u \in live', family'[u] = family'[jar]
                 PROVE  u = jar \/ \E d \in Callers : Given(d)' = u
    BY DEF JarOk
  <2>2. CASE u = n
    BY <2>2
  <2>3. CASE u # n
    <3>1. u \in live /\ family[u] = family[jar]
      BY <1>0, <1>1, <1>3, <2>1, <2>3 DEF CookieInv, RowsOk
    <3>2. u = jar \/ \E d \in Callers : Given(d) = u
      BY <2>1, <3>1 DEF CookieInv, JarOk
    <3>3. QED BY <1>3, <1>6, <2>1, <2>3, <3>2
  <2>4. QED BY <2>2, <2>3
<1>8. \A d \in Callers : Carried(d)' \in 0..issued' /\ Given(d)' \in 0..issued'
  BY <1>0, <1>6 DEF CookieInv, Others
<1>9. ASSUME NEW d \in Callers PROVE Fresh(d)'
  <2>0. \A b \in Callers : Carried(b)' \in {Carried(b), NoToken} /\ Carried(b) \in 0..issued
    BY DEF Others, CookieInv
  <2>1. CASE d = c
    <3>1. n # jar /\ \A b \in Callers : Carried(b)' # n /\ (Given(b)' = n => b = c)
      BY <1>0, <1>6, <2>0 DEF CookieInv, RowsOk
    <3>2. QED BY <1>0, <1>1, <1>4, <2>1, <3>1 DEF Fresh
  <2>2. CASE d # c
    <3> SUFFICES ASSUME Given(d)' # NoToken PROVE Fresh(d)'
      BY DEF Fresh
    <3>1. Given(d)' = Given(d) /\ Given(d) \in 1..issued /\ Fresh(d)
      BY <1>6, <2>2 DEF CookieInv
    <3>2. Given(d) # t /\ Given(d) # jar
      BY <3>1 DEF Fresh
    <3>3. family[t] # family[Given(d)]
      BY <3>1, <3>2 DEF Fresh
    <3>4. \A u \in live' : family'[u] = family'[Given(d)] => u = Given(d)
      BY <1>0, <1>1, <1>3, <3>1, <3>3 DEF Fresh
    <3>5. \A b \in Callers : Given(b)' = Given(d) => b = d
      BY <1>0, <1>6, <3>1 DEF Fresh
    <3>6. QED BY <2>0, <3>1, <3>2, <3>4, <3>5 DEF Fresh
  <2>3. QED BY <2>1, <2>2
<1>10. QED BY <1>2, <1>5, <1>7, <1>8, <1>9 DEF CookieInv

\* A login opens a family of its own.
LEMMA OpenKeeps ==
  ASSUME CookieInv, NEW c \in Callers, Others(c), UNCHANGED << jar, stray >>,
         Given(c) = NoToken,
         issued' = issued + 1, issued' <= MaxTokens,
         family' = [family EXCEPT ![issued + 1] = issued + 1],
         live' = live \cup {issued + 1},
         Given(c)' = issued + 1, Carried(c)' = NoToken
  PROVE  CookieInv'
<1> USE DEF NoToken
<1> DEFINE n == issued + 1
<1>0. /\ issued \in Nat /\ issued >= 1 /\ n \in Tokens
      /\ \A x \in 1..issued : x # n /\ family[x] # n
  <2>1. issued \in 1..MaxTokens /\ \A x \in 1..issued : family[x] \in 1..issued
    BY DEF CookieInv, RowsOk
  <2>2. QED BY <2>1, BoundAssumption DEF Tokens
<1>1. family'[n] = n /\ \A x \in 1..issued : family'[x] = family[x]
  BY <1>0, BoundAssumption DEF CookieInv, RowsOk, Tokens
<1>2. RowsOk'
  <2>1. \A x \in 1..issued' : family'[x] \in 1..issued'
    BY <1>0, <1>1 DEF CookieInv, RowsOk
  <2>2. family' = [x \in Tokens |-> family'[x]]
    BY DEF CookieInv, RowsOk
  <2>3. issued' \in 1..MaxTokens /\ live' \subseteq 1..issued' /\ jar' \in 0..issued'
    BY <1>0, BoundAssumption DEF CookieInv, RowsOk
  <2>4. QED BY <2>1, <2>2, <2>3 DEF RowsOk, Tokens
<1>3. \A u \in live' : u = n \/ (u \in live /\ u \in 1..issued)
  BY DEF CookieInv, RowsOk
<1>4. \A x \in 1..issued : family'[x] # family'[n]
  BY <1>0, <1>1
<1>5. OneLive'
  BY <1>1, <1>3, <1>4 DEF CookieInv, OneLive
<1>6. \A d \in Callers : d # c => Given(d)' = Given(d) /\ Given(d) \in 0..issued
  BY DEF Others, CookieInv
<1>7. JarOk'
  <2>1. SUFFICES ASSUME ~stray, jar # NoToken, NEW u \in live', family'[u] = family'[jar]
                 PROVE  u = jar \/ \E d \in Callers : Given(d)' = u
    BY DEF JarOk
  <2>2. jar \in 1..issued
    BY <2>1 DEF CookieInv, RowsOk
  <2>3. u \in live /\ family[u] = family[jar]
    BY <1>1, <1>3, <1>4, <2>1, <2>2
  <2>4. u = jar \/ \E d \in Callers : Given(d) = u
    BY <2>1, <2>3 DEF CookieInv, JarOk
  <2>5. u # NoToken
    BY <2>3 DEF CookieInv, RowsOk
  <2>6. QED BY <1>6, <2>4, <2>5
<1>8. \A d \in Callers : Carried(d)' \in 0..issued' /\ Given(d)' \in 0..issued'
  BY <1>0, <1>6 DEF CookieInv, Others
<1>9. ASSUME NEW d \in Callers PROVE Fresh(d)'
  <2>0. \A b \in Callers : Carried(b)' \in {Carried(b), NoToken} /\ Carried(b) \in 0..issued
    BY DEF Others, CookieInv
  <2>1. CASE d = c
    <3>1. n # jar /\ \A b \in Callers : Carried(b)' # n /\ (Given(b)' = n => b = c)
      BY <1>0, <1>6, <2>0 DEF CookieInv, RowsOk
    <3>2. QED BY <1>0, <1>3, <1>4, <2>1, <3>1 DEF Fresh
  <2>2. CASE d # c
    <3> SUFFICES ASSUME Given(d)' # NoToken PROVE Fresh(d)'
      BY DEF Fresh
    <3>1. Given(d)' = Given(d) /\ Given(d) \in 1..issued /\ Fresh(d)
      BY <1>6, <2>2 DEF CookieInv
    <3>4. \A u \in live' : family'[u] = family'[Given(d)] => u = Given(d)
      BY <1>0, <1>1, <1>3, <1>4, <3>1 DEF Fresh
    <3>5. \A b \in Callers : Given(b)' = Given(d) => b = d
      BY <1>0, <1>6, <3>1 DEF Fresh
    <3>6. QED BY <2>0, <3>1, <3>4, <3>5 DEF Fresh
  <2>3. QED BY <2>1, <2>2
<1>10. QED BY <1>2, <1>5, <1>7, <1>8, <1>9 DEF CookieInv

------------------------------------------------------------------------------
(*****************************************************************************)
(* The same of a step that sends a request, answers one or ends it.          *)
(*****************************************************************************)

\* What handlers and logins ask, and the answers that may set the cookie to a token.
SlotRoutes  == {"session", "switch", "accept", "logout", "accounts"} \cup ScopedRoutes
LoginRoutes == {"github", "google"}
CookieRoutes == {"session", "switch", "accept"} \cup LoginRoutes

\* A handler asks a route of the tab, a login its provider's callback; only answers of
\* the cookie routes have a token.
CallsOk ==
  /\ call = [c \in Callers |-> call[c]] /\ window = [f \in Flows |-> window[f]]
  /\ \A i \in Slots : call[i].route \in SlotRoutes \cup {"none"}
  /\ \A f \in Flows : call[f].route # "none" => call[f].route \in LoginRoutes /\ window[f] = "callback"
  /\ \A c \in Callers : /\ SetCookie(c) \in Tokens \cup {NoToken, Keep}
                        /\ Given(c) # NoToken => call[c].route \in CookieRoutes

\* No cookie and a cookie that is cleared are not tokens.
LEMMA Numbers == Keep \notin Tokens /\ NoToken \notin Tokens
BY BoundAssumption DEF Keep, Tokens, NoToken

\* What a request that is sent, an answer and the end of a call are to a cookie.
LEMMA SentCall ==
  ASSUME CallsOk, NEW c \in Callers, NEW route, route # "none", NEW token, NEW a, NEW item,
         call' = [call EXCEPT ![c] = Request(route, token, a, item)]
  PROVE  /\ Others(c) /\ Carried(c)' = token /\ Given(c)' = NoToken /\ SetCookie(c)' = Keep
         /\ call'[c] = Request(route, token, a, item)
         /\ call' = [d \in Callers |-> call'[d]]
         /\ \A d \in Callers \ {c} : call'[d] = call[d] /\ SetCookie(d)' = SetCookie(d)
<1>1. /\ call' = [d \in Callers |-> call'[d]] /\ call'[c] = Request(route, token, a, item)
      /\ \A d \in Callers \ {c} : call'[d] = call[d]
  BY DEF CallsOk
<1>2. call'[c].route = route /\ call'[c].code = 0 /\ call'[c].token = token
  BY <1>1 DEF Request
<1>3. SetCookie(c)' = Keep
  BY <1>2 DEF SetCookie, Answered
<1>4. Given(c)' = NoToken
  BY <1>3, Numbers DEF Given, Tokens, Keep
<1>5. Carried(c)' = token
  BY <1>2 DEF Carried
<1>6. \A d \in Callers \ {c} : SetCookie(d)' = SetCookie(d)
  BY <1>1 DEF SetCookie, Answered, Keep
<1>7. Others(c)
  BY <1>1, <1>6 DEF Others, Carried, Given, NoToken, Tokens
<1>8. QED BY <1>1, <1>3, <1>4, <1>5, <1>6, <1>7

\* Nothing on its way, any more.
LEMMA SilentCall ==
  ASSUME CallsOk, NEW c \in Callers, call' = [call EXCEPT ![c] = Silent]
  PROVE  /\ Others(c) /\ Carried(c)' = NoToken /\ Given(c)' = NoToken /\ SetCookie(c)' = Keep
         /\ call'[c] = Silent
         /\ call' = [d \in Callers |-> call'[d]]
         /\ \A d \in Callers \ {c} : call'[d] = call[d] /\ SetCookie(d)' = SetCookie(d)
<1>1. /\ call' = [d \in Callers |-> call'[d]] /\ call'[c] = Silent
      /\ \A d \in Callers \ {c} : call'[d] = call[d]
  BY DEF CallsOk
<1>2. call'[c].route = "none"
  BY <1>1 DEF Silent
<1>3. SetCookie(c)' = Keep
  BY <1>2 DEF SetCookie, Answered
<1>4. Given(c)' = NoToken
  BY <1>3, Numbers DEF Given, Tokens, Keep
<1>5. Carried(c)' = NoToken
  BY <1>2 DEF Carried
<1>6. \A d \in Callers \ {c} : SetCookie(d)' = SetCookie(d)
  BY <1>1 DEF SetCookie, Answered, Keep
<1>7. Others(c)
  BY <1>1, <1>6 DEF Others, Carried, Given, NoToken, Tokens
<1>8. QED BY <1>1, <1>3, <1>4, <1>5, <1>6, <1>7

\* An answer is on its way.
LEMMA RepliedCall ==
  ASSUME CallsOk, NEW c \in Callers, call[c].route # "none",
         NEW code, code # 0, NEW set, NEW a, Reply(c, code, set, a)
  PROVE  /\ Others(c) /\ Carried(c)' = NoToken /\ SetCookie(c)' = set
         /\ Given(c)' = (IF set \in Tokens THEN set ELSE NoToken)
         /\ call'[c].route = call[c].route /\ call'[c].code = code /\ call'[c].item = call[c].item
         /\ call'[c].version = (IF call[c].route = "results" THEN version ELSE 0)
         /\ call' = [d \in Callers |-> call'[d]]
         /\ \A d \in Callers \ {c} : call'[d] = call[d] /\ SetCookie(d)' = SetCookie(d)
<1>1. /\ call' = [d \in Callers |-> call'[d]]
      /\ call'[c] = [route |-> call[c].route, account |-> call[c].account, item |-> call[c].item,
                     code |-> code, set |-> set, active |-> a,
                     version |-> IF call[c].route = "results" THEN version ELSE 0]
      /\ \A d \in Callers \ {c} : call'[d] = call[d]
  BY DEF CallsOk, Reply
<1>2. /\ call'[c].route = call[c].route /\ call'[c].code = code /\ call'[c].set = set
      /\ call'[c].item = call[c].item
      /\ call'[c].version = (IF call[c].route = "results" THEN version ELSE 0)
  BY <1>1
<1>3. SetCookie(c)' = set
  BY <1>2 DEF SetCookie, Answered
<1>4. Given(c)' = (IF set \in Tokens THEN set ELSE NoToken)
  BY <1>3 DEF Given, Tokens, NoToken
<1>5. Carried(c)' = NoToken
  BY <1>2 DEF Carried
<1>6. \A d \in Callers \ {c} : SetCookie(d)' = SetCookie(d)
  BY <1>1 DEF SetCookie, Answered, Keep
<1>7. Others(c)
  BY <1>1, <1>6 DEF Others, Carried, Given, NoToken, Tokens
<1>8. QED BY <1>1, <1>2, <1>3, <1>4, <1>5, <1>6, <1>7

\* A handler sends a request, with nothing to store.
LEMMA SendStep ==
  ASSUME CallsOk, CookieInv, NEW i \in Slots, Given(i) = NoToken,
         UNCHANGED << issued, family, live, jar, stray, window >>,
         NEW route \in SlotRoutes, NEW a, NEW item, Await(i, route, jar, a, item)
  PROVE  CallsOk' /\ CookieInv'
<1>0. i \in Callers /\ route # "none"
  BY CallersAssumption DEF SlotRoutes, ScopedRoutes
<1>1. /\ Others(i) /\ Carried(i)' = jar /\ Given(i)' = NoToken /\ SetCookie(i)' = Keep
      /\ call'[i] = Request(route, jar, a, item)
      /\ call' = [d \in Callers |-> call'[d]]
      /\ \A d \in Callers \ {i} : call'[d] = call[d] /\ SetCookie(d)' = SetCookie(d)
  BY <1>0, SentCall DEF Await
<1>2. CookieInv'
  BY <1>0, <1>1, SendKeeps
<1>3. call'[i].route = route
  BY <1>1 DEF Request
<1>4. CallsOk'
  BY <1>0, <1>1, <1>3, CallersAssumption DEF CallsOk, Others, Tokens, Keep, NoToken
<1>5. QED BY <1>2, <1>4

\* A slot that is free has nothing to store.
LEMMA FreeHasNone ==
  ASSUME NEW i, Free(i)
  PROVE  Given(i) = NoToken
<1>1. SetCookie(i) = Keep
  BY DEF Free, SetCookie, Answered, Silent
<1>2. QED BY <1>1, Numbers DEF Given

\* A handler takes an answer that sets no cookie and is done.
LEMMA DoneStep ==
  ASSUME CallsOk, CookieInv, NEW i \in Slots, Given(i) = NoToken, Finish(i),
         UNCHANGED << issued, family, live, jar, stray, window >>
  PROVE  CallsOk' /\ CookieInv'
<1>0. i \in Callers
  BY CallersAssumption
<1>1. /\ Others(i) /\ Carried(i)' = NoToken /\ Given(i)' = NoToken /\ SetCookie(i)' = Keep
      /\ call'[i] = Silent
      /\ call' = [d \in Callers |-> call'[d]]
      /\ \A d \in Callers \ {i} : call'[d] = call[d] /\ SetCookie(d)' = SetCookie(d)
  BY <1>0, SilentCall DEF Finish
<1>2. CookieInv'
  BY <1>0, <1>1, SendKeeps
<1>3. call'[i].route = "none"
  BY <1>1 DEF Silent
<1>4. CallsOk'
  BY <1>0, <1>1, <1>3, CallersAssumption DEF CallsOk, Others, Tokens, Keep, NoToken
<1>5. QED BY <1>2, <1>4

\* The browser stores the cookie of an answer, and the handler goes on or is done.
LEMMA StoredJar ==
  ASSUME CallsOk, NEW c \in Callers, jar' = JarAfter(c)
  PROVE  jar' \in {jar, NoToken, Given(c)} /\ (Given(c) # NoToken => jar' = Given(c))
<1>1. SetCookie(c) \in Tokens \cup {NoToken, Keep}
  BY DEF CallsOk
<1>2. QED BY <1>1, Numbers DEF JarAfter, Given

\* What is stored is sent with the next request.
LEMMA StoreSend ==
  ASSUME CallsOk, CookieInv, NEW i \in Slots, jar' = JarAfter(i),
         UNCHANGED << issued, family, live, stray, window >>,
         NEW route \in SlotRoutes, NEW a, NEW item, Await(i, route, jar', a, item)
  PROVE  CallsOk' /\ CookieInv'
<1>0. i \in Callers /\ route # "none"
  BY CallersAssumption DEF SlotRoutes, ScopedRoutes
<1>1. /\ Others(i) /\ Carried(i)' = jar' /\ Given(i)' = NoToken /\ SetCookie(i)' = Keep
      /\ call'[i] = Request(route, jar', a, item)
      /\ call' = [d \in Callers |-> call'[d]]
      /\ \A d \in Callers \ {i} : call'[d] = call[d] /\ SetCookie(d)' = SetCookie(d)
  BY <1>0, SentCall DEF Await
<1>2. CookieInv'
  BY <1>0, <1>1, StoreKeeps, StoredJar
<1>3. call'[i].route = route
  BY <1>1 DEF Request
<1>4. CallsOk'
  BY <1>0, <1>1, <1>3, CallersAssumption DEF CallsOk, Others, Tokens, Keep, NoToken
<1>5. QED BY <1>2, <1>4

\* With what is stored, the handler or the login ends.
LEMMA StoreDone ==
  ASSUME CallsOk, CookieInv, NEW c \in Callers, jar' = JarAfter(c),
         UNCHANGED << issued, family, live, stray >>,
         call' = [call EXCEPT ![c] = Silent],
         window' = [f \in Flows |-> window'[f]], \A f \in Flows \ {c} : window'[f] = window[f]
  PROVE  CallsOk' /\ CookieInv'
<1>1. /\ Others(c) /\ Carried(c)' = NoToken /\ Given(c)' = NoToken /\ SetCookie(c)' = Keep
      /\ call'[c] = Silent
      /\ call' = [d \in Callers |-> call'[d]]
      /\ \A d \in Callers \ {c} : call'[d] = call[d] /\ SetCookie(d)' = SetCookie(d)
  BY SilentCall
<1>2. CookieInv'
  BY <1>1, StoreKeeps, StoredJar
<1>3. call'[c].route = "none"
  BY <1>1 DEF Silent
<1>4. CallsOk'
  <2>1. \A i \in Slots : call'[i].route \in SlotRoutes \cup {"none"}
    BY <1>1, <1>3, CallersAssumption DEF CallsOk
  <2>2. \A f \in Flows : call'[f].route # "none" => call'[f].route \in LoginRoutes /\ window'[f] = "callback"
    BY <1>1, <1>3, CallersAssumption DEF CallsOk
  <2>3. \A d \in Callers : /\ SetCookie(d)' \in Tokens \cup {NoToken, Keep}
                           /\ Given(d)' # NoToken => call'[d].route \in CookieRoutes
    BY <1>1 DEF CallsOk, Others
  <2>4. QED BY <1>1, <2>1, <2>2, <2>3 DEF CallsOk, Tokens, Keep, NoToken
<1>5. QED BY <1>2, <1>4

\* The server answers without a new token; sessions may end with it.
LEMMA AnswerStep ==
  ASSUME CallsOk, CookieInv, NEW c \in Callers, call[c].route # "none", call[c].code = 0,
         NEW code, code # 0, NEW set, set = Keep \/ set = NoToken, NEW a, Reply(c, code, set, a),
         UNCHANGED << issued, family, jar, stray, window >>, live' \subseteq live
  PROVE  CallsOk' /\ CookieInv'
<1>1. /\ Others(c) /\ Carried(c)' = NoToken /\ SetCookie(c)' = set
      /\ Given(c)' = (IF set \in Tokens THEN set ELSE NoToken)
      /\ call'[c].route = call[c].route /\ call'[c].code = code /\ call'[c].item = call[c].item
      /\ call'[c].version = (IF call[c].route = "results" THEN version ELSE 0)
      /\ call' = [d \in Callers |-> call'[d]]
      /\ \A d \in Callers \ {c} : call'[d] = call[d] /\ SetCookie(d)' = SetCookie(d)
  BY RepliedCall, ZenonT(60)
<1>2. Given(c) = NoToken /\ Given(c)' = NoToken
  <2>1. SetCookie(c) = Keep
    BY DEF SetCookie, Answered
  <2>2. QED BY <1>1, <2>1, Numbers DEF Given
<1>3. \A d \in Callers : Given(d)' = Given(d) /\ Carried(d)' \in {Carried(d), NoToken}
  BY <1>1, <1>2 DEF Others
<1>4. CookieInv'
  BY <1>3, EndKeeps
<1>5. CallsOk'
  BY <1>1, <1>2, CallersAssumption DEF CallsOk, Others, Tokens, Keep, NoToken
<1>6. QED BY <1>4, <1>5

\* The server answers with the next token.
LEMMA IssueStep ==
  ASSUME CallsOk, CookieInv, NEW c \in Callers, call[c].route \in CookieRoutes, call[c].code = 0,
         NEW code, code # 0, NEW a, Reply(c, code, Next1, a),
         UNCHANGED << jar, stray, window >>,
         issued' = Next1, Next1 <= MaxTokens,
         \/ /\ family' = [family EXCEPT ![Next1] = family[call[c].token]]
            /\ call[c].token \in live
            /\ live' = (live \ {call[c].token}) \cup {Next1}
         \/ /\ family' = [family EXCEPT ![Next1] = Next1]
            /\ live' = live \cup {Next1}
  PROVE  CallsOk' /\ CookieInv'
<1>0. call[c].route # "none" /\ Next1 \in Tokens
  BY BoundAssumption DEF CookieRoutes, LoginRoutes, CookieInv, RowsOk, Next1, Tokens
<1>1. /\ Others(c) /\ Carried(c)' = NoToken /\ SetCookie(c)' = Next1
      /\ Given(c)' = Next1
      /\ call'[c].route = call[c].route
      /\ call' = [d \in Callers |-> call'[d]]
      /\ \A d \in Callers \ {c} : call'[d] = call[d] /\ SetCookie(d)' = SetCookie(d)
  BY <1>0, RepliedCall
<1>2. Given(c) = NoToken /\ Carried(c) = call[c].token
  <2>1. SetCookie(c) = Keep
    BY DEF SetCookie, Answered
  <2>2. QED BY <1>0, <2>1, Numbers DEF Given, Carried
<1>3. CookieInv'
  <2>1. CASE /\ family' = [family EXCEPT ![Next1] = family[call[c].token]]
             /\ call[c].token \in live
             /\ live' = (live \ {call[c].token}) \cup {Next1}
    BY <1>1, <1>2, <2>1, RotateKeeps DEF Next1
  <2>2. CASE /\ family' = [family EXCEPT ![Next1] = Next1]
             /\ live' = live \cup {Next1}
    BY <1>1, <1>2, <2>2, OpenKeeps DEF Next1
  <2>3. QED BY <2>1, <2>2
<1>4. CallsOk'
  BY <1>0, <1>1, CallersAssumption DEF CallsOk, Others, Tokens, Keep, NoToken
<1>5. QED BY <1>3, <1>4

------------------------------------------------------------------------------
(*****************************************************************************)
(* How many tokens are issued: every handler and every login that was        *)
(* started brings a bounded number. This is what makes the bound MaxTokens   *)
(* no restriction: no request ever finds the tokens used up.                 *)
(*****************************************************************************)

\* The requests of the tab that are answered with a token.
MayIssue == {"session", "switch", "accept"}

\* What a handler may still have issued: a move the token of its own call and
\* that of the session that it asks for next, a session one.
Due(i)      == call[i].route \in MayIssue /\ ~(call[i].route = "session" /\ Answered(i))
DueTwice(i) == call[i].route \in {"switch", "accept"} /\ call[i].code = 0
DueLogin(f) == \/ window[f] \in {"shut", "github", "google"}
               \/ window[f] = "callback" /\ call[f].code = 0

\* How many tokens may yet be issued, by who they are for.
Dues      == Cardinality({i \in Slots : Due(i)})
DuesTwice == Cardinality({i \in Slots : DueTwice(i)})
DueLogins == Cardinality({f \in Flows : DueLogin(f)})

\* The tokens issued and those due are at most one, two for each handler started and
\* one for each window.
CountInv ==
  /\ issued \in Nat /\ rounds \in 0..MaxRounds
  /\ issued + Dues + DuesTwice + DueLogins <= 1 + 2 * rounds + Cardinality(Flows)

\* A subset has fewer members, and one fewer at least if it is not the whole set.
LEMMA Fewer ==
  ASSUME NEW T, NEW S, IsFiniteSet(S), T \subseteq S
  PROVE  /\ Cardinality(T) \in Nat /\ Cardinality(S) \in Nat /\ Cardinality(T) <= Cardinality(S)
         /\ \A c \in S : c \notin T => Cardinality(T) + 1 <= Cardinality(S)
<1>1. IsFiniteSet(T) /\ Cardinality(T) <= Cardinality(S) /\ (Cardinality(S) = Cardinality(T) => S = T)
  BY FS_Subset
<1>2. Cardinality(T) \in Nat /\ Cardinality(S) \in Nat
  BY <1>1, FS_CardinalityType
<1>3. ASSUME NEW c \in S, c \notin T PROVE Cardinality(T) # Cardinality(S)
  BY <1>1, <1>3
<1>4. \A c \in S : c \notin T => Cardinality(T) # Cardinality(S)
  BY <1>3
<1>5. QED BY <1>1, <1>2, <1>4

\* One member more makes the number at most one greater.
LEMMA OneMore ==
  ASSUME NEW T, NEW S, NEW c, IsFiniteSet(S), T \subseteq S \cup {c}
  PROVE  /\ Cardinality(T) \in Nat /\ Cardinality(S) \in Nat /\ Cardinality(T) <= Cardinality(S) + 1
<1>1. IsFiniteSet(S \cup {c}) /\ Cardinality(S \cup {c}) <= Cardinality(S) + 1 /\ Cardinality(S) \in Nat
  BY FS_AddElement, FS_CardinalityType
<1>2. /\ Cardinality(T) \in Nat /\ Cardinality(S \cup {c}) \in Nat
      /\ Cardinality(T) <= Cardinality(S \cup {c})
  BY <1>1, Fewer
<1>3. QED BY <1>1, <1>2

\* Who they are for.
Handlers == {i \in Slots : Due(i)}
Movers   == {i \in Slots : DueTwice(i)}
Logins   == {f \in Flows : DueLogin(f)}

\* There are finitely many handlers and windows.
LEMMA Finite == IsFiniteSet(Handlers) /\ IsFiniteSet(Movers) /\ IsFiniteSet(Logins)
BY FiniteAssumption, FS_Subset DEF Handlers, Movers, Logins

\* The numbers that bound the tokens are numbers.
LEMMA Sizes == Cardinality(Flows) \in Nat /\ MaxRounds \in Nat
BY RoundsAssumption, FiniteAssumption, FS_CardinalityType

\* As long as nobody new is due a token, the count holds.
LEMMA CountKeeps ==
  ASSUME CountInv, UNCHANGED << issued, rounds >>,
         Handlers' \subseteq Handlers, Movers' \subseteq Movers, Logins' \subseteq Logins
  PROVE  CountInv'
<1>1. /\ Dues' <= Dues /\ DuesTwice' <= DuesTwice /\ DueLogins' <= DueLogins
      /\ Dues \in Nat /\ DuesTwice \in Nat /\ DueLogins \in Nat
      /\ Dues' \in Nat /\ DuesTwice' \in Nat /\ DueLogins' \in Nat
  BY Finite, Fewer DEF Handlers, Movers, Logins, Dues, DuesTwice, DueLogins
<1>2. QED BY <1>1, Sizes DEF CountInv

\* A token that is issued was due.
LEMMA CountIssues ==
  ASSUME CountInv, issued' = issued + 1, rounds' = rounds,
         Handlers' \subseteq Handlers, Movers' \subseteq Movers, Logins' \subseteq Logins,
         Handlers' # Handlers \/ Movers' # Movers \/ Logins' # Logins
  PROVE  CountInv' /\ issued' <= MaxTokens
<1> DEFINE Less(x, y) == x + 1 <= y
<1>1. /\ Dues' <= Dues /\ DuesTwice' <= DuesTwice /\ DueLogins' <= DueLogins
      /\ Dues \in Nat /\ DuesTwice \in Nat /\ DueLogins \in Nat
      /\ Dues' \in Nat /\ DuesTwice' \in Nat /\ DueLogins' \in Nat
  BY Finite, Fewer DEF Handlers, Movers, Logins, Dues, DuesTwice, DueLogins
<1>2. ASSUME NEW c \in Handlers, c \notin Handlers' PROVE Less(Dues', Dues)
  BY <1>2, Finite, Fewer DEF Handlers, Dues
<1>3. ASSUME NEW c \in Movers, c \notin Movers' PROVE Less(DuesTwice', DuesTwice)
  BY <1>3, Finite, Fewer DEF Movers, DuesTwice
<1>4. ASSUME NEW c \in Logins, c \notin Logins' PROVE Less(DueLogins', DueLogins)
  BY <1>4, Finite, Fewer DEF Logins, DueLogins
<1> HIDE DEF Less
<1>5. Less(Dues', Dues) \/ Less(DuesTwice', DuesTwice) \/ Less(DueLogins', DueLogins)
  BY <1>2, <1>3, <1>4
<1> USE DEF Less
<1>6. \A a, b, c, x, y, z, n, r, s \in Nat :
        /\ x <= a /\ y <= b /\ z <= c /\ (x + 1 <= a \/ y + 1 <= b \/ z + 1 <= c)
        /\ n + a + b + c <= 1 + 2 * r + s
        => n + 1 + x + y + z <= 1 + 2 * r + s
  OBVIOUS
<1>7. issued \in Nat /\ rounds \in 0..MaxRounds /\ rounds \in Nat /\ Cardinality(Flows) \in Nat
  BY Sizes DEF CountInv
<1>8. issued + Dues + DuesTwice + DueLogins <= 1 + 2 * rounds + Cardinality(Flows)
  BY DEF CountInv
<1>9. issued + 1 + Dues' + DuesTwice' + DueLogins' <= 1 + 2 * rounds + Cardinality(Flows)
  BY <1>1, <1>5, <1>6, <1>7, <1>8
<1>10. \A m, n, r, s, x, y, z \in Nat :
        n + 1 + x + y + z <= 1 + 2 * r + s /\ r <= m => n + 1 <= 1 + 2 * m + s
  OBVIOUS
<1>11. issued + 1 <= MaxTokens
  BY <1>1, <1>7, <1>9, <1>10, RoundsAssumption, BoundAssumption
<1>12. QED BY <1>7, <1>9, <1>11 DEF CountInv

\* A handler that starts may bring one token and one more.
LEMMA CountStarts ==
  ASSUME CountInv, NEW i \in Slots, issued' = issued, rounds < MaxRounds, rounds' = rounds + 1,
         Handlers' \subseteq Handlers \cup {i}, Movers' \subseteq Movers \cup {i}, Logins' \subseteq Logins
  PROVE  CountInv'
<1>1. /\ Dues' <= Dues + 1 /\ DuesTwice' <= DuesTwice + 1
      /\ Dues \in Nat /\ DuesTwice \in Nat /\ Dues' \in Nat /\ DuesTwice' \in Nat
  BY Finite, OneMore DEF Handlers, Movers, Dues, DuesTwice
<1>2. DueLogins' <= DueLogins /\ DueLogins \in Nat /\ DueLogins' \in Nat
  BY Finite, Fewer DEF Logins, DueLogins
<1>3. QED BY <1>1, <1>2, Sizes DEF CountInv

\* All of it.
JarInv == CallsOk /\ CookieInv /\ CountInv

\* The call of one caller changes, and what its window tells.
OneCall(c) ==
  /\ call' = [d \in Callers |-> call'[d]] /\ \A d \in Callers \ {c} : call'[d] = call[d]
  /\ window' = [f \in Flows |-> window'[f]] /\ \A f \in Flows \ {c} : window'[f] = window[f]

\* The sets of those who are due a token change by that caller only.
LEMMA OneCount ==
  ASSUME NEW c \in Callers, OneCall(c)
  PROVE  /\ Handlers' \subseteq Handlers \cup {c} /\ Movers' \subseteq Movers \cup {c}
         /\ Logins' \subseteq Logins \cup {c}
         /\ (c \in Slots /\ Due(c)' => Due(c)) => Handlers' \subseteq Handlers
         /\ (c \in Slots /\ DueTwice(c)' => DueTwice(c)) => Movers' \subseteq Movers
         /\ (c \in Flows /\ DueLogin(c)' => DueLogin(c)) => Logins' \subseteq Logins
<1>1. \A i \in Slots : (Due(i)' => Due(i) \/ i = c) /\ (DueTwice(i)' => DueTwice(i) \/ i = c)
  BY CallersAssumption DEF OneCall, Due, DueTwice, Answered
<1>2. \A f \in Flows : DueLogin(f)' => DueLogin(f) \/ f = c
  BY CallersAssumption DEF OneCall, DueLogin
<1>3. /\ Handlers' \subseteq Handlers \cup {c}
      /\ ((c \in Slots /\ Due(c)' => Due(c)) => Handlers' \subseteq Handlers)
  BY <1>1 DEF Handlers
<1>4. /\ Movers' \subseteq Movers \cup {c}
      /\ ((c \in Slots /\ DueTwice(c)' => DueTwice(c)) => Movers' \subseteq Movers)
  BY <1>1 DEF Movers
<1>5. /\ Logins' \subseteq Logins \cup {c}
      /\ ((c \in Flows /\ DueLogin(c)' => DueLogin(c)) => Logins' \subseteq Logins)
  BY <1>2 DEF Logins
<1>6. QED BY <1>3, <1>4, <1>5

\* An answer that changes no session, and one that is not for a cookie, is not due.
LEMMA OneKeeps ==
  ASSUME CountInv, NEW c \in Callers, OneCall(c), UNCHANGED << issued, rounds >>,
         c \in Slots /\ Due(c)' => Due(c), c \in Slots /\ DueTwice(c)' => DueTwice(c),
         c \in Flows /\ DueLogin(c)' => DueLogin(c)
  PROVE  CountInv'
<1>1. Handlers' \subseteq Handlers /\ Movers' \subseteq Movers /\ Logins' \subseteq Logins
  BY OneCount
<1>2. QED BY <1>1, CountKeeps

\* A handler starts, with whatever request.
LEMMA StartCount ==
  ASSUME CountInv, NEW i \in Slots, OneCall(i), UNCHANGED << issued, window >>, Starts(i)
  PROVE  CountInv'
<1>1. i \in Callers /\ i \notin Flows
  BY CallersAssumption
<1>2. Handlers' \subseteq Handlers \cup {i} /\ Movers' \subseteq Movers \cup {i} /\ Logins' \subseteq Logins
  BY <1>1, OneCount
<1>3. QED BY <1>2, CountStarts DEF Starts

\* A handler goes on with a request that issues no token, or to the session after a
\* move, or is done.
LEMMA SlotCount ==
  ASSUME CountInv, NEW i \in Slots, OneCall(i), UNCHANGED << issued, rounds >>,
         \/ call'[i].route \notin MayIssue
         \/ call[i].route \in {"switch", "accept"} /\ call'[i].route = "session"
  PROVE  CountInv'
<1>1. i \in Callers /\ i \notin Flows
  BY CallersAssumption
<1>2. (Due(i)' => Due(i)) /\ (DueTwice(i)' => DueTwice(i))
  BY DEF Due, DueTwice, MayIssue
<1>3. QED BY <1>1, <1>2, OneKeeps

\* An answer without a token.
LEMMA AnswerCount ==
  ASSUME CountInv, NEW c \in Callers, OneCall(c), UNCHANGED << issued, rounds, window >>,
         call[c].route # "none", call'[c].route = call[c].route, call'[c].code # 0
  PROVE  CountInv'
<1>1. (Due(c)' => Due(c)) /\ (DueTwice(c)' => DueTwice(c))
  BY DEF Due, DueTwice, Answered
<1>2. DueLogin(c)' => DueLogin(c)
  BY DEF DueLogin
<1>3. QED BY <1>1, <1>2, OneKeeps

\* An answer with the next token, which was due to the caller.
LEMMA IssueCount ==
  ASSUME CountInv, CallsOk, NEW c \in Callers, OneCall(c), UNCHANGED << rounds, window >>,
         issued' = issued + 1, call[c].route \in CookieRoutes, call[c].code = 0,
         call'[c].route = call[c].route, call'[c].code # 0
  PROVE  CountInv' /\ issued' <= MaxTokens
<1>1. (Due(c)' => Due(c)) /\ (DueTwice(c)' => DueTwice(c)) /\ (DueLogin(c)' => DueLogin(c))
  BY DEF Due, DueTwice, Answered, DueLogin
<1>2. Handlers' \subseteq Handlers /\ Movers' \subseteq Movers /\ Logins' \subseteq Logins
  BY <1>1, OneCount
<1>3. Handlers' # Handlers \/ Movers' # Movers \/ Logins' # Logins
  <2>1. CASE c \in Flows
    <3>1. window[c] = "callback"
      BY <2>1 DEF CallsOk, CookieRoutes, LoginRoutes
    <3>2. DueLogin(c) /\ ~DueLogin(c)'
      BY <3>1 DEF DueLogin
    <3>3. QED BY <2>1, <3>2 DEF Logins
  <2>2. CASE c \in Slots
    <3>1. call[c].route \in MayIssue
      BY <2>2 DEF CallsOk, CookieRoutes, LoginRoutes, SlotRoutes, ScopedRoutes, MayIssue
    <3>2. \/ DueTwice(c) /\ ~DueTwice(c)'
          \/ Due(c) /\ ~Due(c)'
      BY <3>1 DEF Due, DueTwice, MayIssue, Answered
    <3>3. QED BY <2>2, <3>2 DEF Handlers, Movers
  <2>3. QED BY <2>1, <2>2, CallersAssumption
<1>4. QED BY <1>2, <1>3, CountIssues

------------------------------------------------------------------------------
(*****************************************************************************)
(* Every action keeps the invariant of the cookies.                          *)
(*****************************************************************************)

\* Sessions, cookies and windows stay as they are.
Quiet == UNCHANGED << issued, family, live, jar, stray, window >>

\* Only the call of the one who sends it changes.
LEMMA SentOne ==
  ASSUME CallsOk, NEW c \in Callers, NEW r, call' = [call EXCEPT ![c] = r], UNCHANGED window
  PROVE  OneCall(c) /\ call'[c] = r
BY DEF CallsOk, OneCall

\* Only the call that is answered changes.
LEMMA RepliedOne ==
  ASSUME CallsOk, NEW c \in Callers, NEW code, NEW set, NEW a, Reply(c, code, set, a), UNCHANGED window
  PROVE  OneCall(c) /\ call'[c].route = call[c].route /\ call'[c].code = code
BY DEF CallsOk, OneCall, Reply

\* The user, the timer or the browser starts a handler.
LEMMA StartsCall ==
  ASSUME JarInv, NEW i \in Slots, Starts(i), Quiet,
         NEW route \in SlotRoutes, NEW a, NEW item, Await(i, route, jar, a, item)
  PROVE  JarInv'
<1>1. Given(i) = NoToken
  BY FreeHasNone DEF Starts
<1>2. CallsOk' /\ CookieInv'
  BY <1>1, SendStep DEF JarInv, Quiet
<1>3. OneCall(i)
  BY SentOne, CallersAssumption DEF JarInv, Quiet, Await
<1>4. CountInv'
  BY <1>3, StartCount DEF JarInv, Quiet
<1>5. QED BY <1>2, <1>4 DEF JarInv

\* A handler that got an answer without a cookie sends the next request.
LEMMA GoesOn ==
  ASSUME JarInv, NEW i \in Slots, call[i].route \notin CookieRoutes, Quiet, UNCHANGED rounds,
         NEW route \in SlotRoutes \ MayIssue, NEW a, NEW item, Await(i, route, jar, a, item)
  PROVE  JarInv'
<1>1. Given(i) = NoToken
  BY CallersAssumption DEF JarInv, CallsOk
<1>2. CallsOk' /\ CookieInv'
  BY <1>1, SendStep DEF JarInv, Quiet
<1>3. OneCall(i) /\ call'[i].route = route
  <2>1. i \in Callers
    BY CallersAssumption
  <2>2. OneCall(i) /\ call'[i] = Request(route, jar, a, item)
    BY <2>1, SentOne DEF JarInv, Quiet, Await
  <2>3. QED BY <2>2 DEF Request
<1>4. CountInv'
  BY <1>3, SlotCount DEF JarInv, Quiet
<1>5. QED BY <1>2, <1>4 DEF JarInv

\* A handler that got an answer without a cookie is done.
LEMMA IsDone ==
  ASSUME JarInv, NEW i \in Slots, call[i].route \notin CookieRoutes, Quiet, UNCHANGED rounds,
         Finish(i)
  PROVE  JarInv'
<1>1. Given(i) = NoToken
  BY CallersAssumption DEF JarInv, CallsOk
<1>2. CallsOk' /\ CookieInv'
  BY <1>1, DoneStep DEF JarInv, Quiet
<1>3. OneCall(i) /\ call'[i].route = "none"
  <2>1. i \in Callers
    BY CallersAssumption
  <2>2. OneCall(i) /\ call'[i] = Silent
    BY <2>1, SentOne DEF JarInv, Quiet, Finish
  <2>3. QED BY <2>2 DEF Silent
<1>4. CountInv'
  BY <1>3, SlotCount DEF JarInv, Quiet, MayIssue
<1>5. QED BY <1>2, <1>4 DEF JarInv

\* A handler whose answer sets the cookie sends the next request with it.
LEMMA StoresAndGoesOn ==
  ASSUME JarInv, NEW i \in Slots, jar' = JarAfter(i),
         UNCHANGED << issued, family, live, stray, window, rounds >>,
         NEW route \in SlotRoutes, NEW a, NEW item,
         route \notin MayIssue \/ (route = "session" /\ call[i].route \in {"switch", "accept"}),
         Await(i, route, JarAfter(i), a, item)
  PROVE  JarInv'
<1>1. CallsOk' /\ CookieInv'
  BY StoreSend DEF JarInv
<1>2. OneCall(i) /\ call'[i].route = route
  <2>1. i \in Callers
    BY CallersAssumption
  <2>2. OneCall(i) /\ call'[i] = Request(route, JarAfter(i), a, item)
    BY <2>1, SentOne DEF JarInv, Await
  <2>3. QED BY <2>2 DEF Request
<1>3. CountInv'
  BY <1>2, SlotCount DEF JarInv
<1>4. QED BY <1>1, <1>3 DEF JarInv

\* A handler whose answer sets the cookie is done.
LEMMA StoresAndIsDone ==
  ASSUME JarInv, NEW i \in Slots, jar' = JarAfter(i), Finish(i),
         UNCHANGED << issued, family, live, stray, window, rounds >>
  PROVE  JarInv'
<1>0. i \in Callers
  BY CallersAssumption
<1>1. CallsOk' /\ CookieInv'
  <2>1. window' = [f \in Flows |-> window'[f]] /\ \A f \in Flows \ {i} : window'[f] = window[f]
    BY DEF JarInv, CallsOk
  <2>2. QED BY <1>0, <2>1, StoreDone DEF JarInv, Finish
<1>2. OneCall(i) /\ call'[i].route = "none"
  <2>1. OneCall(i) /\ call'[i] = Silent
    BY <1>0, SentOne DEF JarInv, Finish
  <2>2. QED BY <2>1 DEF Silent
<1>3. CountInv'
  BY <1>2, SlotCount DEF JarInv, MayIssue
<1>4. QED BY <1>1, <1>3 DEF JarInv

\* The server answers without a token.
LEMMA Answers ==
  ASSUME JarInv, NEW c \in Callers, call[c].route # "none", call[c].code = 0,
         NEW code, code # 0, NEW set, set = Keep \/ set = NoToken, NEW a, Reply(c, code, set, a),
         UNCHANGED << issued, family, jar, stray, window, rounds >>, live' \subseteq live
  PROVE  JarInv'
<1>1. CallsOk' /\ CookieInv'
  BY AnswerStep DEF JarInv
<1>2. OneCall(c) /\ call'[c].route = call[c].route /\ call'[c].code = code
  BY RepliedOne DEF JarInv
<1>3. CountInv'
  BY <1>2, AnswerCount DEF JarInv
<1>4. QED BY <1>1, <1>3 DEF JarInv

\* The server answers with the next token.
LEMMA Issues ==
  ASSUME JarInv, NEW c \in Callers, call[c].route \in CookieRoutes, call[c].code = 0,
         NEW code, code # 0, NEW a, Reply(c, code, Next1, a),
         UNCHANGED << jar, stray, window, rounds >>,
         issued' = Next1,
         \/ /\ family' = [family EXCEPT ![Next1] = family[call[c].token]]
            /\ call[c].token \in live
            /\ live' = (live \ {call[c].token}) \cup {Next1}
         \/ /\ family' = [family EXCEPT ![Next1] = Next1]
            /\ live' = live \cup {Next1}
  PROVE  JarInv'
<1>1. OneCall(c) /\ call'[c].route = call[c].route /\ call'[c].code = code
  BY RepliedOne DEF JarInv
<1>2. CountInv' /\ issued' <= MaxTokens
  BY <1>1, IssueCount DEF JarInv, Next1
<1>3. Next1 <= MaxTokens
  BY <1>2
<1>4. CallsOk' /\ CookieInv'
  BY <1>3, IssueStep DEF JarInv
<1>5. QED BY <1>2, <1>4 DEF JarInv

\* The answer is lost or reaches nobody.
LEMMA Drops ==
  ASSUME JarInv, NEW i \in Slots, Answered(i), stray' = (stray \/ SetCookie(i) \in Tokens),
         UNCHANGED << issued, family, live, jar, window, rounds >>,
         NEW code, code # 0, Finish(i) \/ Reply(i, code, Keep, NoAccount)
  PROVE  JarInv'
<1>0. i \in Callers /\ call[i].route # "none" /\ SetCookie(i) = call[i].set
  BY CallersAssumption DEF Answered, SetCookie
<1>1. stray' = (stray \/ Given(i) # NoToken)
  BY Numbers DEF Given
<1>2. /\ Others(i) /\ Carried(i)' = NoToken /\ Given(i)' = NoToken /\ SetCookie(i)' = Keep
      /\ call'[i].route \in {"none", call[i].route}
      /\ call' = [d \in Callers |-> call'[d]]
      /\ \A d \in Callers \ {i} : call'[d] = call[d] /\ SetCookie(d)' = SetCookie(d)
  <2>1. CASE Finish(i)
    <3>1. /\ Others(i) /\ Carried(i)' = NoToken /\ Given(i)' = NoToken /\ SetCookie(i)' = Keep
          /\ call'[i] = Silent
          /\ call' = [d \in Callers |-> call'[d]]
          /\ \A d \in Callers \ {i} : call'[d] = call[d] /\ SetCookie(d)' = SetCookie(d)
      BY <1>0, <2>1, SilentCall DEF JarInv, Finish
    <3>2. QED BY <3>1 DEF Silent
  <2>2. CASE Reply(i, code, Keep, NoAccount)
    <3>1. /\ Others(i) /\ Carried(i)' = NoToken /\ SetCookie(i)' = Keep
          /\ Given(i)' = (IF Keep \in Tokens THEN Keep ELSE NoToken)
          /\ call'[i].route = call[i].route /\ call'[i].code = code /\ call'[i].item = call[i].item
          /\ call'[i].version = (IF call[i].route = "results" THEN version ELSE 0)
          /\ call' = [d \in Callers |-> call'[d]]
          /\ \A d \in Callers \ {i} : call'[d] = call[d] /\ SetCookie(d)' = SetCookie(d)
      BY <1>0, <2>2, RepliedCall, ZenonT(60) DEF JarInv
    <3>2. QED BY <3>1, Numbers
  <2>3. QED BY <2>1, <2>2
<1>3. CookieInv'
  BY <1>0, <1>1, <1>2, DropKeeps DEF JarInv
<1>4. CallsOk'
  <2>1. \A k \in Slots : call'[k].route \in SlotRoutes \cup {"none"}
    BY <1>0, <1>2, CallersAssumption DEF JarInv, CallsOk
  <2>2. \A f \in Flows : call'[f].route # "none" => call'[f].route \in LoginRoutes /\ window'[f] = "callback"
    BY <1>0, <1>2, CallersAssumption DEF JarInv, CallsOk
  <2>3. \A d \in Callers : /\ SetCookie(d)' \in Tokens \cup {NoToken, Keep}
                           /\ Given(d)' # NoToken => call'[d].route \in CookieRoutes
    BY <1>2 DEF JarInv, CallsOk, Others
  <2>4. QED BY <1>2, <2>1, <2>2, <2>3 DEF JarInv, CallsOk, Tokens, Keep, NoToken
<1>5. CountInv'
  <2>1. OneCall(i)
    BY <1>2 DEF JarInv, CallsOk, OneCall
  <2>2. call'[i].route \notin MayIssue \/ (call'[i].route = call[i].route /\ call'[i].code # 0)
    <3>1. CASE Finish(i)
      <4>1. call'[i] = Silent
        BY <1>0, <3>1, SentOne DEF JarInv, Finish
      <4>2. QED BY <4>1 DEF Silent, MayIssue
    <3>2. CASE Reply(i, code, Keep, NoAccount)
      BY <1>0, <3>2, RepliedOne DEF JarInv
    <3>3. QED BY <3>1, <3>2
  <2>3. QED BY <1>0, <2>1, <2>2, SlotCount, AnswerCount DEF JarInv
<1>6. QED BY <1>3, <1>4, <1>5 DEF JarInv

\* The tab is open, one session is live, and the jar has its token.
LEMMA JarInit == InitConsole => JarInv
<1> SUFFICES ASSUME InitConsole PROVE JarInv
  OBVIOUS
<1>1. /\ issued = 1 /\ family = [t \in Tokens |-> IF t = 1 THEN 1 ELSE NoToken] /\ live = {1}
      /\ call = [c \in Callers |-> Silent] /\ jar = 1 /\ window = [f \in Flows |-> "shut"]
      /\ rounds = 0
  BY DEF InitConsole, InitServer
<1>2. MaxTokens \in Nat /\ MaxTokens >= 1 /\ Cardinality(Flows) \in Nat /\ 1 \in Tokens
  <2>1. Cardinality(Flows) \in Nat
    BY Sizes
  <2>2. QED BY <2>1, RoundsAssumption, BoundAssumption DEF Tokens
<1>3. \A c \in Callers : call[c] = Silent /\ call[c].route = "none"
  BY <1>1 DEF Silent
<1>4. \A c \in Callers : SetCookie(c) = Keep /\ Given(c) = NoToken /\ Carried(c) = NoToken
  BY <1>3, Numbers DEF SetCookie, Answered, Given, Carried
<1>5. CallsOk
  BY <1>1, <1>3, <1>4, CallersAssumption DEF CallsOk
<1>6. CookieInv
  <2>1. RowsOk
    BY <1>1, <1>2 DEF RowsOk
  <2>2. QED BY <2>1, <1>1, <1>2, <1>4 DEF CookieInv, OneLive, JarOk, Fresh, NoToken
<1>7. CountInv
  <2>1. Handlers = {} /\ Movers = {} /\ Logins \subseteq Flows
    BY <1>3, CallersAssumption DEF Handlers, Movers, Logins, Due, DueTwice, MayIssue
  <2>2. Dues = 0 /\ DuesTwice = 0
    BY <2>1, FS_EmptySet DEF Dues, DuesTwice, Handlers, Movers
  <2>3. DueLogins <= Cardinality(Flows) /\ DueLogins \in Nat
    BY <2>1, FiniteAssumption, Fewer DEF DueLogins, Logins
  <2>4. QED BY <1>1, <1>2, <2>2, <2>3, Sizes DEF CountInv
<1>8. QED BY <1>5, <1>6, <1>7 DEF JarInv

\* Steps that concern no call: the worker's progress, sessions that end, a login
\* cookie that lapses.
LEMMA Rests ==
  ASSUME JarInv, UNCHANGED << issued, family, call, jar, stray, window, rounds >>, live' \subseteq live
  PROVE  JarInv'
<1>1. \A d \in Callers : SetCookie(d)' = SetCookie(d) /\ Given(d)' = Given(d) /\ Carried(d)' = Carried(d)
  BY DEF SetCookie, Answered, Given, Carried, Keep, Tokens, NoToken
<1>2. CookieInv'
  BY <1>1, EndKeeps DEF JarInv
<1>3. CallsOk'
  BY <1>1 DEF JarInv, CallsOk, Keep, Tokens, NoToken
<1>4. CountInv'
  BY DEF JarInv, CountInv, Dues, DuesTwice, DueLogins, Due, DueTwice, DueLogin, Answered
<1>5. QED BY <1>2, <1>3, <1>4 DEF JarInv

\* Handlers that start.
LEMMA UserKeeps ==
  ASSUME JarInv, NEW i \in Slots, UserActs(i)
  PROVE  JarInv'
<1> USE DEF SlotRoutes, ScopedRoutes, Quiet, rows, browser
<1>1. CASE Load(i)
  BY <1>1, StartsCall DEF Load
<1>2. CASE Retry(i)
  BY <1>2, StartsCall DEF Retry, RefreshWorkspace
<1>3. CASE TimerTicks(i)
  BY <1>3, StartsCall DEF TimerTicks, RefreshWorkspace
<1>4. CASE SelectAssessment(i)
  BY <1>4, StartsCall DEF SelectAssessment, RefreshResults
<1>5. CASE RefreshCurrentResults(i)
  BY <1>5, StartsCall DEF RefreshCurrentResults, RefreshResults
<1>6. CASE AskMove(i)
  BY <1>6, StartsCall DEF AskMove
<1>7. CASE AskChange(i)
  BY <1>7, StartsCall DEF AskChange
<1>8. CASE Logout(i)
  BY <1>8, StartsCall DEF Logout
<1>9. QED BY <1>1, <1>2, <1>3, <1>4, <1>5, <1>6, <1>7, <1>8 DEF UserActs

\* Handlers that get an answer, or none.
LEMMA ContinueKeeps ==
  ASSUME JarInv, NEW i \in Slots, Continue(i) \/ AnswerLost(i), UNCHANGED rounds
  PROVE  JarInv'
<1> USE DEF SlotRoutes, ScopedRoutes, CookieRoutes, LoginRoutes, MayIssue, Quiet, rows, browser, Awaiting
<1>1. CASE GotMove(i)
  <2>1. CASE Ok(i)
    <3>1. /\ Await(i, "session", JarAfter(i), NoAccount, NoItem) /\ jar' = JarAfter(i)
          /\ call[i].route \in {"switch", "accept"}
          /\ UNCHANGED << issued, family, live, stray, window, rounds >>
      BY <1>1, <2>1 DEF GotMove, Stored
    <3>2. QED BY <3>1, StoresAndGoesOn
  <2>2. CASE ~Ok(i)
    <3>1. /\ Finish(i) /\ jar' = JarAfter(i)
          /\ UNCHANGED << issued, family, live, stray, window, rounds >>
      BY <1>1, <2>2 DEF GotMove, Stored
    <3>2. QED BY <3>1, StoresAndIsDone
  <2>3. QED BY <2>1, <2>2
<1>2. CASE GotChange(i)
  <2>1. CASE Ok(i)
    BY <1>2, <2>1, GoesOn DEF GotChange, RefreshWorkspace
  <2>2. CASE ~Ok(i)
    BY <1>2, <2>2, IsDone DEF GotChange
  <2>3. QED BY <2>1, <2>2
<1>3. CASE GotSession(i)
  <2>1. CASE Ok(i)
    <3>1. /\ Await(i, "accounts", JarAfter(i), NoAccount, NoItem) /\ jar' = JarAfter(i)
          /\ UNCHANGED << issued, family, live, stray, window, rounds >>
      BY <1>3, <2>1 DEF GotSession, Stored, RefreshWorkspace
    <3>2. QED BY <3>1, StoresAndGoesOn
  <2>2. CASE ~Ok(i)
    <3>1. /\ Finish(i) /\ jar' = JarAfter(i)
          /\ UNCHANGED << issued, family, live, stray, window, rounds >>
      BY <1>3, <2>2 DEF GotSession, Stored
    <3>2. QED BY <3>1, StoresAndIsDone
  <2>3. QED BY <2>1, <2>2
<1>4. CASE GotAccounts(i)
  <2>0. call[i].route = "accounts" /\ Quiet
    BY <1>4 DEF GotAccounts
  <2>1. CASE EndRefresh(i)
    BY <2>0, <2>1, IsDone DEF EndRefresh
  <2>2. CASE \E route \in {"lists", "notes"} : Await(i, route, jar, call[i].active, NoItem)
    BY <2>0, <2>2, GoesOn
  <2>3. QED BY <1>4, <2>1, <2>2 DEF GotAccounts
<1>5. CASE GotLists(i)
  <2>0. call[i].route = "lists" /\ Quiet
    BY <1>5 DEF GotLists
  <2>1. CASE EndRefresh(i)
    BY <2>0, <2>1, IsDone DEF EndRefresh
  <2>2. CASE Await(i, "notes", jar, call[i].account, selected')
    BY <2>0, <2>2, GoesOn
  <2>3. QED BY <1>5, <2>1, <2>2 DEF GotLists
<1>6. CASE GotNotes(i)
  <2>0. call[i].route = "notes" /\ Quiet
    BY <1>6 DEF GotNotes
  <2>1. CASE EndRefresh(i)
    BY <2>0, <2>1, IsDone DEF EndRefresh
  <2>2. CASE Await(i, "results", jar, call[i].account, call[i].item)
    BY <2>0, <2>2, GoesOn
  <2>3. QED BY <1>6, <2>1, <2>2 DEF GotNotes
<1>7. CASE GotResults(i)
  <2>0. call[i].route = "results" /\ Quiet /\ Finish(i)
    BY <1>7 DEF GotResults, EndRefresh
  <2>1. QED BY <2>0, IsDone
<1>8. CASE GotLogout(i)
  <2>1. /\ Finish(i) /\ jar' = JarAfter(i)
        /\ UNCHANGED << issued, family, live, stray, window, rounds >>
    BY <1>8 DEF GotLogout, Stored
  <2>2. QED BY <2>1, StoresAndIsDone
<1>9. CASE GotByNobody(i)
  <2>1. /\ Finish(i) /\ Answered(i) /\ stray' = (stray \/ SetCookie(i) \in Tokens)
        /\ UNCHANGED << issued, family, live, jar, window, rounds >>
    BY <1>9 DEF GotByNobody
  <2>2. 1 # 0
    OBVIOUS
  <2>3. QED BY <2>1, <2>2, Drops
<1>10. CASE AnswerLost(i)
  <2>1. /\ Reply(i, 599, Keep, NoAccount) /\ Answered(i)
        /\ stray' = (stray \/ SetCookie(i) \in Tokens)
        /\ UNCHANGED << issued, family, live, jar, window, rounds >>
    BY <1>10 DEF AnswerLost
  <2>2. QED BY <2>1, Drops
<1>11. QED BY <1>1, <1>2, <1>3, <1>4, <1>5, <1>6, <1>7, <1>8, <1>9, <1>10 DEF Continue

\* CallsOk after a step, from its parts.
LEMMA CallsOkThen ==
  ASSUME call' = [d \in Callers |-> call'[d]], window' = [g \in Flows |-> window'[g]],
         \A i \in Slots : call'[i].route \in SlotRoutes \cup {"none"},
         \A g \in Flows : call'[g].route # "none" => call'[g].route \in LoginRoutes /\ window'[g] = "callback",
         \A d \in Callers : /\ SetCookie(d)' \in Tokens \cup {NoToken, Keep}
                            /\ Given(d)' # NoToken => call'[d].route \in CookieRoutes
  PROVE  CallsOk'
BY DEF CallsOk, Tokens, Keep, NoToken

\* A login in another window.
LEMMA LogInKeeps ==
  ASSUME JarInv, NEW w \in Flows, LogIn(w), UNCHANGED rounds
  PROVE  JarInv'
<1>0. w \in Callers /\ w \notin Slots
  BY CallersAssumption
<1>1. ASSUME NEW provider \in LoginRoutes, Start(w, provider) PROVE JarInv'
  <2>1. /\ UNCHANGED << issued, family, live, call, jar, stray, rounds >>
        /\ window[w] = "shut" /\ window' = [window EXCEPT ![w] = provider]
    BY <1>1 DEF Start, serverVars, rows
  <2>2. \A d \in Callers : SetCookie(d)' = SetCookie(d) /\ Given(d)' = Given(d) /\ Carried(d)' = Carried(d)
    BY <2>1 DEF SetCookie, Answered, Given, Carried, Keep, Tokens, NoToken
  <2>3. CookieInv'
    BY <2>1, <2>2, EndKeeps DEF JarInv
  <2>4. CallsOk'
    BY <2>1, <2>2 DEF JarInv, CallsOk, Keep, Tokens, NoToken
  <2>5. OneCall(w)
    BY <2>1 DEF JarInv, CallsOk, OneCall
  <2>6. CountInv'
    BY <1>0, <2>1, <2>5, OneKeeps DEF JarInv, DueLogin
  <2>7. QED BY <2>3, <2>4, <2>6 DEF JarInv
<1>2. CASE ReturnFromProvider(w)
  <2>1. /\ UNCHANGED << issued, family, live, jar, stray, rounds >>
        /\ window[w] \in LoginRoutes /\ window' = [window EXCEPT ![w] = "callback"]
        /\ call' = [call EXCEPT ![w] = Request(window[w], jar, NoAccount, transient)]
    BY <1>2 DEF ReturnFromProvider, rows, LoginRoutes, Await
  <2>2. call[w].route = "none" /\ window[w] # "none"
    BY <2>1 DEF JarInv, CallsOk, LoginRoutes
  <2>3. Given(w) = NoToken
    BY <2>2, Numbers DEF Given, SetCookie, Answered
  <2>4. /\ Others(w) /\ Carried(w)' = jar /\ Given(w)' = NoToken /\ SetCookie(w)' = Keep
        /\ call'[w] = Request(window[w], jar, NoAccount, transient)
        /\ call' = [d \in Callers |-> call'[d]]
        /\ \A d \in Callers \ {w} : call'[d] = call[d] /\ SetCookie(d)' = SetCookie(d)
    BY <1>0, <2>1, <2>2, SentCall DEF JarInv
  <2>5. CookieInv'
    BY <1>0, <2>1, <2>3, <2>4, SendKeeps DEF JarInv
  <2>6. call'[w].route = window[w]
    BY <2>4 DEF Request
  <2>7. /\ window' = [g \in Flows |-> window'[g]] /\ window'[w] = "callback"
        /\ \A g \in Flows \ {w} : window'[g] = window[g]
    BY <2>1 DEF JarInv, CallsOk
  <2>8. CallsOk'
    <3>1. \A i \in Slots : call'[i].route \in SlotRoutes \cup {"none"}
      BY <1>0, <2>4, CallersAssumption DEF JarInv, CallsOk
    <3>2. \A g \in Flows : call'[g].route # "none" => call'[g].route \in LoginRoutes /\ window'[g] = "callback"
      BY <1>0, <2>1, <2>4, <2>6, <2>7, CallersAssumption DEF JarInv, CallsOk
    <3>3. \A d \in Callers : /\ SetCookie(d)' \in Tokens \cup {NoToken, Keep}
                             /\ Given(d)' # NoToken => call'[d].route \in CookieRoutes
      BY <2>4 DEF JarInv, CallsOk, Others
    <3>4. call' = [d \in Callers |-> call'[d]] /\ window' = [g \in Flows |-> window'[g]]
      BY <2>4, <2>7
    <3>5. QED BY <3>1, <3>2, <3>3, <3>4, CallsOkThen
  <2>9. OneCall(w)
    BY <2>4, <2>7 DEF OneCall
  <2>10. DueLogin(w)
    BY <2>1 DEF DueLogin, LoginRoutes
  <2>11. CountInv'
    BY <1>0, <2>1, <2>9, <2>10, OneKeeps DEF JarInv
  <2>12. QED BY <2>5, <2>8, <2>11 DEF JarInv
<1>3. CASE GotCallback(w)
  <2>1. /\ UNCHANGED << issued, family, live, stray, rounds >> /\ jar' = JarAfter(w)
        /\ window' = [window EXCEPT ![w] = "done"] /\ call' = [call EXCEPT ![w] = Silent]
    BY <1>3 DEF GotCallback, rows
  <2>2. /\ window' = [g \in Flows |-> window'[g]] /\ window'[w] = "done"
        /\ \A g \in Flows \ {w} : window'[g] = window[g]
    BY <2>1 DEF JarInv, CallsOk
  <2>3. CallsOk' /\ CookieInv'
    BY <1>0, <2>1, <2>2, StoreDone DEF JarInv
  <2>4. OneCall(w)
    BY <2>1, <2>2 DEF JarInv, CallsOk, OneCall
  <2>5. ~DueLogin(w)'
    BY <2>2 DEF DueLogin
  <2>6. CountInv'
    BY <1>0, <2>1, <2>4, <2>5, OneKeeps DEF JarInv
  <2>7. QED BY <2>3, <2>6 DEF JarInv
<1>4. QED BY <1>1, <1>2, <1>3 DEF LogIn, GitHubStart, GoogleStart, LoginRoutes

\* The server's answers.
LEMMA ServeKeeps ==
  ASSUME JarInv, NEW c \in Callers, Serve(c) \/ ServeUnaudited(c) \/ ServeFails(c),
         UNCHANGED << browser, page, rounds >>
  PROVE  JarInv'
<1>0. UNCHANGED << jar, stray, window, rounds >>
  BY DEF browser
<1>1. CASE ServeSession(c)
  <2>1. CASE Resolved(call[c].token)
    BY <1>0, <1>1, <2>1, Issues DEF ServeSession, Asked, Resolved, Rotated, CookieRoutes
  <2>2. CASE ~Resolved(call[c].token)
    BY <1>0, <1>1, <2>2, Answers DEF ServeSession, Asked, Resolved
  <2>3. QED BY <2>1, <2>2
<1>2. CASE ServeSwitch(c)
  <2>0. call[c].route = "switch" /\ call[c].code = 0
    BY <1>2 DEF ServeSwitch, Asked
  <2>1. CASE call[c].token \in live /\ call[c].account \in joined
    BY <1>0, <1>2, <2>0, <2>1, Issues DEF ServeSwitch, SwitchAnswer, MovedTo, CookieRoutes
  <2>2. CASE ~(call[c].token \in live /\ call[c].account \in joined)
    <3>1. PICK code \in {401, 403} : Reply(c, code, Keep, NoAccount)
      BY <1>2, <2>2 DEF ServeSwitch
    <3>2. code # 0 /\ UNCHANGED << issued, family, live >>
      BY <1>2, <2>2 DEF ServeSwitch
    <3>3. QED BY <1>0, <2>0, <3>1, <3>2, Answers
  <2>3. QED BY <2>1, <2>2
<1>3. CASE ServeAccept(c)
  <2>0. call[c].route = "accept" /\ call[c].code = 0
    BY <1>3 DEF ServeAccept, Asked
  <2>1. CASE /\ Resolved(call[c].token) /\ Joins(call[c].token, call[c].account)
             /\ Reply(c, 200, Next1, call[c].account)
    <3>1. /\ issued' = Next1 /\ family' = [family EXCEPT ![Next1] = family[call[c].token]]
          /\ call[c].token \in live /\ live' = (live \ {call[c].token}) \cup {Next1}
          /\ Reply(c, 200, Next1, call[c].account)
      BY <2>1 DEF Resolved, Joins, MovedTo
    <3>2. call[c].route \in CookieRoutes
      BY <2>0 DEF CookieRoutes
    <3>4. PICK code, a : code # 0 /\ Reply(c, code, Next1, a)
      BY <3>1
    <3>3. QED BY <1>0, <2>0, <3>1, <3>2, <3>4, Issues, ZenonT(60)
  <2>2. CASE /\ UNCHANGED rows
             /\ \E code \in {200, 400}, a \in {account[call[c].token], NoAccount} : Reply(c, code, Keep, a)
    BY <1>0, <2>0, <2>2, Answers DEF rows
  <2>3. QED BY <1>3, <2>1, <2>2 DEF ServeAccept, JoinedBefore
<1>4. CASE ServeLogout(c)
  <2>1. live' \subseteq live
    BY <1>4 DEF ServeLogout, Ended
  <2>2. QED BY <1>0, <1>4, <2>1, Answers DEF ServeLogout, Asked
<1>5. CASE ServeAccounts(c)
  <2>1. PICK code \in {401, 200} : Reply(c, code, Keep, ActiveOf(call[c].token))
    BY <1>5 DEF ServeAccounts
  <2>2. code # 0 /\ call[c].route = "accounts" /\ call[c].code = 0 /\ UNCHANGED << issued, family, live >>
    BY <1>5 DEF ServeAccounts, Asked, rows
  <2>3. QED BY <1>0, <2>1, <2>2, Answers
<1>6. CASE ServeScoped(c)
  <2>1. CodeFor(call[c].token, call[c].account) \in {401, 403, 200}
    BY DEF CodeFor, Resolved
  <2>2. PICK code \in {401, 403, 200, 404, 409} : Reply(c, code, Keep, NoAccount)
    BY <1>6, <2>1 DEF ServeScoped
  <2>3. code # 0 /\ call[c].route # "none" /\ call[c].code = 0 /\ UNCHANGED << issued, family, live >>
    BY <1>6 DEF ServeScoped, ScopedRoutes, rows
  <2>4. QED BY <1>0, <2>2, <2>3, Answers
<1>7. ASSUME NEW provider \in LoginRoutes, Callback(c, provider) PROVE JarInv'
  <2>0. call[c].route \in LoginRoutes /\ call[c].code = 0 /\ call[c].route # "none"
    BY <1>7 DEF Callback, Asked, LoginRoutes
  <2>1. CASE OpenSession /\ Reply(c, 302, Next1, Home)
    BY <1>0, <2>0, <2>1, Issues DEF OpenSession, CookieRoutes
  <2>2. CASE Reply(c, 401, Keep, NoAccount) /\ UNCHANGED << issued, family, account, known, live >>
    BY <1>0, <2>0, <2>2, Answers
  <2>3. QED BY <1>7, <2>1, <2>2 DEF Callback
<1>8. CASE ServeUnaudited(c)
  <2>1. /\ Reply(c, 503, Keep, NoAccount)
        /\ call[c].route # "none" /\ call[c].code = 0 /\ UNCHANGED << issued, family, live >>
    BY <1>8 DEF ServeUnaudited, Mutations, rows
  <2>2. QED BY <1>0, <2>1, Answers
<1>9. CASE ServeFails(c)
  <2>1. PICK code \in {400, 500, 503} : Reply(c, code, Keep, NoAccount)
    BY <1>9 DEF ServeFails, FailureCode, ScopedRoutes
  <2>2. code # 0 /\ call[c].route # "none" /\ call[c].code = 0 /\ UNCHANGED << issued, family, live >>
    BY <1>9 DEF ServeFails, ScopedRoutes, rows
  <2>3. QED BY <1>0, <2>1, <2>2, Answers
<1>10. QED BY <1>1, <1>2, <1>3, <1>4, <1>5, <1>6, <1>7, <1>8, <1>9
         DEF Serve, ServeGitHubCallback, ServeGoogleCallback, LoginRoutes

\* Every step keeps the invariant of the cookies.
LEMMA JarStep == JarInv /\ [Next]_vars => JarInv'
<1> SUFFICES ASSUME JarInv, [Next]_vars PROVE JarInv'
  OBVIOUS
<1> USE DEF serverVars, rows, browser
<1>1. CASE \E i \in Slots : UserActs(i)
  BY <1>1, UserKeeps
<1>2. CASE \E i \in Slots : (Continue(i) \/ AnswerLost(i)) /\ UNCHANGED rounds
  BY <1>2, ContinueKeeps
<1>3. CASE (\E f \in Flows : LogIn(f)) /\ UNCHANGED rounds
  BY <1>3, LogInKeeps
<1>4. CASE LoginCookieLapses /\ UNCHANGED rounds
  BY <1>4, Rests DEF LoginCookieLapses
<1>5. CASE ServerActs /\ UNCHANGED rounds
  <2>1. CASE \E c \in Callers :
               (Serve(c) \/ ServeUnaudited(c) \/ ServeFails(c)) /\ UNCHANGED << browser, page >>
    BY <1>5, <2>1, ServeKeeps
  <2>2. CASE Progress /\ UNCHANGED << browser, page >>
    BY <1>5, <2>2, Rests DEF Progress
  <2>3. CASE SessionsEnd /\ UNCHANGED << browser, page >>
    BY <1>5, <2>3, Rests DEF SessionsEnd
  <2>4. QED BY <1>5, <2>1, <2>2, <2>3 DEF ServerActs
<1>6. CASE UNCHANGED vars
  BY <1>6, Rests DEF vars
<1>7. QED BY <1>1, <1>2, <1>3, <1>4, <1>5, <1>6 DEF Next

\* Wherever handlers, logins, answers and losses interleave, a token is in at most one
\* place that leads to the browser, and every login has at most one live session.
THEOREM CookiesInvariant == Spec => []JarInv
<1> QED BY JarInit, JarStep, PTL DEF Spec

\* The bound on the tokens is no restriction of the model: no request finds them used
\* up, however many handlers and windows there are.
THEOREM TokensSuffice == Spec => [](issued \in Tokens)
<1>1. JarInv => issued \in Tokens
  BY DEF JarInv, CookieInv, RowsOk, Tokens
<1>2. QED BY <1>1, CookiesInvariant, PTL

\* What follows for the jar.
LEMMA JarRight == JarInv => JarFollowsRotation
<1> SUFFICES ASSUME JarInv, ~stray, jar \in Tokens, NEW u \in live, family[u] = family[jar]
             PROVE  u = jar \/ \E c \in Callers : SetCookie(c) = u
  BY DEF JarFollowsRotation
<1>1. jar # NoToken /\ u # NoToken
  BY BoundAssumption DEF JarInv, CookieInv, RowsOk, NoToken, Tokens
<1>2. u = jar \/ \E c \in Callers : Given(c) = u
  BY <1>1 DEF JarInv, CookieInv, JarOk
<1>3. QED BY <1>1, <1>2 DEF Given

\* The only live session of the jar's login is the jar's, or in an answer on its way, as
\* long as no answer with a cookie was lost (auth.ts:622-688).
THEOREM JarFollows == Spec => []JarFollowsRotation
<1> QED BY CookiesInvariant, JarRight, PTL

------------------------------------------------------------------------------
(*****************************************************************************)
(* The refreshes: only the newest generation writes what is shown, one       *)
(* handler has it, and it has read no less than what is shown.               *)
(*****************************************************************************)

\* A refresh that goes on, and one that no later one has overtaken.
Refreshing(i) == /\ task[i] # Idle /\ task[i].op # "gone"
                 /\ call[i].route \in {"accounts", "lists", "notes", "results"}
Current(i)    == Refreshing(i) /\ task[i].gen = generation

\* What a refresh has read is not newer than what there is, and not older than what is
\* shown.
ReadingOk(i) ==
  Refreshing(i) /\ call[i].route = "results" =>
    /\ call[i].item # NoItem
    /\ call[i].code # 0 => call[i].version \in 0..version
    /\ call[i].code # 0 /\ Current(i) => call[i].version >= results.version

\* The invariant of the refreshes.
ResultsInv ==
  /\ task = [i \in Slots |-> task[i]] /\ version \in Nat /\ generation \in Nat
  /\ results.version \in 0..version /\ (results.item = NoItem => results.version = 0)
  /\ \A i \in Slots : Refreshing(i) => task[i].gen \in 0..generation
  /\ \A i, k \in Slots : Current(i) /\ Current(k) => i = k
  /\ \A i \in Slots : ReadingOk(i)

\* The step of ResultsNeverGoBack.
NotOlder == results'.item = results.item => results'.version >= results.version

\* What a handler does with its call and its task, the others' being as they were.
OneSlot(i) == \A k \in Slots \ {i} : task'[k] = task[k] /\ call'[k] = call[k]

\* No refresh begins, and what is shown stays or is taken away.
LEMMA ResultsKeep ==
  ASSUME ResultsInv, UNCHANGED generation, version' \in Nat, version <= version',
         task' = [i \in Slots |-> task'[i]], results' \in {results, NoResults},
         \A k \in Slots : Refreshing(k)' =>
           /\ Refreshing(k) /\ task'[k].gen = task[k].gen
           /\ call'[k].route = "results" =>
                \/ call'[k] = call[k]
                \/ call'[k].item # NoItem /\ call'[k].code = 0
                \/ /\ call[k].route = "results" /\ call'[k].item = call[k].item
                   /\ call'[k].version = version
  PROVE  ResultsInv' /\ NotOlder
<1>1. /\ results'.version \in 0..version' /\ results'.version <= results.version
      /\ results'.item = NoItem => results'.version = 0
      /\ results.version \in Nat /\ results.version <= version
  BY DEF ResultsInv, NoResults
<1>2. NotOlder
  BY <1>1 DEF NotOlder, NoResults, ResultsInv
<1>3. \A k \in Slots : Current(k)' => Current(k)
  BY DEF Current
<1>4. \A i \in Slots : Refreshing(i)' => task'[i].gen \in 0..generation'
  BY DEF ResultsInv
<1>5. ASSUME NEW i \in Slots PROVE ReadingOk(i)'
  <2>1. SUFFICES ASSUME Refreshing(i)', call'[i].route = "results"
                 PROVE  /\ call'[i].item # NoItem
                        /\ call'[i].code # 0 => call'[i].version \in 0..version'
                        /\ call'[i].code # 0 /\ Current(i)' => call'[i].version >= results'.version
    BY DEF ReadingOk
  <2>2. ReadingOk(i) /\ Refreshing(i)
    BY <2>1 DEF ResultsInv
  <2>3. CASE call'[i] = call[i]
    BY <1>1, <1>3, <2>1, <2>2, <2>3 DEF ReadingOk, ResultsInv
  <2>4. CASE call'[i].item # NoItem /\ call'[i].code = 0
    BY <2>4
  <2>5. CASE call[i].route = "results" /\ call'[i].item = call[i].item /\ call'[i].version = version
    BY <1>1, <2>2, <2>5 DEF ReadingOk, ResultsInv
  <2>6. QED BY <2>1, <2>3, <2>4, <2>5
<1>6. QED BY <1>1, <1>2, <1>3, <1>4, <1>5 DEF ResultsInv

\* A refresh begins, and all others are overtaken.
LEMMA ResultsBegin ==
  ASSUME ResultsInv, NEW i \in Slots, OneSlot(i), UNCHANGED version,
         generation' = generation + 1, task' = [k \in Slots |-> task'[k]],
         task'[i].gen = generation + 1, call'[i].route \in {"accounts", "notes"},
         results' \in {results, NoResults}
  PROVE  ResultsInv' /\ NotOlder
<1>1. /\ results'.version \in 0..version' /\ (results'.item = NoItem => results'.version = 0)
      /\ results'.version <= results.version /\ results.version \in Nat
  BY DEF ResultsInv, NoResults
<1>2. NotOlder
  BY <1>1 DEF NotOlder, NoResults, ResultsInv
<1>3. \A k \in Slots \ {i} : Refreshing(k)' => Refreshing(k) /\ task'[k].gen \in 0..generation /\ ~Current(k)'
  BY DEF ResultsInv, OneSlot, Refreshing, Current
<1>4. ASSUME NEW k \in Slots PROVE ReadingOk(k)'
  <2>1. CASE k = i
    BY <2>1 DEF ReadingOk
  <2>2. CASE k # i
    BY <1>3, <2>2 DEF ReadingOk, ResultsInv, OneSlot
  <2>3. QED BY <2>1, <2>2
<1>5. \A k \in Slots : Refreshing(k)' => task'[k].gen \in 0..generation'
  BY <1>3 DEF ResultsInv
<1>6. \A k \in Slots : Current(k)' => k = i
  BY <1>3 DEF Current
<1>7. QED BY <1>1, <1>2, <1>4, <1>5, <1>6 DEF ResultsInv

\* The results that a refresh read are shown unless it is overtaken.
LEMMA ResultsShown ==
  ASSUME ResultsInv, NEW i \in Slots, OneSlot(i), UNCHANGED << version, generation >>,
         task' = [k \in Slots |-> task'[k]], task'[i] = Idle,
         Current(i), call[i].route = "results", call[i].code # 0,
         results' = [item |-> call[i].item, version |-> call[i].version]
  PROVE  ResultsInv' /\ NotOlder
<1>1. /\ call[i].item # NoItem /\ call[i].version \in 0..version /\ call[i].version >= results.version
  BY DEF ResultsInv, ReadingOk, Current
<1>2. NotOlder /\ results'.version \in 0..version' /\ results'.item # NoItem
  BY <1>1 DEF NotOlder
<1>3. ~Refreshing(i)'
  BY DEF Refreshing
<1>4. \A k \in Slots : /\ Refreshing(k)' => Refreshing(k) /\ task'[k].gen = task[k].gen
                      /\ ~Current(k)'
  BY <1>3 DEF ResultsInv, OneSlot, Refreshing, Current
<1>5. \A k \in Slots : ReadingOk(k)'
  BY <1>3, <1>4 DEF ReadingOk, ResultsInv, OneSlot
<1>6. QED BY <1>2, <1>4, <1>5 DEF ResultsInv

\* The requests of a refresh.
RefreshRoutes == {"accounts", "lists", "notes", "results"}

\* A handler sends a request.
LEMMA SlotCall ==
  ASSUME CallsOk, NEW i \in Slots, NEW route, NEW token, NEW a, NEW item, Await(i, route, token, a, item)
  PROVE  /\ \A k \in Slots \ {i} : call'[k] = call[k]
         /\ call'[i].route = route /\ call'[i].item = item /\ call'[i].code = 0
<1>1. i \in Callers /\ Slots \subseteq Callers
  BY CallersAssumption
<1>2. call'[i] = Request(route, token, a, item) /\ \A k \in Slots \ {i} : call'[k] = call[k]
  BY <1>1 DEF CallsOk, Await
<1>3. QED BY <1>2 DEF Request

\* A handler that is done refreshes nothing.
LEMMA FinishedSlot ==
  ASSUME CallsOk, ResultsInv, NEW i \in Slots, Finish(i)
  PROVE  /\ OneSlot(i) /\ task' = [k \in Slots |-> task'[k]] /\ task'[i] = Idle
         /\ ~Refreshing(i)'
<1>1. i \in Callers /\ Slots \subseteq Callers
  BY CallersAssumption
<1>2. /\ task' = [k \in Slots |-> task'[k]] /\ task'[i] = Idle
      /\ \A k \in Slots \ {i} : task'[k] = task[k]
  BY DEF ResultsInv, Finish
<1>3. \A k \in Slots \ {i} : call'[k] = call[k]
  BY <1>1 DEF CallsOk, Finish
<1>4. QED BY <1>2, <1>3 DEF OneSlot, Refreshing

\* A handler ends without results to show.
LEMMA HandlerEnds ==
  ASSUME CallsOk, ResultsInv, NEW i \in Slots, Finish(i), UNCHANGED << version, generation >>,
         results' \in {results, NoResults}
  PROVE  ResultsInv' /\ NotOlder
<1>1. /\ OneSlot(i) /\ task' = [k \in Slots |-> task'[k]] /\ ~Refreshing(i)'
  BY FinishedSlot
<1>2. \A k \in Slots : Refreshing(k)' =>
         Refreshing(k) /\ task'[k].gen = task[k].gen /\ call'[k] = call[k]
  BY <1>1 DEF OneSlot, Refreshing
<1>3. version' \in Nat /\ version <= version'
  BY DEF ResultsInv
<1>4. QED BY <1>1, <1>2, <1>3, ResultsKeep

\* A handler that is no refresh sends a request.
LEMMA HandlerAsks ==
  ASSUME CallsOk, ResultsInv, NEW i \in Slots, UNCHANGED << version, generation, results >>,
         \A k \in Slots \ {i} : task'[k] = task[k], task' = [k \in Slots |-> task'[k]],
         NEW route, route \notin RefreshRoutes, NEW token, NEW a, NEW item, Await(i, route, token, a, item)
  PROVE  ResultsInv' /\ NotOlder
<1>1. /\ \A k \in Slots \ {i} : call'[k] = call[k]
      /\ call'[i].route = route
  BY SlotCall
<1>2. ~Refreshing(i)'
  BY <1>1 DEF Refreshing, RefreshRoutes
<1>3. \A k \in Slots : Refreshing(k)' =>
         Refreshing(k) /\ task'[k].gen = task[k].gen /\ call'[k] = call[k]
  BY <1>1, <1>2 DEF Refreshing
<1>4. version' \in Nat /\ version <= version'
  BY DEF ResultsInv
<1>5. QED BY <1>3, <1>4, ResultsKeep

\* A refresh asks for the next part.
LEMMA RefreshGoesOn ==
  ASSUME CallsOk, ResultsInv, NEW i \in Slots, Refreshing(i),
         UNCHANGED << version, generation, task, results >>,
         NEW route, NEW token, NEW a, NEW item, Await(i, route, token, a, item),
         route = "results" => item # NoItem
  PROVE  ResultsInv' /\ NotOlder
<1>1. /\ \A k \in Slots \ {i} : call'[k] = call[k]
      /\ call'[i].route = route /\ call'[i].item = item /\ call'[i].code = 0
  BY SlotCall
<1>2. \A k \in Slots : Refreshing(k)' => Refreshing(k) /\ task'[k].gen = task[k].gen
  BY <1>1 DEF Refreshing
<1>3. \A k \in Slots : call'[k].route = "results" =>
         call'[k] = call[k] \/ (call'[k].item # NoItem /\ call'[k].code = 0)
  BY <1>1
<1>4. version' \in Nat /\ version <= version' /\ task' = [k \in Slots |-> task'[k]]
  BY DEF ResultsInv
<1>5. QED BY <1>2, <1>3, <1>4, ResultsKeep

\* A handler takes the next generation.
LEMMA RefreshBegins ==
  ASSUME CallsOk, ResultsInv, NEW i \in Slots, UNCHANGED version, results' \in {results, NoResults},
         generation' = generation + 1,
         NEW op, NEW sel, task' = [task EXCEPT ![i] = [op |-> op, gen |-> generation + 1, sel |-> sel]],
         NEW route \in {"accounts", "notes"}, NEW token, NEW a, NEW item, Await(i, route, token, a, item)
  PROVE  ResultsInv' /\ NotOlder
<1>1. /\ \A k \in Slots \ {i} : call'[k] = call[k]
      /\ call'[i].route = route
  BY SlotCall
<1>2. /\ task' = [k \in Slots |-> task'[k]] /\ task'[i].gen = generation + 1
      /\ \A k \in Slots \ {i} : task'[k] = task[k]
  BY DEF ResultsInv
<1>3. OneSlot(i)
  BY <1>1, <1>2 DEF OneSlot
<1>4. QED BY <1>1, <1>2, <1>3, ResultsBegin

\* A call is answered or lost: what it read is as it is now.
LEMMA CallAnswered ==
  ASSUME CallsOk, ResultsInv, NEW c \in Callers, NEW code, NEW set, NEW a, Reply(c, code, set, a),
         UNCHANGED << version, generation, task, results >>
  PROVE  ResultsInv' /\ NotOlder
<1>0. Slots \subseteq Callers
  BY CallersAssumption
<1>1. /\ call'[c].route = call[c].route /\ call'[c].item = call[c].item
      /\ call[c].route = "results" => call'[c].version = version
      /\ \A k \in Callers \ {c} : call'[k] = call[k]
  BY DEF CallsOk, Reply
<1>2. \A k \in Slots : Refreshing(k)' => Refreshing(k) /\ task'[k].gen = task[k].gen
  BY <1>0, <1>1 DEF Refreshing
<1>3. \A k \in Slots : call'[k].route = "results" =>
         \/ call'[k] = call[k]
         \/ call[k].route = "results" /\ call'[k].item = call[k].item /\ call'[k].version = version
  BY <1>0, <1>1
<1>4. version' \in Nat /\ version <= version' /\ task' = [k \in Slots |-> task'[k]]
  BY DEF ResultsInv
<1>5. QED BY <1>2, <1>3, <1>4, ResultsKeep

\* Steps that concern no handler of the tab.
LEMMA ResultsRest ==
  ASSUME ResultsInv, UNCHANGED << generation, task, results >>, \A k \in Slots : call'[k] = call[k],
         version' = version \/ version' = version + 1
  PROVE  ResultsInv' /\ NotOlder
<1>1. \A k \in Slots : Refreshing(k)' => Refreshing(k) /\ task'[k].gen = task[k].gen
  BY DEF Refreshing
<1>2. version' \in Nat /\ version <= version' /\ task' = [k \in Slots |-> task'[k]]
  BY DEF ResultsInv
<1>3. QED BY <1>1, <1>2, ResultsKeep

\* Handlers that start.
LEMMA UserResults ==
  ASSUME CallsOk, ResultsInv, NEW i \in Slots, UserActs(i)
  PROVE  ResultsInv' /\ NotOlder
<1> USE DEF RefreshRoutes
<1>1. CASE Load(i)
  <2>1. /\ Await(i, "session", jar, NoAccount, NoItem)
        /\ task' = [k \in Slots |->
               IF k = i THEN [op |-> "boot", gen |-> 0, sel |-> NoItem]
               ELSE IF task[k] = Idle THEN Idle ELSE [op |-> "gone"]]
        /\ UNCHANGED << version, generation >> /\ results' = NoResults
    BY <1>1 DEF Load
  <2>2. call'[i].route = "session"
    BY <2>1, SlotCall
  <2>3. \A k \in Slots : ~Refreshing(k)'
    <3>1. ASSUME NEW k \in Slots PROVE k = i \/ task'[k] = Idle \/ task'[k].op = "gone"
      <4>1. CASE task[k] = Idle
        BY <2>1, <4>1
      <4>2. CASE task[k] # Idle /\ k # i
        <5>1. task'[k] = [op |-> "gone"]
          BY <2>1, <4>2
        <5>2. QED BY <5>1
      <4>3. QED BY <4>1, <4>2
    <3>2. QED BY <2>2, <3>1 DEF Refreshing
  <2>4. version' \in Nat /\ version <= version' /\ task' = [k \in Slots |-> task'[k]]
    BY <2>1 DEF ResultsInv
  <2>5. QED BY <2>1, <2>3, <2>4, ResultsKeep
<1>2. CASE Retry(i)
  BY <1>2, RefreshBegins DEF Retry, RefreshWorkspace, shown
<1>3. CASE TimerTicks(i)
  BY <1>3, RefreshBegins DEF TimerTicks, RefreshWorkspace, shown
<1>4. CASE SelectAssessment(i)
  BY <1>4, RefreshBegins DEF SelectAssessment, RefreshResults
<1>5. CASE RefreshCurrentResults(i)
  BY <1>5, RefreshBegins DEF RefreshCurrentResults, RefreshResults, shown
<1>6. CASE AskMove(i)
  <2>1. PICK route \in {"switch", "accept"}, a \in Accounts \ {active} : Await(i, route, jar, a, NoItem)
    BY <1>6 DEF AskMove
  <2>2. UNCHANGED << version, generation, results >>
    BY <1>6 DEF AskMove, shown
  <2>3. /\ task' = [k \in Slots |-> task'[k]] /\ \A k \in Slots \ {i} : task'[k] = task[k]
    BY <1>6 DEF AskMove, ResultsInv
  <2>4. QED BY <2>1, <2>2, <2>3, HandlerAsks
<1>7. CASE AskChange(i)
  <2>1. PICK route \in {"submit", "change"} : Await(i, route, jar, active, NoItem)
    BY <1>7 DEF AskChange
  <2>2. UNCHANGED << version, generation, results >>
    BY <1>7 DEF AskChange, shown
  <2>3. /\ task' = [k \in Slots |-> task'[k]] /\ \A k \in Slots \ {i} : task'[k] = task[k]
    BY <1>7 DEF AskChange, ResultsInv
  <2>4. QED BY <2>1, <2>2, <2>3, HandlerAsks
<1>8. CASE Logout(i)
  <2>1. Await(i, "logout", jar, NoAccount, NoItem) /\ UNCHANGED << version, generation, results >>
    BY <1>8 DEF Logout, shown
  <2>2. /\ task' = [k \in Slots |-> task'[k]] /\ \A k \in Slots \ {i} : task'[k] = task[k]
    BY <1>8 DEF Logout, ResultsInv
  <2>3. QED BY <2>1, <2>2, HandlerAsks
<1>9. QED BY <1>1, <1>2, <1>3, <1>4, <1>5, <1>6, <1>7, <1>8 DEF UserActs

\* Handlers that get an answer, or none.
LEMMA ContinueResults ==
  ASSUME CallsOk, ResultsInv, NEW i \in Slots, Continue(i) \/ AnswerLost(i)
  PROVE  ResultsInv' /\ NotOlder
<1> USE DEF RefreshRoutes, shown
<1>0. /\ task' = task => task' = [k \in Slots |-> task'[k]] /\ \A k \in Slots \ {i} : task'[k] = task[k]
  BY DEF ResultsInv
<1>1. CASE GotMove(i)
  <2>1. CASE Ok(i)
    BY <1>0, <1>1, <2>1, HandlerAsks DEF GotMove
  <2>2. CASE ~Ok(i)
    BY <1>1, <2>2, HandlerEnds DEF GotMove
  <2>3. QED BY <2>1, <2>2
<1>2. CASE GotChange(i)
  <2>1. CASE Ok(i)
    BY <1>2, <2>1, RefreshBegins DEF GotChange, RefreshWorkspace
  <2>2. CASE ~Ok(i)
    BY <1>2, <2>2, HandlerEnds DEF GotChange
  <2>3. QED BY <2>1, <2>2
<1>3. CASE GotSession(i)
  <2>1. CASE Ok(i)
    BY <1>3, <2>1, RefreshBegins DEF GotSession, RefreshWorkspace
  <2>2. CASE ~Ok(i)
    BY <1>3, <2>2, HandlerEnds DEF GotSession
  <2>3. QED BY <2>1, <2>2
<1>4. CASE GotAccounts(i)
  <2>0. Refreshing(i) /\ UNCHANGED << version, generation, results >>
    BY <1>4 DEF GotAccounts, Awaiting, Refreshing
  <2>1. CASE EndRefresh(i)
    BY <2>0, <2>1, HandlerEnds DEF EndRefresh
  <2>2. CASE /\ UNCHANGED task
             /\ \E route \in {"lists", "notes"} : Await(i, route, jar, call[i].active, NoItem)
    BY <2>0, <2>2, RefreshGoesOn
  <2>3. QED BY <1>4, <2>1, <2>2 DEF GotAccounts
<1>5. CASE GotLists(i)
  <2>0. Refreshing(i) /\ UNCHANGED << version, generation, results >>
    BY <1>5 DEF GotLists, Awaiting, Refreshing
  <2>1. CASE EndRefresh(i)
    BY <2>0, <2>1, HandlerEnds DEF EndRefresh
  <2>2. CASE UNCHANGED task /\ Await(i, "notes", jar, call[i].account, selected')
    BY <2>0, <2>2, RefreshGoesOn
  <2>3. QED BY <1>5, <2>1, <2>2 DEF GotLists
<1>6. CASE GotNotes(i)
  <2>0. Refreshing(i) /\ UNCHANGED << version, generation >>
    BY <1>6 DEF GotNotes, Awaiting, Refreshing
  <2>1. CASE EndRefresh(i) /\ results' \in {results, NoResults}
    BY <2>0, <2>1, HandlerEnds DEF EndRefresh
  <2>2. CASE /\ UNCHANGED << task, results >> /\ call[i].item # NoItem
             /\ Await(i, "results", jar, call[i].account, call[i].item)
    BY <2>0, <2>2, RefreshGoesOn
  <2>3. QED BY <1>6, <2>1, <2>2 DEF GotNotes
<1>7. CASE GotResults(i)
  <2>0. /\ Refreshing(i) /\ call[i].route = "results" /\ call[i].code # 0
        /\ Finish(i) /\ UNCHANGED << version, generation >>
    BY <1>7 DEF GotResults, Awaiting, Answered, Refreshing, EndRefresh
  <2>1. CASE ~IsStale(i) /\ Ok(i)
    <3>1. Current(i)
      BY <2>0, <2>1 DEF IsStale, Current
    <3>2. results' = [item |-> call[i].item, version |-> call[i].version]
      BY <1>7, <2>1 DEF GotResults, Ok, IsStale
    <3>3. OneSlot(i) /\ task' = [k \in Slots |-> task'[k]] /\ task'[i] = Idle
      BY <2>0, FinishedSlot
    <3>4. QED BY <2>0, <3>1, <3>2, <3>3, ResultsShown
  <2>2. CASE IsStale(i) \/ ~Ok(i)
    <3>1. results' \in {results, NoResults}
      BY <1>7, <2>2 DEF GotResults, Ok, IsStale
    <3>2. QED BY <2>0, <3>1, HandlerEnds
  <2>3. QED BY <2>1, <2>2
<1>8. CASE GotLogout(i)
  BY <1>8, HandlerEnds DEF GotLogout
<1>9. CASE GotByNobody(i)
  BY <1>9, HandlerEnds DEF GotByNobody
<1>10. CASE AnswerLost(i)
  BY <1>10, CallAnswered, CallersAssumption DEF AnswerLost, page
<1>11. QED BY <1>1, <1>2, <1>3, <1>4, <1>5, <1>6, <1>7, <1>8, <1>9, <1>10 DEF Continue

\* No refresh is under way at the start.
LEMMA ResultsInit == InitConsole => ResultsInv
<1> SUFFICES ASSUME InitConsole PROVE ResultsInv
  OBVIOUS
<1>1. /\ task = [i \in Slots |-> Idle] /\ version = 0 /\ generation = 0 /\ results.version = 0
  BY DEF InitConsole, InitServer
<1>2. \A i \in Slots : ~Refreshing(i)
  BY <1>1 DEF Refreshing
<1>3. QED BY <1>1, <1>2 DEF ResultsInv, ReadingOk, Current

\* Every step keeps the invariant of the refreshes and shows nothing older.
LEMMA ResultsStep == JarInv /\ ResultsInv /\ [Next]_vars => ResultsInv' /\ NotOlder
<1> SUFFICES ASSUME CallsOk, ResultsInv, [Next]_vars PROVE ResultsInv' /\ NotOlder
  BY DEF JarInv
<1> USE DEF serverVars, page, shown
<1>1. CASE \E i \in Slots : UserActs(i)
  BY <1>1, UserResults
<1>2. CASE \E i \in Slots : (Continue(i) \/ AnswerLost(i)) /\ UNCHANGED rounds
  BY <1>2, ContinueResults
<1>3. CASE (\E f \in Flows : LogIn(f)) /\ UNCHANGED rounds
  <2>1. PICK f \in Flows : LogIn(f)
    BY <1>3
  <2>2. \A k \in Slots : call'[k] = call[k]
    <3>1. call' = call \/ \E r : call' = [call EXCEPT ![f] = r]
      BY <2>1 DEF LogIn, GitHubStart, GoogleStart, Start, ReturnFromProvider, GotCallback, Await
    <3>2. Slots \subseteq Callers /\ f \notin Slots
      BY CallersAssumption
    <3>3. QED BY <3>1, <3>2 DEF CallsOk
  <2>3. UNCHANGED << version, generation, task, results >>
    BY <2>1 DEF LogIn, GitHubStart, GoogleStart, Start, ReturnFromProvider, GotCallback
  <2>4. QED BY <2>2, <2>3, ResultsRest
<1>4. CASE LoginCookieLapses /\ UNCHANGED rounds
  BY <1>4, ResultsRest DEF LoginCookieLapses
<1>5. CASE ServerActs /\ UNCHANGED rounds
  <2>0. UNCHANGED << generation, task, results >>
    BY <1>5 DEF ServerActs
  <2>1. CASE \E c \in Callers : Serve(c) \/ ServeUnaudited(c) \/ ServeFails(c)
    <3>1. PICK c \in Callers : Serve(c) \/ ServeUnaudited(c) \/ ServeFails(c)
      BY <2>1
    <3>2. UNCHANGED version
      BY <3>1 DEF Serve, ServeSession, ServeSwitch, ServeAccept, ServeLogout, ServeAccounts, ServeScoped,
                  ServeGitHubCallback, ServeGoogleCallback, Callback, ServeUnaudited, ServeFails
    <3>4. \E code, set, a : Reply(c, code, set, a)
      <4> SUFFICES ASSUME \A code, set, a : ~Reply(c, code, set, a) PROVE FALSE
        OBVIOUS
      <4>1. ~ServeSession(c) /\ ~ServeSwitch(c) /\ ~ServeAccept(c) /\ ~ServeLogout(c)
        BY DEF ServeSession, ServeSwitch, ServeAccept, ServeLogout
      <4>2. ~ServeAccounts(c) /\ ~ServeScoped(c) /\ \A provider : ~Callback(c, provider)
        BY DEF ServeAccounts, ServeScoped, Callback
      <4>3. ~ServeUnaudited(c) /\ ~ServeFails(c)
        BY DEF ServeUnaudited, ServeFails
      <4>4. QED BY <3>1, <4>1, <4>2, <4>3 DEF Serve, ServeGitHubCallback, ServeGoogleCallback
    <3>5. QED BY <2>0, <3>2, <3>4, CallAnswered
  <2>2. CASE Progress
    BY <2>0, <2>2, ResultsRest DEF Progress
  <2>3. CASE SessionsEnd
    BY <2>0, <2>3, ResultsRest DEF SessionsEnd
  <2>4. QED BY <1>5, <2>1, <2>2, <2>3 DEF ServerActs
<1>6. CASE UNCHANGED vars
  BY <1>6, ResultsRest DEF vars
<1>7. QED BY <1>1, <1>2, <1>3, <1>4, <1>5, <1>6 DEF Next

\* At most one handler refreshes for the generation that counts, and what it read is
\* at least as new as what is shown.
THEOREM RefreshInvariant == Spec => []ResultsInv
<1>1. JarInv /\ ResultsInv /\ [Next]_vars => ResultsInv'
  BY ResultsStep
<1>2. QED BY <1>1, ResultsInit, CookiesInvariant, PTL DEF Spec

\* The results shown of one assessment are never replaced by an older reading
\* (App.tsx:288).
THEOREM ResultsForward == Spec => ResultsNeverGoBack
<1>1. JarInv /\ ResultsInv /\ [Next]_vars =>
        [results'.item = results.item => results'.version >= results.version]_vars
  BY ResultsStep DEF NotOlder
<1>2. QED BY <1>1, RefreshInvariant, CookiesInvariant, PTL DEF Spec, ResultsNeverGoBack
=============================================================================
