--------------------------- MODULE MCCustomerApi ---------------------------
(***************************************************************************)
(* An instance of CustomerApi for TLC: two requests at a time, a pool of   *)
(* two connections, two accounts.                                          *)
(***************************************************************************)
EXTENDS CustomerApi, TLC

CONSTANTS alice, acme, other

Name(labels) == [v |-> "name", labels |-> labels]
Written(labels, dots) == [host |-> Name(labels), dots |-> dots, stray |-> FALSE]
Target(scheme, labels, dots, port) ==
  [scheme |-> scheme, host |-> Written(labels, dots), port |-> port, path |-> <<"">>,
   query |-> "none", spelling |-> "plain", marks |-> {}]
Rule(labels, wildcard) ==
  [form |-> "text", host |-> Written(labels, 0), port |-> NoPort, path |-> <<"">>,
   wildcard |-> wildcard, starred |-> wildcard, marks |-> {}]
Input(category, target, scope) == [category |-> category, target |-> target, scope |-> scope]

Site == <<"www", "acme", "com">>
Domain == <<"acme", "com">>

Plainly == Input("surface", Target("none", Site, 0, NoPort), <<>>)
ByWildcard == Input("surface", Target("https", Site, 0, NoPort), <<Rule(Domain, TRUE)>>)
OutOfScope == Input("surface", Target("none", Site, 0, NoPort), <<Rule(Domain, FALSE)>>)
UrlAlone == Input("surface", Target("https", Site, 0, NoPort), <<>>)
Dotted == Input("surface", Target("none", Site, 1, NoPort), <<Rule(Site, FALSE)>>)
LocalHost == Input("surface", Target("none", <<"localhost">>, 0, NoPort), <<Rule(Domain, FALSE)>>)
OddPort == Input("surface", Target("none", Site, 0, 8443), <<>>)
WithQuery == Input("surface",
                   [Target("none", Site, 0, NoPort) EXCEPT !.query = "x=1", !.spelling = "?x=1"],
                   <<Rule(Domain, TRUE)>>)
NotSurface == Input("web", Target("none", Site, 0, NoPort), <<>>)

AllInputs == {Plainly, ByWildcard, OutOfScope, UrlAlone, Dotted, LocalHost, OddPort, WithQuery,
              NotSurface}
LawfulInputs == {Plainly, ByWildcard, WithQuery}

V4(a, b, c, d) == [v |-> "v4", octets |-> <<a, b, c, d>>]
PublicAddress == <<V4(93, 184, 216, 34)>>
MixedAddresses == <<V4(93, 184, 216, 34), V4(10, 0, 0, 1)>>
AllResolutions == {PublicAddress, MixedAddresses, <<>>}
PublicResolutions == {PublicAddress}

Draft(t, input) == Row(t, alice, input)
Queued(t, input) == [Draft(t, input) EXCEPT !.status = "queued", !.resolved = PublicAddress]
Done(t, input) == [Queued(t, input) EXCEPT !.status = "completed", !.notice = "unread"]

Ask(n, kind, t, a) == [number |-> n, kind |-> kind, user |-> alice, account |-> t, id |-> a,
                       input |-> NoRow]
Create(n, input) == [Ask(n, "create", acme, 0) EXCEPT !.input = input]
Rows(first, second) == <<first, second, NoRow>>
Scenario(rows, requests) == [rows |-> rows, requests |-> requests]

SomeScenarios ==
  {Scenario(Rows(Draft(acme, i), NoRow), {Ask(1, "queue", acme, 1)}) :
      i \in {OutOfScope, UrlAlone, Dotted, LocalHost, OddPort}}
    \cup {Scenario(Rows(Draft(acme, ByWildcard), NoRow),
                  {Ask(1, "queue", acme, 1), Ask(2, "queue", acme, 1)}),
          Scenario(Rows(Draft(acme, Plainly), Draft(acme, ByWildcard)),
                  {Ask(1, "queue", acme, 1), Ask(2, "queue", acme, 2)}),
          Scenario(Rows(Queued(acme, Plainly), Draft(acme, WithQuery)),
                  {Ask(1, "queue", acme, 2)}),
          Scenario(Rows(Done(acme, Plainly), Draft(acme, ByWildcard)),
                  {Ask(1, "queue", acme, 2)}),
          Scenario(Rows(Draft(acme, Plainly), Draft(other, Plainly)),
                  {Ask(1, "queue", acme, 2), Ask(2, "queue", other, 1)}),
          Scenario(Rows(Queued(acme, Plainly), NoRow),
                  {Ask(1, "delivery", acme, 1), Ask(2, "mark", acme, 1)}),
          Scenario(Rows(Done(acme, Plainly), NoRow),
                  {Ask(1, "mark", acme, 1), Ask(2, "mark", acme, 1)}),
          Scenario(Rows(Done(acme, Plainly), NoRow),
                  {Ask(1, "list", acme, 0), Create(2, NotSurface), Ask(3, "list", other, 0)}),
          Scenario(Rows(Done(acme, Plainly), NoRow),
                  {Ask(1, "download", acme, 1), Ask(2, "reports", acme, 0)}),
          Scenario(Rows(NoRow, NoRow), {Create(1, Plainly), Create(2, Plainly)})}

Member(t, m, s, p) == [account |-> t, role |-> m, status |-> s, plan |-> p]
MemberStates == {Member(acme, "owner", "active", "pro"),
                 Member(acme, "viewer", "active", "free_unverified"),
                 Member(other, "owner", "active", "free_unverified"),
                 Member(acme, "owner", "suspended", "pro")}
MembersAtFirst == {[u \in Users |-> Member(acme, "owner", "active", "pro")]}

(***************************************************************************)
(* The catalog of the migrations, and catalogs with one thing wrong.       *)
(***************************************************************************)
Enqueue6 == [name |-> "queue_enqueue", definer |-> TRUE, shipped |-> TRUE]
Matches == [name |-> "rls_tenant_matches", definer |-> FALSE, shipped |-> TRUE]

Shipped ==
  [flags |-> {}, members |-> {<<"login", "api_rls", TRUE>>},
   tables |-> {<<"api_rls", "assessment", "INSERT">>, <<"api_rls", "report", "SELECT">>},
   functions |-> {<<"api_rls", Enqueue6>>, <<"api_rls", Matches>>}]

SomeCatalogs == {Shipped, [Shipped EXCEPT !.flags = {<<"api_rls", "owns_table">>}],
                 [Shipped EXCEPT !.tables = @ \cup {<<"api_rls", "job", "UPDATE">>}]}

(* What is a hypothesis of the proofs about the jobs holds of the engine for these
   inputs and resolutions. *)
ASSUME PolicyAssumption == PolicySound
=============================================================================
