------------------------------- MODULE Scope -------------------------------
(***************************************************************************)
(* The target-scope primitives of packages/policy: what a written host, URL *)
(* or rule is reduced to, which hosts and addresses are never assessed, and *)
(* when a URL is inside a compiled scope.                                  *)
(*                                                                         *)
(* A written text is a record of what its parser tells apart.  A HOST is   *)
(* [v |-> "name", labels |-> ...], [v |-> "v4", octets |-> ...] or         *)
(* [v |-> "v6", groups |-> ...]; a written host adds the number of dots    *)
(* at its end and whether it holds a character no host may hold.  A path   *)
(* is the sequence of what stands between its slashes: "/" is <<"">>,      *)
(* "/a/b" is <<"a", "b">>, "/a/" is <<"a", "">>.  The marks of a URL or a  *)
(* rule name the things the parsers refuse.                                *)
(***************************************************************************)
EXTENDS Integers, SequencesExt

Ok(value) == [ok |-> TRUE, value |-> value]
Failure(code) == [ok |-> FALSE, code |-> code]

(* What a parser that makes its checks in this order reports: the code of the
   first that fails. *)
Fails(checks, i) == checks[i][1]
FirstCode(checks) ==
  IF \E i \in DOMAIN checks : Fails(checks, i)
  THEN checks[CHOOSE i \in DOMAIN checks : /\ Fails(checks, i)
                                          /\ \A j \in 1..(i - 1) : ~Fails(checks, j)][2]
  ELSE "ok"

(* Of the codes of a list, the first that is not "ok". *)
CheckOf(code) == <<code # "ok", code>>
FirstFault(codes) == FirstCode([i \in DOMAIN codes |-> CheckOf(codes[i])])

Checked(code, value) == IF code = "ok" THEN Ok(value) ELSE Failure(code)

NoHost == [v |-> "none"]
NoPort == 0     \* A port that was written and is none is -1.

(***************************************************************************)
(* Addresses.  parseIPv6 is given the groups on each side of "::".         *)
(***************************************************************************)
ParseIPv4(pieces) ==
  IF /\ Len(pieces) = 4
     /\ \A i \in 1..4 : pieces[i] \in 0..255
  THEN [v |-> "v4", octets |-> pieces]
  ELSE NoHost

Zeros(n) == [i \in 1..n |-> 0]

ParseIPv6(left, right, compressed) ==
  LET written == Len(left) + Len(right)
      groups == IF compressed THEN left \o Zeros(8 - written) \o right ELSE left
  IN IF /\ IF compressed THEN written < 8 ELSE right = <<>> /\ written = 8
        /\ \A i \in 1..Len(left) : left[i] \in 0..65535
        /\ \A i \in 1..Len(right) : right[i] \in 0..65535
     THEN [v |-> "v6", groups |-> groups]
     ELSE NoHost

(* The zeros that canonicalIPv6 leaves out: the first longest run of two or
   more; 0 when there is none. *)
Run(g, i, n) == /\ i + n - 1 <= 8
                /\ \A k \in i..(i + n - 1) : g[k] = 0
RunLength(g) == LET S == {n \in 2..8 : \E i \in 1..8 : Run(g, i, n)}
                IN IF S = {} THEN 0 ELSE CHOOSE n \in S : \A m \in S : m <= n
RunStart(g, n) == IF n = 0 THEN 0
                  ELSE CHOOSE i \in 1..8 : /\ Run(g, i, n)
                                           /\ \A j \in 1..(i - 1) : ~Run(g, j, n)

(* What canonicalIPv6 writes, in the form parseIPv6 is given, when the n groups
   from i on are left out.  Eight zeros are written ":", which has two empty
   pieces and no "::". *)
WriteIPv6(g, n, i) ==
  CASE n = 8 -> [left |-> <<"", "">>, right |-> <<>>, compressed |-> FALSE]
    [] n = 0 -> [left |-> g, right |-> <<>>, compressed |-> FALSE]
    [] OTHER -> [left |-> SubSeq(g, 1, i - 1), right |-> SubSeq(g, i + n, 8),
                 compressed |-> TRUE]
CanonicalIPv6(g) == WriteIPv6(g, RunLength(g), RunStart(g, RunLength(g)))

ForbiddenIPv4(o) ==
  \/ o[1] \in {0, 10, 127} \/ o[1] >= 224
  \/ o[1] = 100 /\ o[2] \in 64..127
  \/ o[1] = 169 /\ o[2] = 254
  \/ o[1] = 172 /\ o[2] \in 16..31
  \/ o[1] = 192 /\ (o[2] = 168 \/ (o[2] = 0 /\ o[3] \in {0, 2}) \/ (o[2] = 88 /\ o[3] = 99))
  \/ o[1] = 198 /\ (o[2] \in {18, 19} \/ (o[2] = 51 /\ o[3] = 100))
  \/ o[1] = 203 /\ o[2] = 0 /\ o[3] = 113

Mapped(g) == /\ \A i \in 1..5 : g[i] = 0
             /\ g[6] = 65535

(* Only 2000::/3 is global unicast; within it Teredo, benchmarks, ORCHIDs,
   documentation, 6to4 and 3fff::/20 are refused. *)
ForbiddenIPv6(g) ==
  IF Mapped(g)
  THEN ForbiddenIPv4(<<g[7] \div 256, g[7] % 256, g[8] \div 256, g[8] % 256>>)
  ELSE \/ ~(g[1] \in 8192..16383)
       \/ g[1] = 8194
       \/ g[1] = 8193 /\ (g[2] \in {0, 2, 3512} \/ g[2] \in 16..47)
       \/ g[1] = 16383 /\ g[2] < 4096

(***************************************************************************)
(* Hosts.                                                                  *)
(***************************************************************************)
ForbiddenNames == {<<"localhost">>, <<"metadata">>, <<"instance-data">>,
                   <<"metadata", "google", "internal">>, <<"instance-data", "ec2", "internal">>}
ReservedSuffixes == {"internal", "local", "localhost", "test", "invalid", "example"}

ForbiddenName(labels) == \/ labels \in ForbiddenNames
                         \/ Len(labels) > 1 /\ labels[Len(labels)] \in ReservedSuffixes

IsForbiddenAddress(host) ==
  CASE host.v = "name" -> ForbiddenName(host.labels)
    [] host.v = "v4" -> ForbiddenIPv4(host.octets)
    [] host.v = "v6" -> ForbiddenIPv6(host.groups)
    [] OTHER -> FALSE

IsIp(host) == host.v \in {"v4", "v6"}
IsName(host) == host.v = "name"

(* A text that no parser reads: what canonicalIPv6 makes of eight zeros. *)
Unreadable == [v |-> "text"]

ReadAgain(w) == ParseIPv6(w.left, w.right, w.compressed)

CanonicalIp(host) ==
  IF host.v = "v6" /\ ReadAgain(CanonicalIPv6(host.groups)) # host THEN Unreadable ELSE host

(* One dot at the end is dropped, two are refused, and no dot may follow an
   IPv6 address.  written.host is what the URL parser reads: a number is an
   address, a name is in lower case. *)
CanonicalizeHost(written) ==
  IF \/ written.stray
     \/ ~(IsIp(written.host) \/ IsName(written.host))
     \/ written.dots > (IF written.host.v = "v6" THEN 0 ELSE 1)
     \/ /\ IsName(written.host)
        /\ \/ written.host.labels \in {<<>>, <<"">>}
           \/ \E i \in 2..Len(written.host.labels) : written.host.labels[i] = ""
  THEN NoHost
  ELSE CanonicalIp(written.host)

SurfaceHost(host) ==
  Checked(FirstCode(<< <<host = NoHost, "invalid_surface_host">>,
                       <<IsForbiddenAddress(host), "forbidden_surface_host">> >>), host)
NormalizeSurfaceHost(written) == SurfaceHost(CanonicalizeHost(written))

(***************************************************************************)
(* URLs.                                                                   *)
(***************************************************************************)
DefaultPort(scheme) == IF scheme = "https" THEN 443 ELSE 80
PortOf(scheme, port) == IF port = NoPort THEN DefaultPort(scheme) ELSE port

Plain(host) == [host |-> host, dots |-> 0, stray |-> FALSE]

Ports == 1..65535

UrlCode(u, host) ==
  FirstCode(<< <<{"encoded", "backslash"} \cap u.marks # {}, "ambiguous_path_encoding">>,
               <<"fragment" \in u.marks, "fragment_not_allowed">>,
               <<"credentials" \in u.marks, "credentials_not_allowed">>,
               <<"malformed" \in u.marks, "invalid_url">>,
               <<u.scheme \notin {"http", "https"}, "unsupported_protocol">>,
               <<host = NoHost, "invalid_url">>,
               <<IsForbiddenAddress(host), "forbidden_target">>,
               <<PortOf(u.scheme, u.port) \notin Ports, "invalid_url">> >>)

(* The normalized URL is the URL written anew, with its port always in port. *)
WrittenAnew(u, host) ==
  Checked(UrlCode(u, host),
          [scheme |-> u.scheme, host |-> Plain(host), port |-> PortOf(u.scheme, u.port),
           path |-> u.path, query |-> u.query, marks |-> {}])
NormalizeExternalUrl(u) == WrittenAnew(u, CanonicalizeHost(u.host))

TargetOrigin(target) == [scheme |-> target.scheme, host |-> target.host, port |-> target.port]

(***************************************************************************)
(* Rules.  A text rule is cut at its first "/", so that one that begins    *)
(* with a scheme has the authority "https:" and an empty port; in an       *)
(* object the wildcard may be asked for apart from the host's "*.".        *)
(***************************************************************************)
StripWildcard(path) == IF path[Len(path)] = "*" THEN Front(path) \o <<"">> ELSE path

(* Whatever slashes end the path are dropped; the prefix "/" is <<>>. *)
WithoutSlashes(path) ==
  LET kept == {i \in 1..Len(path) : path[i] # ""}
  IN IF kept = {} THEN <<>> ELSE SubSeq(path, 1, Max(kept))
NormalizeRulePath(path) == WithoutSlashes(StripWildcard(path))

(* Of several slashes nothing is left, not even the prefix "/". *)
Emptied(path) == Len(path) > 1 /\ WithoutSlashes(path) = <<>>

RuleCodeFor(rule, host) ==
  FirstCode(<<
    <<\/ "malformed" \in rule.marks
      \/ rule.form = "text" /\ {"blank", "query", "scheme"} \cap rule.marks # {}
      \/ rule.port \notin 0..65535, "invalid_rule">>,
    <<\/ rule.wildcard # rule.starred
      \/ rule.wildcard /\ IsName(rule.host.host) /\ "" \in ToSet(rule.host.host.labels),
      "invalid_wildcard">>,
    <<host = NoHost \/ IsForbiddenAddress(host), "forbidden_scope_rule">>,
    <<rule.wildcard /\ (IsName(host) => Len(host.labels) < 2), "invalid_wildcard">>,
    <<{"encoded", "backslash"} \cap rule.marks # {}, "ambiguous_path_encoding">>,
    <<"query" \in rule.marks \/ Emptied(StripWildcard(rule.path)), "invalid_rule">> >>)
RuleCode(rule) == RuleCodeFor(rule, CanonicalizeHost(rule.host))

CompileRule(rule) ==
  [host |-> CanonicalizeHost(rule.host), port |-> rule.port,
   pathPrefix |-> NormalizeRulePath(rule.path), wildcard |-> rule.wildcard]

CompileRules(rules) == [i \in DOMAIN rules |-> CompileRule(rules[i])]

(* The first rule that does not compile gives the error. *)
RulesCode(rules) == FirstFault([i \in DOMAIN rules |-> RuleCode(rules[i])])

CompileScope(input) ==
  Checked(RulesCode(input.inclusions \o input.exclusions),
          [inclusions |-> CompileRules(input.inclusions),
           exclusions |-> CompileRules(input.exclusions)])

(***************************************************************************)
(* Matching.  A wildcard stands for exactly one label.                     *)
(***************************************************************************)
PathMatches(prefix, path) == IsPrefix(prefix, path)

HostMatches(rule, host) ==
  IF rule.wildcard
  THEN /\ host.v = "name"
       /\ Len(host.labels) > 1
       /\ rule.host = [v |-> "name", labels |-> Tail(host.labels)]
  ELSE host = rule.host

RuleMatches(rule, target) ==
  /\ HostMatches(rule, target.host.host)
  /\ rule.port \in {NoPort, target.port}
  /\ PathMatches(rule.pathPrefix, target.path)

SomeMatch(rules, target) == \E i \in DOMAIN rules : RuleMatches(rules[i], target)

Within(scope, normalized) == /\ normalized.ok
                             /\ ~SomeMatch(scope.exclusions, normalized.value)
                             /\ SomeMatch(scope.inclusions, normalized.value)
MatchesScope(scope, candidate) == Within(scope, NormalizeExternalUrl(candidate))

(***************************************************************************)
(* Resolved addresses.  A host that is an address stands for itself,       *)
(* whatever was resolved; the first address that is refused gives the      *)
(* error.                                                                  *)
(***************************************************************************)
AddressCode(address) ==
  FirstCode(<< <<~IsIp(address), "invalid_resolved_address">>,
               <<IsForbiddenAddress(address), "forbidden_resolved_address">> >>)

ResolvedCode(host, addresses) ==
  FirstCode(<< <<host = NoHost, "invalid_hostname">>,
               <<IsForbiddenAddress(host), "forbidden_resolved_address">>,
               <<~IsIp(host) /\ addresses = <<>>, "resolved_addresses_required">>,
               CheckOf(IF IsIp(host) THEN "ok"
                     ELSE FirstFault([i \in DOMAIN addresses |-> AddressCode(addresses[i])])) >>)

AddressesFor(host, addresses) ==
  Checked(ResolvedCode(host, addresses), IF IsIp(host) THEN {host} ELSE ToSet(addresses))
ValidateResolvedAddresses(hostname, addresses) ==
  AddressesFor(CanonicalizeHost(hostname), addresses)
=============================================================================
