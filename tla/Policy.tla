------------------------------- MODULE Policy -------------------------------
(***************************************************************************)
(* The policy engine: authorize reduces a request, with the facts the      *)
(* server holds, to a decision.  Every check is made and every code is     *)
(* kept; only a request with no code is allowed.  The codes are a set, for *)
(* their order is told to nobody.  Times are numbers, identities are       *)
(* values, and the fingerprint of a scope is the scope.  "made" says that  *)
(* an object is one the engine's own factory returned.                     *)
(***************************************************************************)
EXTENDS Limits

Never == -1
NoFact == [v |-> "none"]

When(condition, code) == IF condition THEN {code} ELSE {}
Codes(code) == {code} \ {"ok"}

(***************************************************************************)
(* Contexts and entitlements.                                              *)
(***************************************************************************)
FingerprintScope(scope) == scope

CreatePolicyContext(input, scope) ==
  [made |-> TRUE, accountId |-> input.accountId, assessmentId |-> input.assessmentId,
   userId |-> input.userId, evaluatedAt |-> input.evaluatedAt,
   scopeFingerprint |-> FingerprintScope(scope)]

(* What both the factory and the parser ask of a plan's source.  Of an
   identifier only its form is kept. *)
SourceFits(e) ==
  CASE e.plan = "free_unverified" -> /\ e.source = "baseline" /\ e.sourceId = "null"
                                     /\ e.expiresAt = Never
    [] e.plan = "free_verified" -> e.source = "http_verification" /\ e.sourceId = "uuid"
    [] e.plan = "pro" -> e.source = "stripe_webhook" /\ e.sourceId = "event"
    [] e.plan = "lifetime" -> /\ e.source = "stripe_webhook" /\ e.sourceId = "event"
                              /\ e.expiresAt = Never
    [] OTHER -> FALSE

(* The factory throws where this is false. *)
EntitlementAccepted(e, context) ==
  /\ e.plan \in Plans
  /\ e.grantedAt <= context.evaluatedAt
  /\ e.expiresAt # Never => e.expiresAt > e.grantedAt
  /\ SourceFits(e)
  /\ e.plan \in {"free_verified", "pro"} =>
       e.expiresAt # Never /\ e.expiresAt > context.evaluatedAt

CreatePolicyEntitlement(e, context) ==
  Checked(IF EntitlementAccepted(e, context) THEN "ok" ELSE "invalid_entitlement",
          [made |-> TRUE, account |-> context.accountId, plan |-> e.plan, source |-> e.source,
           sourceId |-> e.sourceId, grantedAt |-> e.grantedAt, expiresAt |-> e.expiresAt])

ParseEntitlement(e, context) ==
  FirstCode(<< <<~e.made \/ ~context.made \/ e.account # context.accountId, "invalid_entitlement">>,
               <<e.plan \notin Plans \/ e.grantedAt > context.evaluatedAt, "invalid_entitlement">>,
               <<e.expiresAt # Never /\ e.expiresAt <= context.evaluatedAt, "entitlement_expired">>,
               <<~SourceFits(e) \/ (e.plan = "pro" /\ e.expiresAt = Never),
                 "invalid_entitlement">> >>)

(***************************************************************************)
(* The one published playbook, which the parser accepts to the letter.     *)
(***************************************************************************)
CanonicalAction(id, type, method, requests, durationS) ==
  [id |-> id, type |-> type, allowedTargets |-> "scope", method |-> method,
   limit |-> [requests |-> requests, durationS |-> durationS]]

CanonicalActions ==
  << CanonicalAction("dns.records", "dns_lookup", "none", 1, 30),
     CanonicalAction("tls.cert", "tls_probe", "none", 1, 30),
     CanonicalAction("http.headers", "http_probe", "GET", 5, 30),
     CanonicalAction("robots.txt", "robots_fetch", "GET", 1, 30),
     CanonicalAction("sitemap.xml", "sitemap_fetch", "GET", 1, 30),
     CanonicalAction("endpoint.minimal", "endpoint_probe", "GET", 2, 60) >>

ActionIds == {CanonicalActions[i].id : i \in 1..6}

CanonicalLimits == [durationS |-> 300, concurrency |-> 1, ratePerMin |-> 10]

CanonicalRest ==
  [preconditions |-> <<"http_verification_required:active_external">>,
   egress |-> <<"scope_target">>, impactLevels |-> <<"low">>,
   stopSignals |-> <<"scope_escape", "rate_exceeded", "unauthorized_endpoint",
                     "duration_exceeded">>,
   evidence |-> <<"http_headers_snapshot", "tls_cert_metadata">>,
   severityPossible |-> <<"info", "low">>]

SurfacePublicPosture ==
  [identity |-> "surface-public-posture@1.0.0", active |-> TRUE, targetCategory |-> "surface",
   actions |-> CanonicalActions, limits |-> CanonicalLimits, rest |-> CanonicalRest]

ActionCode(action, i) ==
  FirstCode(<< <<action.id \notin ActionIds, "unknown_playbook_action">>,
               <<action.id # CanonicalActions[i].id, "invalid_playbook">>,
               <<action.type # CanonicalActions[i].type, "unknown_playbook_action">>,
               <<action.allowedTargets # "scope", "target_category_not_allowed">>,
               <<action # CanonicalActions[i], "invalid_playbook">> >>)

ActionCodes(actions) ==
  IF Len(actions) = 6 THEN [i \in 1..6 |-> ActionCode(actions[i], i)] ELSE <<"invalid_playbook">>

ParsePlaybook(playbook, category) ==
  IF playbook = NoFact THEN "playbook_required"
  ELSE FirstCode(<<
    <<playbook.targetCategory # category, "target_category_mismatch">>,
    <<playbook.identity # "surface-public-posture@1.0.0" \/ ~playbook.active, "invalid_playbook">>,
    <<playbook.rest.preconditions # CanonicalRest.preconditions, "invalid_playbook">>,
    CheckOf(FirstFault(ActionCodes(playbook.actions))),
    <<playbook.limits # CanonicalLimits \/ playbook.rest # CanonicalRest, "invalid_playbook">> >>)

(***************************************************************************)
(* Facts about the assessment.                                             *)
(***************************************************************************)
Normalized(in) == IF in.target.candidate = NoFact THEN Failure("missing")
                  ELSE NormalizeExternalUrl(in.target.candidate)

(* From here on n stands for Normalized(in). *)
ParseVerification(in, n) ==
  LET f == in.verification
      c == in.context
  IN IF f = NoFact THEN "none"
     ELSE FirstCode(<<
       <<f.method = "dns_txt", "method_not_allowed">>,
       <<\/ f.method # "http_file" \/ f.status \notin {"pending", "verified", "expired"}
         \/ ~c.made \/ ~n.ok, "invalid">>,
       <<\/ f.accountId # c.accountId \/ f.assessmentId # c.assessmentId
         \/ f.scopeFingerprint # c.scopeFingerprint
         \/ (n.ok /\ f.targetOrigin # TargetOrigin(n.value)), "mismatch">>,
       <<f.verifiedAt > c.evaluatedAt, "unverified">>,
       <<\/ f.expiresAt <= c.evaluatedAt \/ f.expiresAt <= f.verifiedAt
         \/ f.status = "expired", "expired">>,
       <<f.status # "verified", "unverified">> >>)

ParseAttestation(in, n, playbookOk) ==
  LET f == in.attestation
      c == in.context
  IN IF f = NoFact THEN "attestation_required"
     ELSE FirstCode(<<
       <<\/ f.version # "terms@1" \/ f.playbook # "surface-public-posture@1.0.0"
         \/ ~c.made \/ ~n.ok \/ ~playbookOk, "invalid_attestation">>,
       <<\/ f.accountId # c.accountId \/ f.assessmentId # c.assessmentId \/ f.userId # c.userId
         \/ (n.ok /\ f.target # n.value)
         \/ f.scopeFingerprint # c.scopeFingerprint, "attestation_context_mismatch">>,
       <<f.acceptedAt > c.evaluatedAt, "invalid_attestation">> >>)

(***************************************************************************)
(* The codes a request gathers.                                            *)
(***************************************************************************)
ActionBlocks(in) ==
  When(in.action \notin {"passive_external", "active_external"}, "unknown_action")

CategoryBlocks(in) ==
  When(in.targetCategory \notin {"web", "api", "surface", "genai", "internal"},
       "unknown_target_category")
    \cup When(in.targetCategory \in {"web", "api", "genai", "internal"},
              "target_category_not_allowed")

PlanBlocksFor(in, code) ==
  When(~in.context.made, "invalid_context")
    \cup Codes(code)
    \cup When(in.action = "active_external" /\ code = "ok"
                /\ in.entitlement.plan = "free_unverified", "plan_action_not_allowed")
PlanBlocks(in) == PlanBlocksFor(in, ParseEntitlement(in.entitlement, in.context))

TargetBlocks(in, n) ==
  (IF n.ok THEN When(in.target.malformed \/ in.scope = NoFact, "target_invalid")
   ELSE {IF n.code = "forbidden_target" THEN "forbidden_target" ELSE "target_invalid"})
    \cup When(n.ok /\ n.value.port \notin {80, 443}, "port_not_allowed")
    \cup When({"candidate", "candidateUrl", "url", "resolvedAddresses"} \cap in.extra # {},
              "target_invalid")

ScopeBlocks(in, n) ==
  IF in.scope = NoFact THEN {"scope_required", "target_invalid"}
  ELSE IF n.ok /\ ~MatchesScope(in.scope, in.target.candidate)
  THEN {"target_out_of_scope"}
  ELSE When(in.context.made /\ FingerprintScope(in.scope) # in.context.scopeFingerprint,
            "invalid_context")

Resolved(in, n) == ValidateResolvedAddresses(n.value.host, in.target.addresses)

AddressBlocks(resolved) ==
  IF resolved.ok THEN {}
  ELSE {CASE resolved.code = "resolved_addresses_required" -> "resolved_addresses_required"
          [] resolved.code = "forbidden_resolved_address" -> "forbidden_target"
          [] OTHER -> "target_invalid"}

PlaybookBlocks(in, n, code) ==
  Codes(code) \cup Codes(ParseAttestation(in, n, code = "ok"))

VerificationBlocks(state, active) ==
  CASE state = "method_not_allowed" -> {"verification_method_not_allowed"}
    [] state = "mismatch" -> {"verification_context_mismatch"}
    [] state = "expired" -> {"verification_expired"}
    [] state = "invalid" -> {"verification_required"}
    [] state = "unverified" -> When(active, "verification_not_verified")
    [] state = "none" -> When(active, "verification_required")
    [] OTHER -> {}

LimitBlocksFor(reduced) ==
  IF reduced.ok THEN {}
  ELSE {IF reduced.code = "invalid_egress" THEN "invalid_egress" ELSE "invalid_limits"}
LimitBlocks(in) == LimitBlocksFor(ReduceLimits(in.limits))

ExecutionBlocks(in) ==
  When({"actions", "capabilities", "commands"} \cap in.extra # {},
       "caller_execution_fields_not_allowed")

Blocked(in, n) ==
  UNION {ActionBlocks(in), CategoryBlocks(in), PlanBlocks(in), TargetBlocks(in, n),
         ScopeBlocks(in, n), IF n.ok THEN AddressBlocks(Resolved(in, n)) ELSE {},
         PlaybookBlocks(in, n, ParsePlaybook(in.playbook, in.targetCategory)),
         VerificationBlocks(ParseVerification(in, n), in.action = "active_external"),
         LimitBlocks(in), ExecutionBlocks(in)}

(***************************************************************************)
(* The decision.                                                           *)
(***************************************************************************)
Smaller(a, b) == IF a <= b THEN a ELSE b

EffectiveLimits(in, reduced) ==
  [k \in CeilingKeys |->
     Smaller(reduced[k], IF k = "credits" THEN RightsForPlan(in.entitlement.plan).maxCredits
                         ELSE CanonicalLimits[k])]

EffectiveActions(limits) ==
  [i \in 1..6 |->
     [CanonicalActions[i] EXCEPT
        !.limit = [requests |-> Smaller(CanonicalActions[i].limit.requests, limits["ratePerMin"]),
                   durationS |-> Smaller(CanonicalActions[i].limit.durationS,
                                         limits["durationS"])]]]

Denied(blocked) ==
  [allowed |-> FALSE, blocked |-> blocked, actions |-> <<>>, limits |-> NoFact,
   target |-> NoFact, addresses |-> {}, scopeFingerprint |-> NoFact]

Allowed(in, n, limits) ==
  [allowed |-> TRUE, blocked |-> {}, actions |-> EffectiveActions(limits), limits |-> limits,
   target |-> n.value, addresses |-> Resolved(in, n).value,
   scopeFingerprint |-> in.context.scopeFingerprint]

DecisionFor(in, n, blocked) ==
  IF blocked # {} THEN Denied(blocked)
  ELSE Allowed(in, n, EffectiveLimits(in, ReduceLimits(in.limits).value))

AuthorizeTarget(in, n) == DecisionFor(in, n, Blocked(in, n))
Authorize(in) == AuthorizeTarget(in, Normalized(in))
=============================================================================
