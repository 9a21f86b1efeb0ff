------------------------------- MODULE Limits -------------------------------
(***************************************************************************)
(* The limits, plan rights and role capabilities of packages/policy: how   *)
(* the ceilings of four authorities and of a caller are reduced to one,    *)
(* what a plan gives, and what a member may do.  A ceiling is a function   *)
(* from the keys it was given with to numbers; a number that is no positive *)
(* safe integer is any other integer.                                      *)
(***************************************************************************)
EXTENDS Scope

CONSTANT MaxSafeInteger   \* Number.MAX_SAFE_INTEGER, or a smaller bound for TLC.

ASSUME MaxSafeAssumption == MaxSafeInteger \in Nat \ {0}

CeilingKeys == {"durationS", "concurrency", "ratePerMin", "credits"}
Authorities == {"playbook", "entitlement", "account", "global"}
Positive == 1..MaxSafeInteger

ValidCeiling(ceiling) == /\ DOMAIN ceiling = CeilingKeys
                         /\ \A k \in CeilingKeys : ceiling[k] \in Positive

(* A request may leave keys out, and names no others. *)
ValidRequested(ceiling) == /\ DOMAIN ceiling \subseteq CeilingKeys
                           /\ \A k \in DOMAIN ceiling : ceiling[k] \in Positive

Invalid(input, authority) == /\ authority \in DOMAIN input.sources
                             /\ ~ValidCeiling(input.sources[authority])

(* input.requested is empty or holds the one ceiling that was asked for. *)
LimitCode(input) ==
  FirstCode(<< <<~(Authorities \subseteq DOMAIN input.sources), "missing_authoritative_limit">>,
               <<Invalid(input, "playbook"), "invalid_authoritative_limit">>,
               <<input.egress # "scope_target", "invalid_egress">>,
               <<\E a \in Authorities : Invalid(input, a), "invalid_authoritative_limit">>,
               <<\E r \in input.requested : ~ValidRequested(r), "invalid_requested_limit">> >>)

MinFor(key, input) ==
  Min({input.sources[a][key] : a \in Authorities}
        \cup {r[key] : r \in {q \in input.requested : key \in DOMAIN q}})

ReduceLimits(input) == Checked(LimitCode(input), [k \in CeilingKeys |-> MinFor(k, input)])

(***************************************************************************)
(* Plans.                                                                  *)
(***************************************************************************)
Plans == {"free_unverified", "free_verified", "pro", "lifetime"}

RightsForPlan(plan) ==
  CASE plan = "free_unverified" -> [visibility |-> "aggregate", playbookSlice |-> "passive",
                                    maxCredits |-> 1, reports |-> FALSE]
    [] plan = "free_verified" -> [visibility |-> "masked", playbookSlice |-> "introductory",
                                  maxCredits |-> 1, reports |-> FALSE]
    [] plan \in {"pro", "lifetime"} -> [visibility |-> "detailed", playbookSlice |-> "full",
                                        maxCredits |-> 10, reports |-> TRUE]

(***************************************************************************)
(* Members.                                                                *)
(***************************************************************************)
MemberRoles == {"owner", "admin", "operator", "viewer", "billing"}
Capabilities == {"account:read", "membership:manage", "assessment:read", "assessment:create",
                 "assessment:cancel", "billing:read", "billing:purchase"}

RoleCapabilities(role) ==
  CASE role = "owner" -> Capabilities
    [] role = "admin" -> Capabilities \ {"billing:purchase"}
    [] role = "operator" -> {"account:read", "assessment:read", "assessment:create",
                             "assessment:cancel"}
    [] role = "viewer" -> {"account:read", "assessment:read"}
    [] role = "billing" -> {"account:read", "billing:read", "billing:purchase"}

CanMembershipCapability(role, status, capability) ==
  /\ status = "active"
  /\ capability \in RoleCapabilities(role)
=============================================================================
