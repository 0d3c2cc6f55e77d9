----------------------------- MODULE GovernanceGate -----------------------------
(***************************************************************************)
(* The governance gate of Aegis: the decision a proposed action receives   *)
(* under a tenant's policy (aegis/governance).  Everything here is a pure  *)
(* operator; the workflow runtime asks it before every step.               *)
(*                                                                         *)
(* Abstractions: a confidence is a whole percentage, and an optional one   *)
(* is a set of at most one percentage; reasons, roles and rationales are   *)
(* text and left out.                                                      *)
(***************************************************************************)
EXTENDS Naturals

\* StrEnum ActionType.
ActionType ==
  { "SCORE_CANDIDATE", "SHORTLIST_CANDIDATE", "REJECT_APPLICATION", "SEND_MESSAGE",
    "SCHEDULE_INTERVIEW", "REQUEST_DOCUMENT", "VERIFY_DOCUMENT",
    "ORDER_BACKGROUND_CHECK", "PROVISION_ACCESS", "REVOKE_ACCESS", "ORDER_HARDWARE",
    "ASSIGN_LEARNING_PATH", "SCHEDULE_CHECK_IN", "FLAG_RETENTION_RISK",
    "RECOMMEND_INTERNAL_MOVE", "EXTEND_OFFER", "WITHDRAW_OFFER",
    "TERMINATE_EMPLOYMENT", "SET_PERFORMANCE_RATING", "APPROVE_PROMOTION",
    "ADJUST_COMPENSATION", "GRANT_EQUITY" }

IRREVERSIBLE_ACTIONS ==
  { "EXTEND_OFFER", "WITHDRAW_OFFER", "TERMINATE_EMPLOYMENT", "SET_PERFORMANCE_RATING",
    "APPROVE_PROMOTION", "ADJUST_COMPENSATION", "GRANT_EQUITY" }

RestrictedDomain ==
  { "COMPENSATION_BAND", "EQUITY_GRANT", "HEALTH_RECORD", "DISCIPLINARY_RECORD",
    "IMMIGRATION_STATUS" }

\* DOMAIN_BY_ACTION: the domains an action reaches by being what it is.
ImpliedDomains(type) ==
  CASE type = "ADJUST_COMPENSATION" -> {"COMPENSATION_BAND"}
    [] type = "GRANT_EQUITY"        -> {"EQUITY_GRANT"}
    [] OTHER                        -> {}

Percent == 0..100
OptionalPercent == {{}} \cup {{c} : c \in Percent}

\* What the gate reads of a ProposedAction, and ProposedAction.restricted_domains.
ProposedAction(Tenant) ==
  [ tenant : Tenant, type : ActionType, touches : SUBSET RestrictedDomain,
    confidence : OptionalPercent ]

RestrictedDomains(action) == action.touches \cup ImpliedDomains(action.type)

\* TenantPolicy with the checks of __post_init__.
TenantPolicy(Tenant) ==
  { p \in [ tenant : Tenant, autonomous : SUBSET ActionType, forbidden : SUBSET ActionType,
            readable : SUBSET RestrictedDomain, floor : Percent ] :
      p.autonomous \cap p.forbidden = {} }

\* The two postures aegis.cli.provision can store for a tenant.
ConservativePolicy(tenant) ==
  [ tenant |-> tenant,
    autonomous |-> { "SCORE_CANDIDATE", "SEND_MESSAGE", "SCHEDULE_INTERVIEW",
                     "REQUEST_DOCUMENT", "VERIFY_DOCUMENT", "ASSIGN_LEARNING_PATH",
                     "SCHEDULE_CHECK_IN", "FLAG_RETENTION_RISK" },
    forbidden |-> {}, readable |-> {}, floor |-> 70 ]

PermissivePolicy(tenant) ==
  [ tenant |-> tenant, autonomous |-> ActionType \ {"REJECT_APPLICATION"},
    forbidden |-> {}, readable |-> {}, floor |-> 70 ]

-----------------------------------------------------------------------------
Verdict == {"ALLOW", "REQUIRE_HUMAN_APPROVAL", "DENY"}

Denied(policy, action) ==
  \/ action.tenant # policy.tenant
  \/ action.type \in policy.forbidden
  \/ RestrictedDomains(action) \ policy.readable # {}

\* Mutant of NeedsPerson: the policy alone decides.
NeedsPersonByPolicy(policy, action) ==
  \/ action.type \notin policy.autonomous
  \/ \E c \in action.confidence : c < policy.floor

NeedsPerson(policy, action) ==
  \/ action.type \in IRREVERSIBLE_ACTIONS
  \/ action.type \notin policy.autonomous
  \/ \E c \in action.confidence : c < policy.floor

\* GovernanceGate.evaluate; it never returns ESCALATE, which only escalate() does.
Evaluate(policy, action) ==
  IF Denied(policy, action) THEN "DENY"
  ELSE IF NeedsPerson(policy, action) THEN "REQUIRE_HUMAN_APPROVAL"
  ELSE "ALLOW"
=============================================================================
